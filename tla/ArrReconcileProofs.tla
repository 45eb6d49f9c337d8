------------------------- MODULE ArrReconcileProofs -------------------------
(***************************************************************************)
(* Proofs about ArrReconcile, for every set of resources, values and specs *)
(* and every bound.                                                        *)
(***************************************************************************)
EXTENDS ArrReconcile, TLAPS

(***************************************************************************)
(* Types of the operators the actions are built from.                      *)
(***************************************************************************)

\* Setting the Ready condition of a status gives a status.
LEMMA SetReadyType ==
    ASSUME NEW s \in Statuses, NEW c \in Conditions, NEW g \in Nat
    PROVE  SetReady(s, c, g) \in Statuses
BY DEF SetReady, Statuses, Conditions

\* The status at the end of ReconcileConfig is a status.
LEMMA FinishType ==
    ASSUME NEW s \in Statuses, NEW c \in Conditions, work \in Objects
    PROVE  Finish(s, c) \in Statuses
<1>1. work.gen \in Nat /\ work.spec.desired \in Desired
    BY SpecsAssumption, ResourcesAssumption DEF Objects, NoSpec, Nothing, Desired
<1>2. SetReady(s, "True", work.gen) \in Statuses
    BY <1>1, SetReadyType DEF Conditions
<1> QED
    BY <1>1, <1>2 DEF Finish, Statuses

\* An object with another status is an object.
LEMMA NewStatusType ==
    ASSUME NEW o \in Objects, NEW s \in Statuses
    PROVE  [o EXCEPT !.status = s] \in Objects
BY DEF Objects

\* What an object desires.
LEMMA DesiredType ==
    ASSUME NEW o \in Objects
    PROVE  o.spec.desired \in Desired
BY SpecsAssumption DEF Objects, NoSpec, Nothing, Desired

\* A service that carried out one call is a service.
LEMMA EffectType ==
    ASSUME NEW s \in [Resources -> Entries], NEW o \in Ops
    PROVE  Effect(s, o) \in [Resources -> Entries]
<1>1. o.res \in Resources /\ o.op \in {"create", "update", "delete"}
    BY DEF Ops
<1>2. ASSUME o.op # "delete"
      PROVE  Written(o.res.kind, o.payload) \in Values
    BY <1>2, ResourcesAssumption DEF Ops, Written
<1>3. CASE o.op = "create"
  <2>1. applyCreate(o) \in Entries
      BY <1>2, <1>3 DEF applyCreate, Entries
  <2>2. Effect(s, o) = [s EXCEPT ![o.res] = applyCreate(o)]
      BY <1>3 DEF Effect
  <2> QED
      BY <1>1, <2>1, <2>2
<1>4. CASE o.op = "update"
  <2>1. s[o.res].ours \in BOOLEAN
      BY <1>1 DEF Entries
  <2>2. applyUpdate(o, s[o.res]) \in Entries
      BY <1>2, <1>4, <2>1 DEF applyUpdate, Entries
  <2>3. Effect(s, o) = [s EXCEPT ![o.res] = applyUpdate(o, s[o.res])]
      BY <1>1, <1>4 DEF Effect
  <2> QED
      BY <1>1, <2>2, <2>3
<1>5. CASE o.op = "delete"
  <2>1. Gone \in Entries
      BY DEF Gone, Entries
  <2>2. Effect(s, o) = [s EXCEPT ![o.res] = Gone]
      BY <1>5 DEF Effect
  <2> QED
      BY <1>1, <2>1, <2>2
<1> QED
    BY <1>1, <1>3, <1>4, <1>5

\* Changes that carry a payload where they need one are operations.
LEMMA ChangesType ==
    ASSUME NEW d \in Desired, NEW rs \in SUBSET Resources, NEW op,
           \/ op \in {"create", "update"} /\ \A r \in rs : d[r] # NoValue
           \/ op = "delete" /\ \A r \in rs : d[r] = NoValue
    PROVE  Changes(op, rs, d) \subseteq Ops
BY DEF Changes, Ops, Desired

\* The changes that Diff finds between two lists are operations.
LEMMA DiffByNameType ==
    ASSUME NEW kind, NEW current, NEW d \in Desired, NEW equal
    PROVE  DiffByName(kind, current, d, equal) \subseteq Ops
<1> DEFINE wanted == Wanted(kind, d)
           seen   == Seen(kind, current)
<1>1. /\ wanted \subseteq Resources /\ seen \subseteq Resources
      /\ \A r \in Resources : r \in wanted => d[r] # NoValue
      /\ \A r \in seen \ wanted : d[r] = NoValue
    BY DEF Wanted, Seen, OfKind
<1> HIDE DEF wanted, seen
<1>2. Changes("create", wanted \ seen, d) \subseteq Ops
    BY <1>1, ChangesType
<1>3. Changes("update", (wanted \cap seen) \ equal, d) \subseteq Ops
    BY <1>1, ChangesType
<1>4. Changes("delete", seen \ wanted, d) \subseteq Ops
    BY <1>1, ChangesType
<1> QED
    BY <1>2, <1>3, <1>4 DEF DiffByName, wanted, seen

\* Diff computes operations.
LEMMA DiffType ==
    ASSUME NEW current, NEW d \in Desired
    PROVE  Diff(current, d) \subseteq Ops
<1>1. \A kind : /\ Wanted(kind, d) \subseteq Resources
                /\ \A r \in Wanted(kind, d) : d[r] # NoValue
    BY DEF Wanted, OfKind
<1>2. DiffVideoQualityProfiles(current, d) \subseteq Ops
    BY <1>1, ChangesType DEF DiffVideoQualityProfiles
<1>3. diffRootFolders(current, d) \subseteq Ops
    BY <1>1, ChangesType DEF diffRootFolders
<1>4. diffNaming(current, d) \subseteq Ops
    BY <1>1, ChangesType DEF diffNaming
<1>5. /\ DiffCustomFormats(current, d) \subseteq Ops
      /\ diffDownloadClients(current, d) \subseteq Ops
      /\ diffIndexers(current, d) \subseteq Ops
      /\ diffRemotePathMappings(current, d) \subseteq Ops
      /\ diffNotifications(current, d) \subseteq Ops
    BY DiffByNameType
       DEF DiffCustomFormats, diffDownloadClients, diffIndexers,
           diffRemotePathMappings, diffNotifications
<1>6. diffDelayProfiles(current, d) \subseteq Ops
    BY DiffByNameType DEF diffDelayProfiles
<1> QED
    BY <1>2, <1>3, <1>4, <1>5, <1>6 DEF Diff

\* The direct apply plans operations.
LEMMA ApplyDirectType ==
    ASSUME NEW s, NEW d \in Desired
    PROVE  ApplyDirect(s, d) \subseteq Ops
<1>1. \A kind : /\ Wanted(kind, d) \subseteq Resources
                /\ \A r \in Wanted(kind, d) : d[r] # NoValue
    BY DEF Wanted, OfKind
<1>2. /\ Tagged(s, "ImportList") \subseteq Resources
      /\ \A r \in Tagged(s, "ImportList") \ Wanted("ImportList", d) : d[r] = NoValue
    BY DEF Tagged, Existing, Wanted, OfKind
<1>3. applyImportLists(s, d) \subseteq Ops
  <2> DEFINE wanted == Wanted("ImportList", d)
             exist  == Existing(s, "ImportList")
             tagged == Tagged(s, "ImportList")
  <2>1. Changes("create", wanted \ exist, d) \subseteq Ops
      BY <1>1, ChangesType
  <2>2. Changes("update", wanted \cap exist, d) \subseteq Ops
      BY <1>1, ChangesType
  <2>3. Changes("delete", tagged \ wanted, d) \subseteq Ops
      BY <1>2, ChangesType
  <2> QED
      BY <2>1, <2>2, <2>3 DEF applyImportLists
<1>4. Changes("update", Wanted("MediaManagement", d), d) \subseteq Ops
    BY <1>1, ChangesType
<1>5. Changes("update", Wanted("Authentication", d), d) \subseteq Ops
    BY <1>1, ChangesType
<1> QED
    BY <1>3, <1>4, <1>5 DEF ApplyDirect

\* The absent object is an object.
LEMMA NoObjectType == NoObject \in Objects
BY DEF NoObject, Objects, EmptyStatus, Statuses, Conditions, Nothing, Desired,
       NoSpec

(***************************************************************************)
(* Type correctness.                                                       *)
(***************************************************************************)

\* The end of a pass keeps the types of what it resets.
LEMMA EndPassType ==
    ASSUME EndPass
    PROVE  /\ pc' \in {"idle"} \cup NormalPath \cup DeletePath
           /\ work' \in Objects /\ workFresh' \in BOOLEAN
           /\ todo' \subseteq Ops /\ failed' \in BOOLEAN
           /\ passFault' \in BOOLEAN
           /\ since' \in [Resources -> {"same", "edited", "replaced", "unseen"}]
BY NoObjectType DEF EndPass

\* The counters stay within their bounds.
LEMMA CountersType ==
    ASSUME Typed
    PROVE  /\ edits < MaxEdits => edits + 1 \in 0 .. MaxEdits
           /\ drifts < MaxDrifts => drifts + 1 \in 0 .. MaxDrifts
           /\ faults < MaxFaults => faults + 1 \in 0 .. MaxFaults
BY BoundsAssumption DEF Typed

\* A call, failed or not, keeps the count of failures within its bound.
LEMMA OutcomeType ==
    ASSUME Typed, NEW out, Outcome(out)
    PROVE  faults' \in 0 .. MaxFaults
BY CountersType DEF Outcome, Typed

\* The initial state is well typed.
LEMMA InitType == Init => Typed
<1> SUFFICES ASSUME Init PROVE Typed
    OBVIOUS
<1>1. svc \in [Resources -> Entries]
  <2> PICK v \in [Resources -> Values] : svc = FreshService(v)
      BY DEF Init
  <2> QED
      BY DEF FreshService, Entries, Gone
<1>2. edits \in 0 .. MaxEdits /\ drifts \in 0 .. MaxDrifts /\ faults \in 0 .. MaxFaults
    BY BoundsAssumption DEF Init
<1>3. todo \subseteq Ops /\ since \in [Resources -> {"same", "edited", "replaced", "unseen"}]
    BY DEF Init
<1> QED
    BY <1>1, <1>2, <1>3, NoObjectType DEF Init, Typed

\* Every step of the system keeps the types.
LEMMA NextType == Typed /\ [Next]_vars => Typed'
<1> SUFFICES ASSUME Typed, [Next]_vars PROVE Typed'
    OBVIOUS
<1> USE DEF kubeVars, workerVars, svcVars, bookVars
<1>1. ASSUME NEW s \in Specs, UserCreates(s) PROVE Typed'
  <2>1. obj' \in Objects
      BY <1>1, NoObjectType DEF UserCreates, Store, Objects
  <2> QED
      BY <1>1, <2>1, CountersType DEF UserCreates, UserEdit, Store, Typed
<1>2. ASSUME NEW s \in Specs, UserEdits(s) PROVE Typed'
  <2>1. obj' \in Objects
    <3>1. obj \in Objects /\ obj.gen + 1 \in Nat
        BY DEF Typed, Objects
    <3>2. [obj EXCEPT !.spec = s, !.gen = obj.gen + 1] \in Objects
        BY <3>1 DEF Objects
    <3>3. obj' = [obj EXCEPT !.spec = s, !.gen = obj.gen + 1]
        BY <1>2, <3>1 DEF UserEdits, Store, Objects
    <3> QED
        BY <3>2, <3>3
  <2> QED
      BY <1>2, <2>1, CountersType DEF UserEdits, UserEdit, Store, Typed
<1>3. ASSUME UserDeletes PROVE Typed'
  <2>1. obj' \in Objects
    <3>1. [obj EXCEPT !.deleting = TRUE] \in Objects
        BY DEF Typed, Objects
    <3> QED
        BY <1>3, <3>1, NoObjectType DEF UserDeletes, Store
  <2> QED
      BY <1>3, <2>1, CountersType DEF UserDeletes, UserEdit, Store, Typed
<1>4. ASSUME NEW r \in Resources, UserRemoves(r) PROVE Typed'
    BY <1>4, BoundsAssumption DEF UserRemoves, UserDrift, Typed, Entries, Gone
<1>5. ASSUME NEW r \in Resources, NEW v \in Values, UserWrites(r, v) PROVE Typed'
    BY <1>5, BoundsAssumption DEF UserWrites, UserDrift, Typed, Entries
<1>6. ASSUME CacheSync PROVE Typed'
    BY <1>6 DEF CacheSync, Typed
<1>7. ASSUME TimerFires PROVE Typed'
    BY <1>7 DEF TimerFires, Typed
<1>8. ASSUME Crash PROVE Typed'
  <2>1. obj.exists \in BOOLEAN
      BY DEF Typed, Objects
  <2> QED
      BY <1>8, <2>1, EndPassType, CountersType DEF Crash, Typed
<1>9. ASSUME Fetch PROVE Typed'
    BY <1>9 DEF Fetch, Goto, Typed, NormalPath, DeletePath
<1>10. ASSUME NEW out \in Writes, AddFinalizer(out) PROVE Typed'
  <2>1. obj' \in Objects
      BY <1>10, ZenonT(60) DEF AddFinalizer, Typed, Objects
  <2> QED
      BY <1>10, <2>1, EndPassType, OutcomeType DEF AddFinalizer, Typed
<1>11. ASSUME NEW out \in Reads, Prepare(out) PROVE Typed'
  <2>1. work' \in Objects
      BY <1>11, NewStatusType, SetReadyType, ZenonT(60)
         DEF Prepare, Typed, Objects, Conditions
  <2> QED
      BY <1>11, <2>1, BoundsAssumption
         DEF Prepare, Outcome, Noted, Goto, Typed, NormalPath
<1>12. ASSUME NEW out \in Reads, Connect(out) PROVE Typed'
  <2>1. work.status \in Statuses /\ work.gen \in Nat
      BY DEF Typed, Objects
  <2>2. SetReady(work.status, "False", work.gen) \in Statuses
      BY <2>1, SetReadyType DEF Conditions
  <2>3. /\ [work.status EXCEPT !.connected = TRUE] \in Statuses
        /\ [SetReady(work.status, "False", work.gen) EXCEPT !.connected = FALSE]
              \in Statuses
      BY <2>1, <2>2 DEF Statuses
  <2>4. work' \in Objects
    <3>1. [work EXCEPT !.status.connected = TRUE] =
              [work EXCEPT !.status = [work.status EXCEPT !.connected = TRUE]]
        BY DEF Typed, Objects
    <3> QED
        BY <1>12, <2>3, <3>1, NewStatusType DEF Connect, Typed
  <2> QED
      BY <1>12, <2>4, BoundsAssumption
         DEF Connect, Outcome, Noted, Goto, Typed, NormalPath
<1>13. ASSUME NEW blind, NEW lookup \in BOOLEAN, ReadCurrent(blind, lookup)
       PROVE  Typed'
  <2>1. todo' \subseteq Ops
      BY <1>13, DesiredType, DiffType DEF ReadCurrent, ReadService, Typed
  <2>2. work' \in Objects
      BY <1>13, NewStatusType, FinishType
         DEF ReadCurrent, Typed, Objects, Conditions
  <2>3. faults' \in 0 .. MaxFaults /\ passFault' \in BOOLEAN
        /\ since' \in [Resources -> {"same", "edited", "replaced", "unseen"}]
      BY <1>13, CountersType DEF ReadCurrent, ReadService, Typed
  <2> QED
      BY <1>13, <2>1, <2>2, <2>3 DEF ReadCurrent, Goto, Typed, NormalPath
<1>14. ASSUME ReadFails PROVE Typed'
  <2>1. work' \in Objects
      BY <1>14, NewStatusType, SetReadyType
         DEF ReadFails, Typed, Objects, Conditions
  <2> QED
      BY <1>14, <2>1, BoundsAssumption
         DEF ReadFails, Outcome, Noted, Goto, Typed, NormalPath
<1>15. ASSUME ApplyTag PROVE Typed'
    BY <1>15, BoundsAssumption
       DEF ApplyTag, EnsureTag, Outcome, Noted, Goto, Typed, NormalPath
<1>16. ASSUME NEW out \in Writes, ApplyTagFails(out) PROVE Typed'
    BY <1>16, BoundsAssumption
       DEF ApplyTagFails, EnsureTag, Outcome, Noted, Goto, Typed, NormalPath
<1>17. ASSUME PanicRecovered PROVE Typed'
    BY <1>17, EndPassType DEF PanicRecovered, Typed
<1>18. ASSUME NEW o \in NextOps(todo), NEW out \in Writes, ApplyOne(o, out)
       PROVE  /\ todo' \subseteq Ops /\ failed' \in BOOLEAN
              /\ svc' \in [Resources -> Entries]
              /\ passFault' \in BOOLEAN /\ faults' \in 0 .. MaxFaults
  <2>1. o \in Ops
      BY DEF NextOps, Typed
  <2>2. Effect(svc, o) \in [Resources -> Entries]
      BY <2>1, EffectType DEF Typed
  <2> QED
      BY <1>18, <2>1, <2>2, BoundsAssumption DEF ApplyOne, Outcome, Noted, Typed
<1>19. ASSUME NEW o \in NextOps(todo), NEW out \in Writes, Apply(o, out)
       PROVE  Typed'
    BY <1>18, <1>19 DEF Apply, Typed
<1>20. ASSUME ApplyDone PROVE Typed'
  <2>1. work' \in Objects
      BY <1>20, NewStatusType, FinishType
         DEF ApplyDone, Typed, Objects, Conditions
  <2> QED
      BY <1>20, <2>1 DEF ApplyDone, Goto, Typed, NormalPath
<1>21. ASSUME DirectSkip PROVE Typed'
    BY <1>21 DEF DirectSkip, Goto, Typed, NormalPath
<1>22. ASSUME NEW out \in Writes, DirectTag(out) PROVE Typed'
    BY <1>22, BoundsAssumption
       DEF DirectTag, EnsureTag, Outcome, Noted, Goto, Typed, NormalPath
<1>23. ASSUME NEW out \in Reads, DirectRead(out) PROVE Typed'
  <2>1. todo' \subseteq Ops
      BY <1>23, DesiredType, ApplyDirectType DEF DirectRead, Typed
  <2> QED
      BY <1>23, <2>1, BoundsAssumption
         DEF DirectRead, Outcome, Noted, Goto, Typed, NormalPath
<1>24. ASSUME NEW o \in NextOps(todo), NEW out \in Writes, DirectApply(o, out)
       PROVE  Typed'
    BY <1>18, <1>24 DEF DirectApply, Typed
<1>25. ASSUME DirectDone PROVE Typed'
    BY <1>25 DEF DirectDone, Goto, Typed, NormalPath
<1>26. ASSUME NEW out \in Writes, Register(out) PROVE Typed'
    BY <1>26, OutcomeType DEF Register, Noted, Goto, Typed, NormalPath
<1>27. ASSUME NEW out \in Writes, WriteStatus(out)
       PROVE  obj' \in Objects /\ cacheFresh' \in BOOLEAN /\ faults' \in 0 .. MaxFaults
  <2>1. work.status \in Statuses
      BY DEF Typed, Objects
  <2> QED
      BY <1>27, <2>1, NewStatusType, OutcomeType DEF WriteStatus, Typed
<1>28. ASSUME NEW out \in Writes, UpdateStatus(out) PROVE Typed'
    BY <1>27, <1>28, EndPassType DEF UpdateStatus, Typed
<1>29. ASSUME NEW out \in Writes, UpdateErrorStatus(out) PROVE Typed'
    BY <1>27, <1>29, EndPassType DEF UpdateErrorStatus, Typed
<1>30. ASSUME NEW out \in Writes, Unregister(out) PROVE Typed'
    BY <1>30, OutcomeType DEF Unregister, Noted, Goto, Typed, DeletePath
<1>31. ASSUME NEW out \in Reads, DeleteSecrets(out) PROVE Typed'
    BY <1>31, BoundsAssumption
       DEF DeleteSecrets, Outcome, Noted, Goto, Typed, DeletePath
<1>32. ASSUME NEW blind, NEW lookup \in BOOLEAN, CleanupRead(blind, lookup)
       PROVE  Typed'
  <2>1. todo' \subseteq Ops
    <3>1. Nothing \in Desired
        BY DEF Nothing, Desired
    <3> QED
        BY <1>32, <3>1, DiffType DEF CleanupRead, ReadService
  <2> QED
      BY <1>32, <2>1, BoundsAssumption
         DEF CleanupRead, ReadService, Goto, Typed, DeletePath
<1>33. ASSUME CleanupReadFails PROVE Typed'
    BY <1>33, BoundsAssumption
       DEF CleanupReadFails, Outcome, Noted, Goto, Typed, DeletePath
<1>34. ASSUME NEW out \in Writes, CleanupTag(out) PROVE Typed'
    BY <1>34, BoundsAssumption
       DEF CleanupTag, EnsureTag, Outcome, Noted, Goto, Typed, DeletePath
<1>35. ASSUME NEW o \in NextOps(todo), NEW out \in Writes, CleanupApply(o, out)
       PROVE  Typed'
    BY <1>18, <1>35 DEF CleanupApply, Typed
<1>36. ASSUME CleanupDone PROVE Typed'
    BY <1>36 DEF CleanupDone, Goto, Typed, DeletePath
<1>37. ASSUME NEW out \in Writes, RemoveFinalizer(out) PROVE Typed'
    BY <1>37, EndPassType, NoObjectType, OutcomeType DEF RemoveFinalizer, Typed
<1>38. CASE UNCHANGED vars
    BY <1>38 DEF vars, Typed
<1> QED
    BY <1>1, <1>2, <1>3, <1>4, <1>5, <1>6, <1>7, <1>8, <1>9, <1>10, <1>11,
       <1>12, <1>13, <1>14, <1>15, <1>16, <1>17, <1>19, <1>20, <1>21, <1>22,
       <1>23, <1>24, <1>25, <1>26, <1>28, <1>29, <1>30, <1>31, <1>32, <1>33,
       <1>34, <1>35, <1>36, <1>37, <1>38
       DEF Next, User, Worker, NormalStep, DeleteStep

(***************************************************************************)
(* The finalizer guards every effect.                                      *)
(*                                                                         *)
(* The property speaks of the stored object, the worker acts on a copy     *)
(* from a cache that may be old, so the invariant relates the three.  Two  *)
(* facts carry it.  An object seen with its finalizer and unmarked, Held,  *)
(* keeps existing until a worker on the delete path lets it go; and while  *)
(* a worker is on that path, neither the cache nor the store holds such an *)
(* object, because only a worker elsewhere could give it the finalizer.    *)
(***************************************************************************)
Held(o) == o.exists /\ o.fin /\ ~o.deleting

\* What an old cached copy still says about the stored object.
OldCopies ==
    /\ Held(cache) => obj.exists /\ obj.fin
    /\ cache.exists /\ cache.deleting => ~Held(obj)

\* What the worker's place in Reconcile says.
Places ==
    /\ pc = "addFinalizer" => work.exists /\ ~work.deleting /\ ~work.fin
    /\ pc \in NormalPath \ {"addFinalizer"} => obj.exists /\ obj.fin
    /\ pc \in DeletePath => ~Held(cache) /\ ~Held(obj)

GuardInv == Typed /\ FreshCopies /\ OldCopies /\ Places

\* Writing a status changes nothing else of an object.
LEMMA NewStatusSame ==
    ASSUME NEW o \in Objects, NEW s
    PROVE  SameObject([o EXCEPT !.status = s], o)
BY DEF SameObject, Objects

\* An object is the same as itself.
LEMMA SelfSame ==
    ASSUME NEW o
    PROVE  SameObject(o, o)
BY DEF SameObject

\* A step inside one of the two paths that touches no copy of the object but
\* the status in the worker's.
LEMMA QuietStep ==
    ASSUME GuardInv, Typed',
           UNCHANGED <<obj, cache, cacheFresh, workFresh>>,
           SameObject(work', work),
           \/ /\ pc \in NormalPath \ {"addFinalizer"}
              /\ pc' \in NormalPath \ {"addFinalizer"}
           \/ pc \in DeletePath /\ pc' \in DeletePath
    PROVE  GuardInv'
<1>1. FreshCopies' /\ OldCopies'
    BY DEF GuardInv, FreshCopies, OldCopies, Held, SameObject
<1>2. Places'
    BY DEF GuardInv, Places, Held, NormalPath, DeletePath
<1> QED
    BY <1>1, <1>2 DEF GuardInv

\* A step that ends the pass and changes at most the stored status.
LEMMA EndStep ==
    ASSUME GuardInv, Typed', EndPass, UNCHANGED cache,
           \/ UNCHANGED <<obj, cacheFresh>>
           \/ SameObject(obj', obj) /\ cacheFresh' = FALSE
           \/ SameObject(obj', obj) /\ obj' = obj /\ cacheFresh' = cacheFresh
    PROVE  GuardInv'
<1>1. FreshCopies'
    BY DEF GuardInv, FreshCopies, EndPass
<1>2. OldCopies'
    BY DEF GuardInv, OldCopies, Held, SameObject
<1>3. Places'
    BY DEF EndPass, Places, NormalPath, DeletePath
<1> QED
    BY <1>1, <1>2, <1>3 DEF GuardInv

\* GuardInv is inductive.
LEMMA GuardStep == GuardInv /\ [Next]_vars => GuardInv'
<1> SUFFICES ASSUME GuardInv, [Next]_vars PROVE GuardInv'
    OBVIOUS
<1>0. Typed /\ Typed'
    BY NextType DEF GuardInv
<1> USE DEF kubeVars, workerVars, svcVars, bookVars
<1>1. ASSUME NEW s \in Specs, UserCreates(s) PROVE GuardInv'
  <2>1. obj'.exists /\ ~obj'.fin /\ ~obj'.deleting
      BY <1>1 DEF UserCreates, Store, NoObject
  <2> QED
      BY <1>0, <1>1, <2>1
         DEF UserCreates, UserEdit, Store, GuardInv, FreshCopies, OldCopies,
             Places, Held, SameObject
<1>2. ASSUME NEW s \in Specs, UserEdits(s) PROVE GuardInv'
  <2>1. /\ obj'.exists = obj.exists /\ obj'.fin = obj.fin
        /\ obj'.deleting = obj.deleting
      BY <1>0, <1>2 DEF UserEdits, Store, Typed, Objects
  <2> QED
      BY <1>0, <1>2, <2>1
         DEF UserEdits, UserEdit, Store, GuardInv, FreshCopies, OldCopies,
             Places, Held
<1>3. ASSUME UserDeletes PROVE GuardInv'
  <2>1. \/ obj.fin /\ obj'.exists /\ obj'.fin /\ obj'.deleting
        \/ ~obj.fin /\ ~obj'.exists
      BY <1>0, <1>3 DEF UserDeletes, Store, Typed, Objects, NoObject
  <2> QED
      BY <1>0, <1>3, <2>1
         DEF UserDeletes, UserEdit, Store, GuardInv, FreshCopies, OldCopies,
             Places, Held
<1>4. ASSUME NEW r \in Resources, UserRemoves(r) PROVE GuardInv'
    BY <1>0, <1>4
       DEF UserRemoves, UserDrift, GuardInv, FreshCopies, OldCopies, Places
<1>5. ASSUME NEW r \in Resources, NEW v \in Values, UserWrites(r, v) PROVE GuardInv'
    BY <1>0, <1>5
       DEF UserWrites, UserDrift, GuardInv, FreshCopies, OldCopies, Places
<1>6. ASSUME CacheSync PROVE GuardInv'
    BY <1>0, <1>6
       DEF CacheSync, GuardInv, FreshCopies, OldCopies, Places, Held
<1>7. ASSUME TimerFires PROVE GuardInv'
    BY <1>0, <1>7
       DEF TimerFires, GuardInv, FreshCopies, OldCopies, Places, Held
<1>8. ASSUME Crash PROVE GuardInv'
    BY <1>0, <1>8
       DEF Crash, EndPass, GuardInv, FreshCopies, OldCopies, Places, Held,
           NormalPath, DeletePath
<1>9. ASSUME Fetch PROVE GuardInv'
  <2>1. CASE ~cache.exists \/ cache.spec.suspend
      BY <1>0, <1>9, <2>1
         DEF Fetch, GuardInv, FreshCopies, OldCopies, Places, Held
  <2>2. CASE cache.exists /\ ~cache.spec.suspend
    <3>1. /\ work' = cache /\ workFresh' = cacheFresh
          /\ UNCHANGED <<obj, cache, cacheFresh>>
          /\ pc' = IF cache.deleting THEN "unregister"
                   ELSE IF ~cache.fin THEN "addFinalizer" ELSE "prepare"
        BY <1>9, <2>2 DEF Fetch, Goto
    <3>2. FreshCopies' /\ OldCopies'
        BY <3>1 DEF GuardInv, FreshCopies, OldCopies, SameObject, Held
    <3>3. Places'
        BY <2>2, <3>1 DEF GuardInv, OldCopies, Places, Held, NormalPath, DeletePath
    <3> QED
        BY <1>0, <3>2, <3>3 DEF GuardInv
  <2> QED
      BY <2>1, <2>2
<1>10. ASSUME NEW out \in Writes, AddFinalizer(out) PROVE GuardInv'
  <2>1. CASE workFresh /\ out # "lost"
    <3>1. /\ obj'.exists = obj.exists /\ obj'.fin
          /\ obj'.deleting = obj.deleting /\ cacheFresh' = FALSE
        BY <1>0, <1>10, <2>1 DEF AddFinalizer, Typed, Objects
    <3>2. cache = obj /\ ~obj.deleting
        BY <1>10, <2>1
           DEF AddFinalizer, GuardInv, FreshCopies, Places, SameObject
    <3>3. FreshCopies' /\ OldCopies'
        BY <1>10, <3>1, <3>2
           DEF AddFinalizer, EndPass, GuardInv, FreshCopies, OldCopies, Held
    <3>4. Places'
        BY <1>10 DEF AddFinalizer, EndPass, Places, NormalPath, DeletePath
    <3> QED
        BY <1>0, <3>3, <3>4 DEF GuardInv
  <2>2. CASE ~(workFresh /\ out # "lost")
      BY <1>0, <1>10, <2>2, EndStep DEF AddFinalizer
  <2> QED
      BY <2>1, <2>2
<1>11. ASSUME NEW out \in Reads, Prepare(out) PROVE GuardInv'
    BY <1>0, <1>11, QuietStep, NewStatusSame, SelfSame
       DEF Prepare, Goto, NormalPath, Typed
<1>12. ASSUME NEW out \in Reads, Connect(out) PROVE GuardInv'
  <2>1. SameObject(work', work)
      BY <1>0, <1>12 DEF Connect, SameObject, Typed, Objects
  <2> QED
      BY <1>0, <1>12, <2>1, QuietStep DEF Connect, Goto, NormalPath
<1>13. ASSUME NEW blind, NEW lookup \in BOOLEAN, ReadCurrent(blind, lookup)
       PROVE  GuardInv'
  <2>1. SameObject(work', work)
      BY <1>0, <1>13, NewStatusSame, SelfSame DEF ReadCurrent, Typed
  <2> QED
      BY <1>0, <1>13, <2>1, QuietStep DEF ReadCurrent, Goto, NormalPath
<1>14. ASSUME ReadFails PROVE GuardInv'
    BY <1>0, <1>14, QuietStep, NewStatusSame DEF ReadFails, Goto, NormalPath, Typed
<1>15. ASSUME ApplyTag PROVE GuardInv'
    BY <1>0, <1>15, QuietStep DEF ApplyTag, EnsureTag, Goto, NormalPath, SameObject
<1>16. ASSUME NEW out \in Writes, ApplyTagFails(out) PROVE GuardInv'
    BY <1>0, <1>16, QuietStep
       DEF ApplyTagFails, EnsureTag, Goto, NormalPath, SameObject
<1>17. ASSUME PanicRecovered PROVE GuardInv'
    BY <1>0, <1>17, EndStep DEF PanicRecovered
<1>18. ASSUME NEW o \in NextOps(todo), NEW out \in Writes,
              Apply(o, out) \/ DirectApply(o, out)
       PROVE  GuardInv'
    BY <1>0, <1>18, QuietStep DEF Apply, DirectApply, NormalPath, SameObject
<1>19. ASSUME ApplyDone PROVE GuardInv'
    BY <1>0, <1>19, QuietStep, NewStatusSame DEF ApplyDone, Goto, NormalPath, Typed
<1>20. ASSUME DirectSkip \/ DirectDone PROVE GuardInv'
    BY <1>0, <1>20, QuietStep DEF DirectSkip, DirectDone, Goto, NormalPath, SameObject
<1>21. ASSUME NEW out \in Writes, DirectTag(out) PROVE GuardInv'
    BY <1>0, <1>21, QuietStep DEF DirectTag, EnsureTag, Goto, NormalPath, SameObject
<1>22. ASSUME NEW out \in Reads, DirectRead(out) PROVE GuardInv'
    BY <1>0, <1>22, QuietStep DEF DirectRead, Goto, NormalPath, SameObject
<1>23. ASSUME NEW out \in Writes, Register(out) PROVE GuardInv'
    BY <1>0, <1>23, QuietStep DEF Register, Goto, NormalPath, SameObject
<1>24. ASSUME NEW out \in Writes, UpdateStatus(out) \/ UpdateErrorStatus(out)
       PROVE  GuardInv'
  <2>1. CASE workFresh /\ out # "lost"
    <3>1. obj' = [obj EXCEPT !.status = work.status]
        BY <1>24, <2>1 DEF UpdateStatus, UpdateErrorStatus, WriteStatus
    <3>2. SameObject(obj', obj)
        BY <1>0, <3>1, NewStatusSame DEF Typed
    <3>3. \/ cacheFresh' = FALSE
          \/ obj.status = work.status /\ cacheFresh' = cacheFresh
        BY <1>0, <1>24, <2>1
           DEF UpdateStatus, UpdateErrorStatus, WriteStatus, Typed
    <3>4. obj.status = work.status => obj' = obj
        BY <1>0, <3>1 DEF Typed, Objects
    <3> QED
        BY <1>0, <1>24, <3>2, <3>3, <3>4, EndStep DEF UpdateStatus, UpdateErrorStatus
  <2>2. CASE ~(workFresh /\ out # "lost")
      BY <1>0, <1>24, <2>2, EndStep DEF UpdateStatus, UpdateErrorStatus, WriteStatus
  <2> QED
      BY <2>1, <2>2
<1>25. ASSUME NEW out \in Writes, Unregister(out) \/ CleanupTag(out) PROVE GuardInv'
    BY <1>0, <1>25, QuietStep
       DEF Unregister, CleanupTag, EnsureTag, Goto, DeletePath, SameObject
<1>26. ASSUME NEW out \in Reads, DeleteSecrets(out) PROVE GuardInv'
    BY <1>0, <1>26, QuietStep DEF DeleteSecrets, Goto, DeletePath, SameObject
<1>27. ASSUME NEW blind, NEW lookup \in BOOLEAN, CleanupRead(blind, lookup)
       PROVE  GuardInv'
    BY <1>0, <1>27, QuietStep DEF CleanupRead, Goto, DeletePath, SameObject
<1>28. ASSUME CleanupReadFails \/ CleanupDone PROVE GuardInv'
    BY <1>0, <1>28, QuietStep
       DEF CleanupReadFails, CleanupDone, Goto, DeletePath, SameObject
<1>29. ASSUME NEW o \in NextOps(todo), NEW out \in Writes, CleanupApply(o, out)
       PROVE  GuardInv'
    BY <1>0, <1>29, QuietStep DEF CleanupApply, DeletePath, SameObject
<1>30. ASSUME NEW out \in Writes, RemoveFinalizer(out) PROVE GuardInv'
  <2>1. CASE workFresh /\ out # "lost"
    <3>1. obj' = NoObject /\ cacheFresh' = FALSE /\ ~Held(cache) /\ UNCHANGED cache
        BY <1>30, <2>1 DEF RemoveFinalizer, GuardInv, Places, DeletePath
    <3>2. FreshCopies' /\ OldCopies'
        BY <1>30, <3>1
           DEF RemoveFinalizer, EndPass, FreshCopies, OldCopies, Held, NoObject
    <3>3. Places'
        BY <1>30 DEF RemoveFinalizer, EndPass, Places, NormalPath, DeletePath
    <3> QED
        BY <1>0, <3>2, <3>3 DEF GuardInv
  <2>2. CASE ~(workFresh /\ out # "lost")
      BY <1>0, <1>30, <2>2, EndStep DEF RemoveFinalizer
  <2> QED
      BY <2>1, <2>2
<1>31. CASE UNCHANGED vars
    BY <1>0, <1>31 DEF vars, GuardInv, FreshCopies, OldCopies, Places
<1> QED
    BY <1>1, <1>2, <1>3, <1>4, <1>5, <1>6, <1>7, <1>8, <1>9, <1>10, <1>11,
       <1>12, <1>13, <1>14, <1>15, <1>16, <1>17, <1>18, <1>19, <1>20, <1>21,
       <1>22, <1>23, <1>24, <1>25, <1>26, <1>27, <1>28, <1>29, <1>30, <1>31
       DEF Next, User, Worker, NormalStep, DeleteStep

\* The invariant holds throughout.
THEOREM GuardInvariant == Spec => []GuardInv
<1>1. Init => GuardInv
  <2> SUFFICES ASSUME Init PROVE GuardInv
      OBVIOUS
  <2>1. FreshCopies /\ OldCopies /\ Places
      BY DEF Init, FreshCopies, OldCopies, Places, Held, NoObject, NormalPath,
             DeletePath
  <2> QED
      BY <2>1, InitType DEF GuardInv
<1> QED
    BY <1>1, GuardStep, PTL DEF Spec

\* Type correctness of the reconciler, whatever the interleaving of user,
\* informer, worker and faults; a copy marked fresh is the stored object but
\* for the status.  That a copy stays true to its mark is part of GuardInv.
THEOREM TypeCorrect == Spec => []TypeOK
<1>1. GuardInv => TypeOK
    BY DEF GuardInv, TypeOK
<1> QED
    BY <1>1, GuardInvariant, PTL

\* No effect without finalizer: on the way through reconcileNormal the stored
\* object carries it, however old the worker's copy is.
THEOREM FinalizerGuard == Spec => []FinalizerGuardsEffects
<1>1. GuardInv => FinalizerGuardsEffects
    BY DEF GuardInv, Places, FinalizerGuardsEffects
<1> QED
    BY <1>1, GuardInvariant, PTL

(***************************************************************************)
(* A stored status is about the stored spec.                               *)
(*                                                                         *)
(* While the worker's copy is fresh, what it says about Synced is either   *)
(* what is stored or the result of this pass, and from the point where the *)
(* pass decided on Ready that decision is about the copy's generation.     *)
(***************************************************************************)
Decided ==
    {"directTag", "directRead", "directApply", "register", "status", "errStatus"}

SyncedHere(o) == o.status.syncedGen = o.gen /\ o.status.hash = o.spec.desired

StatusInv ==
    /\ obj.status.syncedGen <= obj.gen
    /\ workFresh /\ pc \in NormalPath =>
          work.status.syncedGen = obj.status.syncedGen \/ SyncedHere(work)
    /\ pc \in Decided => work.status.readyGen = work.gen

\* A step inside Reconcile that leaves the stored object alone.
LEMMA QuietStatus ==
    ASSUME StatusInv, UNCHANGED <<obj, workFresh>>, SameObject(work', work),
           pc' \in NormalPath => pc \in NormalPath,
           \/ work'.status.syncedGen = work.status.syncedGen
              /\ work'.status.hash = work.status.hash
           \/ SyncedHere(work'),
           pc' \in Decided =>
              \/ pc \in Decided /\ work'.status = work.status
              \/ work'.status.readyGen = work.gen
    PROVE  StatusInv'
BY DEF StatusInv, SyncedHere, SameObject

\* A step that ends the pass and leaves the stored object alone.
LEMMA EndStatus ==
    ASSUME StatusInv, EndPass, UNCHANGED obj
    PROVE  StatusInv'
BY DEF StatusInv, EndPass, NormalPath, Decided

\* Setting Ready keeps what the status says about Synced.
LEMMA SetReadyFields ==
    ASSUME NEW s \in Statuses, NEW c, NEW g
    PROVE  /\ SetReady(s, c, g).readyGen = g
           /\ SetReady(s, c, g).syncedGen = s.syncedGen
           /\ SetReady(s, c, g).hash = s.hash
BY DEF SetReady, Statuses

\* The end of ReconcileConfig speaks of the worker's copy.
LEMMA FinishFields ==
    ASSUME NEW s \in Statuses, NEW c
    PROVE  /\ Finish(s, c).readyGen = work.gen
           /\ Finish(s, c).syncedGen = work.gen
           /\ Finish(s, c).hash = work.spec.desired
BY DEF Finish, SetReady, Statuses

\* StatusInv is inductive relative to GuardInv.
LEMMA StatusStep == GuardInv /\ StatusInv /\ [Next]_vars => StatusInv'
<1> SUFFICES ASSUME GuardInv, StatusInv, [Next]_vars PROVE StatusInv'
    OBVIOUS
<1>0. /\ Typed /\ work \in Objects /\ work.status \in Statuses
      /\ obj \in Objects /\ obj.gen \in Nat /\ obj.status \in Statuses
      /\ obj.status.syncedGen \in Nat
    BY DEF GuardInv, Typed, Objects, Statuses
<1> USE DEF kubeVars, workerVars, svcVars, bookVars
<1>1. ASSUME NEW s \in Specs, UserCreates(s) PROVE StatusInv'
  <2>1. obj'.gen = 1 /\ obj'.status.syncedGen = 0
      BY <1>1 DEF UserCreates, Store, NoObject, EmptyStatus
  <2> QED
      BY <1>1, <2>1 DEF UserCreates, UserEdit, Store, StatusInv
<1>2. ASSUME NEW s \in Specs, UserEdits(s) PROVE StatusInv'
  <2>1. obj'.gen = obj.gen + 1 /\ obj'.status = obj.status
      BY <1>0, <1>2 DEF UserEdits, Store, Objects
  <2> QED
      BY <1>0, <1>2, <2>1 DEF UserEdits, UserEdit, Store, StatusInv
<1>3. ASSUME UserDeletes PROVE StatusInv'
  <2>1. \/ obj'.gen = obj.gen /\ obj'.status = obj.status
        \/ obj'.gen = 0 /\ obj'.status.syncedGen = 0
      BY <1>0, <1>3 DEF UserDeletes, Store, Objects, NoObject, EmptyStatus
  <2> QED
      BY <1>3, <2>1 DEF UserDeletes, UserEdit, Store, StatusInv
<1>4. ASSUME NEW r \in Resources, UserRemoves(r) PROVE StatusInv'
    BY <1>4 DEF UserRemoves, UserDrift, StatusInv
<1>5. ASSUME NEW r \in Resources, NEW v \in Values, UserWrites(r, v) PROVE StatusInv'
    BY <1>5 DEF UserWrites, UserDrift, StatusInv
<1>6. ASSUME CacheSync \/ TimerFires PROVE StatusInv'
    BY <1>6 DEF CacheSync, TimerFires, StatusInv
<1>7. ASSUME Crash PROVE StatusInv'
    BY <1>7, EndStatus DEF Crash
<1>8. ASSUME Fetch PROVE StatusInv'
  <2>1. CASE ~cache.exists \/ cache.spec.suspend
      BY <1>8, <2>1 DEF Fetch, StatusInv
  <2>2. CASE cache.exists /\ ~cache.spec.suspend
    <3>1. /\ work' = cache /\ workFresh' = cacheFresh /\ obj' = obj
          /\ pc' \notin Decided
        BY <1>8, <2>2 DEF Fetch, Goto, Decided
    <3>2. cacheFresh => cache = obj
        BY DEF GuardInv, FreshCopies
    <3> QED
        BY <3>1, <3>2 DEF StatusInv
  <2> QED
      BY <2>1, <2>2
<1>9. ASSUME NEW out \in Writes, AddFinalizer(out) PROVE StatusInv'
  <2>1. obj'.gen = obj.gen /\ obj'.status = obj.status
      BY <1>0, <1>9 DEF AddFinalizer, Objects
  <2> QED
      BY <1>9, <2>1 DEF AddFinalizer, EndPass, StatusInv, NormalPath, Decided
<1>10. ASSUME NEW out \in Reads, Prepare(out) PROVE StatusInv'
  <2>1. CASE out = "ok"
      BY <1>10, <2>1, QuietStatus, SelfSame
         DEF Prepare, Goto, Decided, NormalPath
  <2>2. CASE out # "ok"
    <3>1. /\ work' = [work EXCEPT !.status = SetReady(work.status, "False", work.gen)]
          /\ pc = "prepare" /\ UNCHANGED <<obj, workFresh>>
        BY <1>10, <2>2 DEF Prepare
    <3>2. work'.status = SetReady(work.status, "False", work.gen)
        BY <1>0, <3>1 DEF Objects
    <3> QED
        BY <1>0, <3>1, <3>2, QuietStatus, NewStatusSame, SetReadyFields
           DEF NormalPath
  <2> QED
      BY <2>1, <2>2
<1>11. ASSUME NEW out \in Reads, Connect(out) PROVE StatusInv'
  <2>1. CASE out = "ok"
    <3>1. /\ work'.status.syncedGen = work.status.syncedGen
          /\ work'.status.hash = work.status.hash
          /\ SameObject(work', work)
        BY <1>0, <1>11, <2>1 DEF Connect, Objects, Statuses, SameObject
    <3> QED
        BY <1>11, <2>1, <3>1, QuietStatus DEF Connect, Goto, Decided, NormalPath
  <2>2. CASE out # "ok"
    <3> DEFINE s == SetReady(work.status, "False", work.gen)
    <3>1. s \in Statuses
        BY <1>0, SetReadyType DEF Objects, Conditions
    <3>2. /\ s.readyGen = work.gen /\ s.syncedGen = work.status.syncedGen
          /\ s.hash = work.status.hash
        BY <1>0, SetReadyFields
    <3>3. /\ work' = [work EXCEPT !.status = [s EXCEPT !.connected = FALSE]]
          /\ pc = "connect" /\ UNCHANGED <<obj, workFresh>>
        BY <1>11, <2>2 DEF Connect
    <3> HIDE DEF s
    <3>4. work'.status = [s EXCEPT !.connected = FALSE] /\ SameObject(work', work)
        BY <1>0, <3>3, NewStatusSame DEF Objects
    <3>5. /\ work'.status.readyGen = work.gen
          /\ work'.status.syncedGen = work.status.syncedGen
          /\ work'.status.hash = work.status.hash
        BY <3>1, <3>2, <3>4 DEF Statuses
    <3> QED
        BY <3>3, <3>4, <3>5, QuietStatus DEF NormalPath
  <2> QED
      BY <2>1, <2>2
<1>12. ASSUME NEW c,
              work' = [work EXCEPT !.status = Finish(@, c)],
              UNCHANGED <<obj, workFresh>>, pc \in NormalPath
       PROVE  StatusInv'
  <2>1. work'.status = Finish(work.status, c) /\ SameObject(work', work)
      BY <1>0, <1>12, NewStatusSame DEF Objects
  <2>2. SyncedHere(work') /\ work'.status.readyGen = work.gen
      BY <1>0, <2>1, FinishFields DEF SyncedHere, SameObject
  <2> QED
      BY <1>12, <2>1, <2>2, QuietStatus
<1>13. ASSUME NEW blind, NEW lookup \in BOOLEAN, ReadCurrent(blind, lookup)
       PROVE  StatusInv'
  <2>1. CASE todo' = {}
      BY <1>12, <1>13, <2>1 DEF ReadCurrent, NormalPath
  <2>2. CASE todo' # {}
      BY <1>13, <2>2, QuietStatus, SelfSame
         DEF ReadCurrent, Goto, Decided, NormalPath
  <2> QED
      BY <2>1, <2>2
<1>14. ASSUME ReadFails PROVE StatusInv'
  <2>1. /\ work' = [work EXCEPT !.status = SetReady(work.status, "False", work.gen)]
        /\ pc = "read" /\ UNCHANGED <<obj, workFresh>>
      BY <1>14 DEF ReadFails
  <2>2. work'.status = SetReady(work.status, "False", work.gen)
      BY <1>0, <2>1 DEF Objects
  <2> QED
      BY <1>0, <2>1, <2>2, QuietStatus, NewStatusSame, SetReadyFields DEF NormalPath
<1>15. ASSUME ApplyTag PROVE StatusInv'
    BY <1>15, QuietStatus, SelfSame DEF ApplyTag, EnsureTag, Goto, Decided, NormalPath
<1>16. ASSUME NEW out \in Writes, ApplyTagFails(out) PROVE StatusInv'
    BY <1>16, QuietStatus, SelfSame
       DEF ApplyTagFails, EnsureTag, Goto, Decided, NormalPath
<1>17. ASSUME PanicRecovered PROVE StatusInv'
    BY <1>17, EndStatus DEF PanicRecovered
<1>18. ASSUME NEW o \in NextOps(todo), NEW out \in Writes,
              Apply(o, out) \/ DirectApply(o, out)
       PROVE  StatusInv'
    BY <1>18, QuietStatus, SelfSame DEF Apply, DirectApply, Decided, NormalPath
<1>19. ASSUME ApplyDone PROVE StatusInv'
    BY <1>12, <1>19 DEF ApplyDone, NormalPath
<1>20. ASSUME DirectSkip \/ DirectDone PROVE StatusInv'
    BY <1>20, QuietStatus, SelfSame DEF DirectSkip, DirectDone, Goto, Decided, NormalPath
<1>21. ASSUME NEW out \in Writes, DirectTag(out) PROVE StatusInv'
    BY <1>21, QuietStatus, SelfSame DEF DirectTag, EnsureTag, Goto, Decided, NormalPath
<1>22. ASSUME NEW out \in Reads, DirectRead(out) PROVE StatusInv'
    BY <1>22, QuietStatus, SelfSame DEF DirectRead, Goto, Decided, NormalPath
<1>23. ASSUME NEW out \in Writes, Register(out) PROVE StatusInv'
    BY <1>23, QuietStatus, SelfSame DEF Register, Goto, Decided, NormalPath
<1>24. ASSUME NEW out \in Writes, UpdateStatus(out) \/ UpdateErrorStatus(out)
       PROVE  StatusInv'
  <2>1. CASE workFresh /\ out # "lost"
    <3>1. obj' = [obj EXCEPT !.status = work.status] /\ pc \in NormalPath
        BY <1>24, <2>1 DEF UpdateStatus, UpdateErrorStatus, WriteStatus, NormalPath
    <3>2. obj'.status = work.status /\ obj'.gen = obj.gen /\ work.gen = obj.gen
        BY <1>0, <2>1, <3>1 DEF Objects, GuardInv, FreshCopies, SameObject
    <3>3. obj'.status.syncedGen <= obj'.gen
        BY <1>0, <2>1, <3>1, <3>2 DEF StatusInv, SyncedHere
    <3> QED
        BY <1>24, <3>3
           DEF UpdateStatus, UpdateErrorStatus, EndPass, StatusInv, NormalPath, Decided
  <2>2. CASE ~(workFresh /\ out # "lost")
      BY <1>24, <2>2, EndStatus DEF UpdateStatus, UpdateErrorStatus, WriteStatus
  <2> QED
      BY <2>1, <2>2
<1>25. ASSUME UNCHANGED <<obj, workFresh>>, pc' \in DeletePath PROVE StatusInv'
    BY <1>25 DEF StatusInv, NormalPath, DeletePath, Decided
<1>26. ASSUME NEW out \in Writes, Unregister(out) \/ CleanupTag(out) PROVE StatusInv'
    BY <1>25, <1>26 DEF Unregister, CleanupTag, EnsureTag, Goto, DeletePath
<1>27. ASSUME NEW out \in Reads, DeleteSecrets(out) PROVE StatusInv'
    BY <1>25, <1>27 DEF DeleteSecrets, Goto, DeletePath
<1>28. ASSUME NEW blind, NEW lookup \in BOOLEAN, CleanupRead(blind, lookup)
       PROVE  StatusInv'
    BY <1>25, <1>28 DEF CleanupRead, Goto, DeletePath
<1>29. ASSUME CleanupReadFails \/ CleanupDone PROVE StatusInv'
    BY <1>25, <1>29 DEF CleanupReadFails, CleanupDone, Goto, DeletePath
<1>30. ASSUME NEW o \in NextOps(todo), NEW out \in Writes, CleanupApply(o, out)
       PROVE  StatusInv'
    BY <1>25, <1>30 DEF CleanupApply, DeletePath
<1>31. ASSUME NEW out \in Writes, RemoveFinalizer(out) PROVE StatusInv'
  <2>1. \/ obj' = obj
        \/ obj'.gen = 0 /\ obj'.status.syncedGen = 0
      BY <1>31 DEF RemoveFinalizer, NoObject, EmptyStatus
  <2> QED
      BY <1>31, <2>1 DEF RemoveFinalizer, EndPass, StatusInv, NormalPath, Decided
<1>32. CASE UNCHANGED vars
    BY <1>32 DEF vars, StatusInv
<1> QED
    BY <1>1, <1>2, <1>3, <1>4, <1>5, <1>6, <1>7, <1>8, <1>9, <1>10, <1>11,
       <1>13, <1>14, <1>15, <1>16, <1>17, <1>18, <1>19, <1>20, <1>21, <1>22,
       <1>23, <1>24, <1>26, <1>27, <1>28, <1>29, <1>30, <1>31, <1>32
       DEF Next, User, Worker, NormalStep, DeleteStep

\* A pass that worked from an outdated copy never overwrites what is known
\* about a newer generation.
THEOREM StatusAboutStoredSpec == Spec => StatusIsAboutStoredSpec
<1>1. Init => StatusInv
    BY DEF Init, StatusInv, NoObject, EmptyStatus, NormalPath, Decided
<1>2. ASSUME GuardInv, StatusInv, [Next]_vars,
             obj.exists, obj'.exists, obj'.status # obj.status
      PROVE  /\ obj'.status.readyGen = obj'.gen
             /\ obj'.status.syncedGen >= obj.status.syncedGen
             /\ obj'.status.syncedGen # obj.status.syncedGen =>
                   /\ obj'.status.syncedGen = obj'.gen
                   /\ obj'.status.hash = obj'.spec.desired
  <2>0. obj \in Objects /\ obj.gen \in Nat /\ obj.status.syncedGen \in Nat
      BY <1>2 DEF GuardInv, Typed, Objects, Statuses
  <2> USE DEF kubeVars, workerVars, svcVars, bookVars
  <2>1. PICK out \in Writes : UpdateStatus(out) \/ UpdateErrorStatus(out)
    <3>1. obj' # obj
        BY <1>2
    <3>2. ASSUME NEW s \in Specs, UserCreates(s) \/ UserEdits(s) PROVE FALSE
        BY <1>2, <2>0, <3>2 DEF UserCreates, UserEdits, Store, Objects
    <3>3. ~UserDeletes
        BY <1>2, <2>0 DEF UserDeletes, Store, Objects, NoObject
    <3>4. ASSUME NEW out \in Writes, AddFinalizer(out) \/ RemoveFinalizer(out)
          PROVE  FALSE
        BY <1>2, <2>0, <3>4 DEF AddFinalizer, RemoveFinalizer, Objects, NoObject
    <3> QED
        BY <1>2, <3>1, <3>2, <3>3, <3>4
           DEF Next, User, Worker, NormalStep, DeleteStep, vars, UserRemoves,
               UserWrites, UserDrift, CacheSync, TimerFires, Crash, Fetch, Prepare,
               Connect, ReadCurrent, ReadFails, ApplyTag, ApplyTagFails,
               PanicRecovered, Apply, ApplyDone, DirectSkip, DirectTag, DirectRead,
               DirectApply, DirectDone, Register, Unregister, DeleteSecrets,
               CleanupRead, CleanupReadFails, CleanupTag, CleanupApply, CleanupDone
  <2>2. workFresh /\ obj' = [obj EXCEPT !.status = work.status] /\ pc \in Decided
        /\ pc \in NormalPath
      BY <1>2, <2>1
         DEF UpdateStatus, UpdateErrorStatus, WriteStatus, Decided, NormalPath
  <2>3. /\ obj'.status = work.status /\ obj'.gen = obj.gen /\ obj'.spec = obj.spec
        /\ work.gen = obj.gen /\ work.spec = obj.spec
      BY <1>2, <2>0, <2>2 DEF Objects, GuardInv, FreshCopies, SameObject
  <2> QED
      BY <1>2, <2>0, <2>2, <2>3 DEF StatusInv, SyncedHere
<1>3. GuardInv /\ StatusInv /\ [Next]_vars =>
        [obj.exists /\ obj'.exists /\ obj'.status # obj.status =>
           /\ obj'.status.readyGen = obj'.gen
           /\ obj'.status.syncedGen >= obj.status.syncedGen
           /\ obj'.status.syncedGen # obj.status.syncedGen =>
                 /\ obj'.status.syncedGen = obj'.gen
                 /\ obj'.status.hash = obj'.spec.desired]_vars
    BY <1>2
<1> QED
    BY <1>1, <1>3, GuardInvariant, StatusStep, PTL DEF Spec, StatusIsAboutStoredSpec

(***************************************************************************)
(* Proofs about ArrReconcile and who owns what in the service: the         *)
(* operator leaves unowned resources alone, and a clean deletion leaves    *)
(* nothing behind.                                                         *)
(***************************************************************************)

(***************************************************************************)
(* What a plan looks like.                                                 *)
(***************************************************************************)

\* The one thing Diff can plan for a resource: take away what is not desired,
\* update what it saw (and the naming settings, which are always there), and
\* create the rest.
Intended(current, d, r) ==
    IF d[r] = NoValue THEN "delete"
    ELSE IF r.kind = "NamingConfig" \/ current[r].has THEN "update" ELSE "create"

Planning(o, current, d) ==
    /\ o.res \in Resources /\ o.res.kind \notin DirectKinds
    /\ o.payload = d[o.res]
    /\ o.op = Intended(current, d, o.res)
    /\ o.res.kind \in TagFilteredKinds \cup DeletableKinds /\ o.op # "create" =>
          current[o.res].has

\* Two lists matched by name give such a plan.
LEMMA DiffByNamePlans ==
    ASSUME NEW kind, kind \notin DirectKinds \cup {"NamingConfig"},
           NEW current, NEW d, NEW equal, NEW o \in DiffByName(kind, current, d, equal)
    PROVE  o.res.kind = kind /\ Planning(o, current, d)
<1>1. PICK op \in {"create", "update", "delete"}, r \in OfKind(kind) :
         /\ o = [op |-> op, res |-> r, payload |-> d[r]]
         /\ \/ op = "create" /\ d[r] # NoValue /\ ~current[r].has
            \/ op = "update" /\ d[r] # NoValue /\ current[r].has
            \/ op = "delete" /\ d[r] = NoValue /\ current[r].has
    BY DEF DiffByName, Changes, Wanted, Seen, OfKind
<1>2. r \in Resources /\ r.kind = kind
    BY DEF OfKind
<1> QED
    BY <1>1, <1>2 DEF Planning, Intended

\* So does Diff as a whole.
LEMMA DiffPlans ==
    ASSUME NEW current, NEW d, NEW o \in Diff(current, d)
    PROVE  Planning(o, current, d)
<1>1. CASE o \in DiffVideoQualityProfiles(current, d)
  <2>1. PICK r \in OfKind("QualityProfile") :
           /\ o = [op |-> "create", res |-> r, payload |-> d[r]]
           /\ d[r] # NoValue /\ ~current[r].has
      BY <1>1 DEF DiffVideoQualityProfiles, Changes, Wanted, Seen, OfKind
  <2>2. r \in Resources /\ r.kind = "QualityProfile"
      BY DEF OfKind
  <2> QED
      BY <2>1, <2>2 DEF Planning, Intended, DirectKinds
<1>2. CASE o \in diffRootFolders(current, d)
  <2>1. PICK r \in OfKind("RootFolder") :
           /\ o = [op |-> "create", res |-> r, payload |-> d[r]]
           /\ d[r] # NoValue /\ ~current[r].has
      BY <1>2 DEF diffRootFolders, Changes, Wanted, Seen, OfKind
  <2>2. r \in Resources /\ r.kind = "RootFolder"
      BY DEF OfKind
  <2> QED
      BY <2>1, <2>2 DEF Planning, Intended, DirectKinds
<1>3. CASE o \in diffNaming(current, d)
  <2>1. PICK r \in OfKind("NamingConfig") :
           o = [op |-> "update", res |-> r, payload |-> d[r]] /\ d[r] # NoValue
      BY <1>3 DEF diffNaming, Changes, Wanted, OfKind
  <2>2. r \in Resources /\ r.kind = "NamingConfig"
      BY DEF OfKind
  <2> QED
      BY <2>1, <2>2
         DEF Planning, Intended, DirectKinds, TagFilteredKinds, DeletableKinds
<1>4. CASE o \in DiffCustomFormats(current, d)
    BY <1>4, DiffByNamePlans DEF DiffCustomFormats, DirectKinds
<1>5. CASE o \in diffDownloadClients(current, d)
    BY <1>5, DiffByNamePlans DEF diffDownloadClients, DirectKinds
<1>6. CASE o \in diffIndexers(current, d)
    BY <1>6, DiffByNamePlans DEF diffIndexers, DirectKinds
<1>7. CASE o \in diffRemotePathMappings(current, d)
    BY <1>7, DiffByNamePlans DEF diffRemotePathMappings, DirectKinds
<1>8. CASE o \in diffNotifications(current, d)
    BY <1>8, DiffByNamePlans DEF diffNotifications, DirectKinds
<1>9. CASE o \in diffDelayProfiles(current, d)
    BY <1>9, DiffByNamePlans DEF diffDelayProfiles, DirectKinds
<1> QED
    BY <1>1, <1>2, <1>3, <1>4, <1>5, <1>6, <1>7, <1>8, <1>9 DEF Diff

\* No resource is planned for twice.
LEMMA DiffPlansOnce ==
    ASSUME NEW current, NEW d \in Desired, NEW o \in Diff(current, d),
           NEW p \in Diff(current, d), o.res = p.res
    PROVE  o = p
<1>1. o \in Ops /\ p \in Ops
    BY DiffType
<1>2. o.op = p.op /\ o.payload = p.payload
    BY DiffPlans DEF Planning
<1> QED
    BY <1>1, <1>2 DEF Ops

\* The direct apply plans for other kinds, and not twice either.
LEMMA ApplyDirectPlans ==
    ASSUME NEW s, NEW d \in Desired, NEW o \in ApplyDirect(s, d)
    PROVE  /\ o.res.kind \in DirectKinds
           /\ o.payload = d[o.res]
           /\ o.op = IF d[o.res] = NoValue THEN "delete"
                     ELSE IF o.res.kind = "ImportList" /\ ~s[o.res].has
                     THEN "create" ELSE "update"
<1>1. CASE o \in applyImportLists(s, d)
  <2>1. PICK op \in {"create", "update", "delete"}, r \in OfKind("ImportList") :
           /\ o = [op |-> op, res |-> r, payload |-> d[r]]
           /\ \/ op = "create" /\ d[r] # NoValue /\ ~s[r].has
              \/ op = "update" /\ d[r] # NoValue /\ s[r].has
              \/ op = "delete" /\ d[r] = NoValue
      BY <1>1 DEF applyImportLists, Changes, Wanted, Existing, Tagged, OfKind
  <2>2. r.kind = "ImportList"
      BY DEF OfKind
  <2> QED
      BY <2>1, <2>2 DEF DirectKinds
<1>2. ASSUME NEW kind \in {"MediaManagement", "Authentication"},
             o \in Changes("update", Wanted(kind, d), d)
      PROVE  /\ o.res.kind = kind /\ d[o.res] # NoValue
             /\ o.op = "update" /\ o.payload = d[o.res]
    BY <1>2 DEF Changes, Wanted, OfKind
<1> QED
    BY <1>1, <1>2 DEF ApplyDirect, DirectKinds

\* ApplyDirect plans at most one call for a resource, so a call that is done
\* leaves none for the same resource behind.
LEMMA ApplyDirectPlansOnce ==
    ASSUME NEW s, NEW d \in Desired, NEW o \in ApplyDirect(s, d),
           NEW p \in ApplyDirect(s, d), o.res = p.res
    PROVE  o = p
<1>1. o \in Ops /\ p \in Ops
    BY ApplyDirectType
<1>2. o.op = p.op /\ o.payload = p.payload
    BY ApplyDirectPlans
<1> QED
    BY <1>1, <1>2 DEF Ops

(***************************************************************************)
(* The operator's plan and what it is based on.  A change that is not a    *)
(* creation was planned for a resource that carried the tag, and the       *)
(* resource still does unless the user took it away in the meantime; and   *)
(* no resource is planned for twice, so that working off one change says   *)
(* nothing about another.  Nothing is the operator's before the tag        *)
(* exists, so a lookup that finds no tag misses nothing.                   *)
(***************************************************************************)
PlanInv ==
    /\ pc = "idle" => todo = {} /\ \A r \in Resources : since[r] = "same"
    /\ \A o, p \in todo : o.res = p.res => o = p
    /\ \A o \in todo :
          o.op # "create" /\ o.res.kind \in TagFilteredKinds =>
             /\ since[o.res] # "unseen"
             /\ since[o.res] # "replaced" => svc[o.res].has /\ svc[o.res].ours

TagPlaces == {"apply", "directRead", "directApply", "delApply"}

TagInv ==
    /\ \A r \in Resources : svc[r].ours => svc[r].has /\ tagExists
    /\ pc \in TagPlaces => tagExists

OwnInv == Typed /\ PlanInv /\ TagInv

\* A worker step that neither plans nor carries out anything.
Quiet ==
    /\ UNCHANGED <<todo, since, svc>>
    /\ pc' # "idle"
    /\ tagExists => tagExists'
    /\ pc' \in TagPlaces => tagExists' \/ pc \in TagPlaces

\* What a step can do to plan, view and service.
LEMMA StepShapes ==
    ASSUME Typed, [Next]_vars
    PROVE  \/ UNCHANGED <<pc, todo, since, svc, tagExists>>
           \/ Quiet
           \/ EndPass /\ UNCHANGED <<svc, tagExists>>
           \/ \E r \in Resources : UserRemoves(r) \/ \E v \in Values : UserWrites(r, v)
           \/ \E blind \in Blindings, lookup \in BOOLEAN :
                 ReadCurrent(blind, lookup) \/ CleanupRead(blind, lookup)
           \/ \E out \in Reads : DirectRead(out)
           \/ \E o \in NextOps(todo), out \in Writes :
                 Apply(o, out) \/ DirectApply(o, out) \/ CleanupApply(o, out)
<1> USE DEF kubeVars, workerVars, svcVars, bookVars
<1>1. ASSUME NEW s \in Specs, UserCreates(s) \/ UserEdits(s)
      PROVE  UNCHANGED <<pc, todo, since, svc, tagExists>>
    BY <1>1 DEF UserCreates, UserEdits, UserEdit
<1>2. UserDeletes \/ CacheSync \/ TimerFires \/ UNCHANGED vars
         => UNCHANGED <<pc, todo, since, svc, tagExists>>
    BY DEF UserDeletes, UserEdit, CacheSync, TimerFires, vars
<1>3. Crash \/ PanicRecovered => EndPass /\ UNCHANGED <<svc, tagExists>>
    BY DEF Crash, PanicRecovered
<1>4. ASSUME NEW out \in Writes,
             \/ AddFinalizer(out) \/ UpdateStatus(out) \/ UpdateErrorStatus(out)
             \/ RemoveFinalizer(out)
      PROVE  EndPass /\ UNCHANGED <<svc, tagExists>>
    BY <1>4 DEF AddFinalizer, UpdateStatus, UpdateErrorStatus, RemoveFinalizer
<1>5. Fetch => Quiet \/ UNCHANGED <<pc, todo, since, svc, tagExists>>
    BY DEF Fetch, Goto, Quiet, TagPlaces
<1>6. ASSUME NEW out \in Reads, Prepare(out) \/ Connect(out) \/ DeleteSecrets(out)
      PROVE  Quiet
    BY <1>6 DEF Prepare, Connect, DeleteSecrets, Goto, Quiet, TagPlaces
<1>7. ReadFails \/ ApplyDone \/ DirectSkip \/ DirectDone \/ CleanupReadFails
         \/ CleanupDone => Quiet
    BY DEF ReadFails, ApplyDone, DirectSkip, DirectDone, CleanupReadFails,
           CleanupDone, Goto, Quiet, TagPlaces
<1>8. ApplyTag => Quiet
    BY DEF ApplyTag, EnsureTag, Goto, Quiet, Typed
<1>9. ASSUME NEW out \in Writes,
             ApplyTagFails(out) \/ DirectTag(out) \/ CleanupTag(out)
      PROVE  Quiet
    BY <1>9 DEF ApplyTagFails, DirectTag, CleanupTag, EnsureTag, Goto, Quiet,
                Typed, TagPlaces
<1>10. ASSUME NEW out \in Writes, Register(out) \/ Unregister(out)
       PROVE  Quiet
    BY <1>10 DEF Register, Unregister, Goto, Quiet, TagPlaces
<1> QED
    BY <1>1, <1>2, <1>3, <1>4, <1>5, <1>6, <1>7, <1>8, <1>9, <1>10
       DEF Next, User, Worker, NormalStep, DeleteStep

\* Carrying out a change touches no other resource.
LEMMA EffectElsewhere ==
    ASSUME NEW s \in [Resources -> Entries], NEW o \in Ops,
           NEW r \in Resources, r # o.res
    PROVE  Effect(s, o)[r] = s[r]
BY DEF Effect, Ops

\* What the operator holds after a change, it holds in an existing resource.
LEMMA EffectHeld ==
    ASSUME NEW s \in [Resources -> Entries], NEW o \in Ops, Effect(s, o)[o.res].ours
    PROVE  Effect(s, o)[o.res].has
<1>1. o.res \in Resources /\ o.op \in {"create", "update", "delete"}
    BY DEF Ops
<1>2. \/ Effect(s, o)[o.res] = applyCreate(o)
      \/ Effect(s, o)[o.res] = applyUpdate(o, s[o.res])
      \/ Effect(s, o)[o.res] = Gone
    BY <1>1 DEF Effect
<1> QED
    BY <1>2 DEF applyCreate, applyUpdate, Gone

\* What Diff bases a change of a tag-filtered kind on is there, and tagged.
LEMMA SeenIsTagged ==
    ASSUME NEW s \in [Resources -> Entries], NEW tag, NEW blind, NEW r \in Resources,
           r.kind \in TagFilteredKinds, CurrentState(s, tag, blind)[r].has
    PROVE  tag /\ r.kind \notin blind /\ s[r].has /\ s[r].ours
<1>1. tag /\ r.kind \notin blind /\ r \in Listed(s)
    BY DEF CurrentState, Gone
<1>2. r \in Tagged(s, r.kind)
    BY <1>1 DEF Listed, TagFilteredKinds, getManagedDownloadClients, getManagedIndexers,
           getManagedNotifications, getManagedQualityProfiles,
           getManagedCustomFormats, getRootFolders, getRemotePathMappings,
           getNamingConfig, getManagedDelayProfiles, Tagged, Existing, OfKind
<1> QED
    BY <1>1, <1>2 DEF Tagged, Existing

\* OwnInv is inductive: what a read of the service plans.
LEMMA ReadPlans ==
    ASSUME OwnInv, NEW blind, NEW lookup \in BOOLEAN, NEW d \in Desired,
           ReadService(blind, lookup, d), UNCHANGED svc, pc' # "idle"
    PROVE  PlanInv'
<1> DEFINE current == CurrentState(svc, tagExists /\ lookup, blind)
<1>1. todo' = Diff(current, d)
    BY DEF ReadService
<1>2. \A o, p \in todo' : o.res = p.res => o = p
    BY <1>1, DiffPlansOnce
<1>3. ASSUME NEW o \in todo', o.op # "create", o.res.kind \in TagFilteredKinds
      PROVE  since'[o.res] = "same" /\ svc'[o.res].has /\ svc'[o.res].ours
  <2>1. o.res \in Resources /\ current[o.res].has
      BY <1>1, <1>3, DiffPlans DEF Planning
  <2>2. lookup /\ o.res.kind \notin blind /\ svc[o.res].has /\ svc[o.res].ours
      BY <1>3, <2>1, SeenIsTagged DEF OwnInv, Typed
  <2> QED
      BY <2>1, <2>2 DEF ReadService
<1> QED
    BY <1>2, <1>3 DEF PlanInv

\* OwnInv is inductive: carrying out one change of the plan.
LEMMA ApplyKeepsPlan ==
    ASSUME OwnInv, NEW o \in NextOps(todo), NEW out, ApplyOne(o, out),
           UNCHANGED <<pc, since, tagExists>>, pc \in TagPlaces
    PROVE  PlanInv' /\ TagInv'
<1>1. /\ o \in todo /\ o \in Ops /\ todo \subseteq Ops /\ o.res \in Resources
      /\ svc \in [Resources -> Entries]
    BY DEF NextOps, OwnInv, Typed, Ops
<1>2. /\ todo' = todo \ {o}
      /\ svc' = svc \/ svc' = Effect(svc, o)
    BY DEF ApplyOne
<1>3. \A r \in Resources : r # o.res => svc'[r] = svc[r]
    BY <1>1, <1>2, EffectElsewhere
<1>4. \A p \in todo' : p.res # o.res /\ p.res \in Resources
    BY <1>1, <1>2 DEF OwnInv, PlanInv, Ops
<1>5. PlanInv'
    BY <1>2, <1>3, <1>4 DEF OwnInv, PlanInv, TagPlaces
<1>6. svc'[o.res].ours => svc'[o.res].has
    BY <1>1, <1>2, EffectHeld DEF OwnInv, TagInv
<1>7. TagInv'
    BY <1>3, <1>6 DEF OwnInv, TagInv
<1> QED
    BY <1>5, <1>7

\* OwnInv is inductive.
LEMMA OwnStep == OwnInv /\ [Next]_vars => OwnInv'
<1> SUFFICES ASSUME OwnInv, [Next]_vars PROVE OwnInv'
    OBVIOUS
<1>0. Typed /\ Typed' /\ svc \in [Resources -> Entries]
         /\ since \in [Resources -> {"same", "edited", "replaced", "unseen"}]
    BY NextType DEF OwnInv, Typed
<1> USE DEF kubeVars, workerVars, svcVars, bookVars
<1>1. CASE UNCHANGED <<pc, todo, since, svc, tagExists>>
    BY <1>0, <1>1 DEF OwnInv, PlanInv, TagInv
<1>2. CASE Quiet
    BY <1>0, <1>2 DEF Quiet, OwnInv, PlanInv, TagInv
<1>3. CASE EndPass /\ UNCHANGED <<svc, tagExists>>
    BY <1>0, <1>3 DEF EndPass, OwnInv, PlanInv, TagInv, TagPlaces
<1>4. ASSUME NEW r \in Resources, UserRemoves(r) PROVE OwnInv'
  <2>1. /\ svc' = [svc EXCEPT ![r] = Gone] /\ UNCHANGED <<pc, todo, tagExists>>
        /\ since' = IF pc = "idle" \/ since[r] = "unseen"
                    THEN since ELSE [since EXCEPT ![r] = "replaced"]
      BY <1>4 DEF UserRemoves, UserDrift
  <2>2. todo \subseteq Ops
      BY <1>0 DEF Typed
  <2>3. PlanInv'
      BY <1>0, <2>1, <2>2 DEF OwnInv, PlanInv, Ops
  <2>4. TagInv'
      BY <1>0, <2>1 DEF OwnInv, TagInv, Gone
  <2> QED
      BY <1>0, <2>3, <2>4 DEF OwnInv
<1>5. ASSUME NEW r \in Resources, NEW v \in Values, UserWrites(r, v) PROVE OwnInv'
  <2>1. /\ svc' = [svc EXCEPT ![r] = [has |-> TRUE, val |-> v, ours |-> svc[r].ours]]
        /\ UNCHANGED <<pc, todo, tagExists>>
        /\ since' = IF pc = "idle" \/ since[r] \in {"replaced", "unseen"}
                    THEN since ELSE [since EXCEPT ![r] = "edited"]
      BY <1>0, <1>5 DEF UserWrites, UserDrift
  <2>2. \A q \in Resources :
           /\ svc'[q].ours = svc[q].ours
           /\ svc[q].has => svc'[q].has
           /\ svc'[q].has \/ svc'[q] = svc[q]
      BY <1>0, <2>1
  <2>3. todo \subseteq Ops
      BY <1>0 DEF Typed
  <2>4. PlanInv'
      BY <1>0, <2>1, <2>2, <2>3 DEF OwnInv, PlanInv, Ops
  <2>5. TagInv'
      BY <1>0, <2>1, <2>2 DEF OwnInv, TagInv
  <2> QED
      BY <1>0, <2>4, <2>5 DEF OwnInv
<1>6. ASSUME NEW blind \in Blindings, NEW lookup \in BOOLEAN,
             ReadCurrent(blind, lookup) \/ CleanupRead(blind, lookup)
      PROVE  OwnInv'
  <2>1. /\ UNCHANGED <<svc, tagExists>> /\ pc' # "idle" /\ pc' \notin TagPlaces
        /\ \E d \in Desired : ReadService(blind, lookup, d)
    <3>1. Nothing \in Desired /\ work.spec.desired \in Desired
        BY <1>0, DesiredType DEF Nothing, Desired, Typed
    <3> QED
        BY <1>6, <3>1 DEF ReadCurrent, CleanupRead, Goto, TagPlaces
  <2>2. PlanInv'
      BY <2>1, ReadPlans
  <2>3. TagInv'
      BY <2>1 DEF OwnInv, TagInv
  <2> QED
      BY <1>0, <2>2, <2>3 DEF OwnInv
<1>7. ASSUME NEW out \in Reads, DirectRead(out) PROVE OwnInv'
  <2>1. /\ UNCHANGED <<svc, tagExists>>
        /\ pc = "directRead" /\ pc' = "directApply"
        /\ todo' \subseteq ApplyDirect(svc, work.spec.desired)
      BY <1>7 DEF DirectRead, Goto
  <2>2. work.spec.desired \in Desired
      BY <1>0, DesiredType DEF Typed
  <2>3. /\ \A o, p \in todo' : o.res = p.res => o = p
        /\ \A o \in todo' : o.res.kind \notin TagFilteredKinds
      BY <2>1, <2>2, ApplyDirectPlans, ApplyDirectPlansOnce
         DEF DirectKinds, TagFilteredKinds
  <2> QED
      BY <1>0, <2>1, <2>3 DEF OwnInv, PlanInv, TagInv, TagPlaces
<1>8. ASSUME NEW o \in NextOps(todo), NEW out \in Writes,
             Apply(o, out) \/ DirectApply(o, out) \/ CleanupApply(o, out)
      PROVE  OwnInv'
    BY <1>0, <1>8, ApplyKeepsPlan DEF Apply, DirectApply, CleanupApply, OwnInv, TagPlaces
<1> QED
    BY <1>0, <1>1, <1>2, <1>3, <1>4, <1>5, <1>6, <1>7, <1>8, StepShapes

\* Initially there is no plan, and nothing is the operator's.
LEMMA OwnInit == Init => OwnInv
<1> SUFFICES ASSUME Init PROVE OwnInv
    OBVIOUS
<1>1. \A r \in Resources : ~svc[r].ours
  <2> PICK v \in [Resources -> Values] : svc = FreshService(v)
      BY DEF Init
  <2> QED
      BY DEF FreshService, Gone
<1>2. PlanInv /\ TagInv
    BY <1>1 DEF Init, PlanInv, TagInv, TagPlaces
<1> QED
    BY <1>2, InitType DEF OwnInv

\* OwnInv holds throughout.
THEOREM OwnInvariant == Spec => []OwnInv
BY OwnInit, OwnStep, PTL DEF Spec

\* No step of the operator alters or removes a resource of a tag-filtered kind
\* that is not its own, except in the place of a tagged one that the user took
\* away after CurrentState had looked, and only for kinds found by name.
THEOREM UnownedStay == Spec => UnownedUntouched
<1>1. ASSUME OwnInv, [Next]_vars, NEW r \in Resources, r.kind \in TagFilteredKinds,
             svc[r].has, ~svc[r].ours, svc'[r] # svc[r], drifts' = drifts
      PROVE  since[r] = "replaced" /\ r.kind \notin ByIdKinds
  <2> USE DEF kubeVars, workerVars, svcVars, bookVars
  <2>0. Typed /\ svc \in [Resources -> Entries] /\ drifts \in Nat
      BY <1>1, BoundsAssumption DEF OwnInv, Typed
  <2>1. PICK o \in NextOps(todo), out \in Writes : ApplyOne(o, out)
    <3>1. svc' # svc
        BY <1>1
    <3>2. \A q \in Resources : ~UserRemoves(q) /\ \A v \in Values : ~UserWrites(q, v)
        BY <1>1, <2>0 DEF UserRemoves, UserWrites, UserDrift
    <3> QED
        BY <1>1, <2>0, <3>1, <3>2, StepShapes
           DEF Quiet, ReadCurrent, CleanupRead, DirectRead, Apply, DirectApply,
               CleanupApply
  <2>2. o \in todo /\ o \in Ops
      BY <2>0 DEF NextOps, Typed
  <2>3. o.res = r /\ Accepted(svc, o, since[o.res] = "replaced")
      BY <1>1, <2>0, <2>1, <2>2, EffectElsewhere DEF ApplyOne
  <2>4. o.op # "create"
      BY <1>1, <2>3 DEF Accepted
  <2>5. since[r] = "replaced"
      BY <1>1, <2>2, <2>3, <2>4 DEF OwnInv, PlanInv
  <2> QED
      BY <2>3, <2>4, <2>5 DEF Accepted, Reached
<1>2. OwnInv /\ [Next]_vars =>
        [\A r \in Resources :
           /\ r.kind \in TagFilteredKinds
           /\ svc[r].has /\ ~svc[r].ours
           /\ svc'[r] # svc[r]
           /\ drifts' = drifts
           => since[r] = "replaced" /\ r.kind \notin ByIdKinds]_vars
    BY <1>1
<1> QED
    BY <1>2, OwnInvariant, PTL DEF Spec, UnownedUntouched

(***************************************************************************)
(* The cleanup of a deletion.  From the read on, what is still the         *)
(* operator's is on the list of deletions, unless some call of the pass    *)
(* failed; once the pass reaches the finalizer the list is empty.          *)
(***************************************************************************)
Removable(r) == r.kind \in DeletableKinds /\ ~DefaultDelayProfile(r)

Planned(r) == \E o \in todo : o.op = "delete" /\ o.res = r

AllPlanned ==
    \A r \in Resources : Removable(r) /\ svc[r].has /\ svc[r].ours => Planned(r)

\* What the user took away is nobody's, even if another one took its name.
ReplacedNotOurs == \A r \in Resources : since[r] = "replaced" => ~svc[r].ours

CleanupInv ==
    /\ pc \in {"delTag", "delApply"} => \A o \in todo : o.op = "delete"
    /\ pc \in DeletePath => ReplacedNotOurs
    /\ pc \in {"delTag", "delApply", "removeFinalizer"} /\ ~passFault => AllPlanned
    /\ pc \in DeletePath \ {"unregister"} /\ ~passFault /\ work.spec.ref => ~app
    /\ pc = "removeFinalizer" /\ ~passFault => todo = {}

\* A diff against nothing deletes every removable resource that it is shown.
LEMMA DiffAgainstNothing ==
    ASSUME NEW current, NEW r \in Resources, Removable(r), current[r].has
    PROVE  \E o \in Diff(current, Nothing) : o.op = "delete" /\ o.res = r
<1> DEFINE o == [op |-> "delete", res |-> r, payload |-> Nothing[r]]
<1>1. \A equal : o \in DiffByName(r.kind, current, Nothing, equal)
    BY DEF DiffByName, Changes, Wanted, Seen, OfKind, Nothing
<1>2. o.op = "delete" /\ o.res = r
    OBVIOUS
<1> HIDE DEF o
<1>3. CASE r.kind = "DelayProfile"
  <2>1. o \in diffDelayProfiles(current, Nothing)
      BY <1>1, <1>2, <1>3 DEF diffDelayProfiles, Removable
  <2> QED
      BY <1>2, <2>1 DEF Diff
<1>4. CASE r.kind \in DeletableKinds \ {"DelayProfile"}
  <2>1. \/ o \in DiffCustomFormats(current, Nothing)
        \/ o \in diffDownloadClients(current, Nothing)
        \/ o \in diffIndexers(current, Nothing)
        \/ o \in diffRemotePathMappings(current, Nothing)
        \/ o \in diffNotifications(current, Nothing)
      BY <1>1, <1>4
         DEF DeletableKinds, DiffCustomFormats, diffDownloadClients, diffIndexers,
             diffRemotePathMappings, diffNotifications
  <2> QED
      BY <1>2, <2>1 DEF Diff
<1> QED
    BY <1>3, <1>4 DEF Removable

\* A read in which nothing failed shows every removable resource of the
\* operator's.
LEMMA OursIsSeen ==
    ASSUME NEW s \in [Resources -> Entries], NEW r \in Resources,
           Removable(r), s[r].has, s[r].ours
    PROVE  CurrentState(s, TRUE, {})[r].has
<1>1. r \in Existing(s, r.kind) /\ r \in Tagged(s, r.kind)
    BY DEF Existing, Tagged, OfKind
<1>2. r \in Listed(s)
    BY <1>1
       DEF Removable, DeletableKinds, Listed, getManagedDownloadClients,
           getManagedIndexers, getManagedNotifications, getManagedCustomFormats,
           getRemotePathMappings, getManagedDelayProfiles
<1> QED
    BY <1>2 DEF CurrentState

\* The read of a cleanup plans deletions only, and plans all that are needed.
LEMMA CleanupPlans ==
    ASSUME OwnInv, NEW blind, NEW lookup \in BOOLEAN,
           ReadService(blind, lookup, Nothing), UNCHANGED svc
    PROVE  /\ \A o \in todo' : o.op = "delete"
           /\ ReplacedNotOurs'
           /\ ~passFault' => AllPlanned'
<1>1. \A o \in todo' : o.op = "delete"
    BY DiffPlans DEF ReadService, Planning, Intended, Nothing
<1>2. ReplacedNotOurs'
    BY DEF ReadService, ReplacedNotOurs
<1>3. ASSUME ~passFault', NEW r \in Resources, Removable(r), svc[r].has, svc[r].ours
      PROVE  \E o \in todo' : o.op = "delete" /\ o.res = r
  <2>1. blind = {} /\ lookup = TRUE
      BY <1>3 DEF ReadService
  <2>2. tagExists = TRUE /\ svc \in [Resources -> Entries]
      BY <1>3 DEF OwnInv, Typed, TagInv
  <2>3. todo' = Diff(CurrentState(svc, TRUE, {}), Nothing)
    <3>1. (tagExists /\ lookup) = TRUE
        BY <2>1, <2>2
    <3> QED
        BY <2>1, <3>1 DEF ReadService
  <2> QED
      BY <1>3, <2>2, <2>3, OursIsSeen, DiffAgainstNothing
<1>4. ~passFault' => AllPlanned'
    BY <1>3 DEF AllPlanned, Planned
<1> QED
    BY <1>1, <1>2, <1>4

\* Carrying out one deletion of the cleanup leaves the rest planned.
LEMMA CleanupKeepsPlan ==
    ASSUME OwnInv, ReplacedNotOurs, \A p \in todo : p.op = "delete",
           NEW o \in NextOps(todo), NEW out, ApplyOne(o, out), UNCHANGED since
    PROVE  /\ \A p \in todo' : p.op = "delete"
           /\ ReplacedNotOurs'
           /\ (~passFault => AllPlanned) => (~passFault' => AllPlanned')
<1>1. /\ o \in todo /\ o \in Ops /\ o.op = "delete" /\ o.res \in Resources
      /\ svc \in [Resources -> Entries]
      /\ todo' = todo \ {o}
      /\ svc' = svc \/ svc' = Effect(svc, o)
    BY DEF NextOps, OwnInv, Typed, Ops, ApplyOne
<1>2. \A r \in Resources : r # o.res => svc'[r] = svc[r]
    BY <1>1, EffectElsewhere
<1>3. Effect(svc, o)[o.res] = Gone
    BY <1>1 DEF Effect
<1>4. ReplacedNotOurs'
    BY <1>1, <1>2, <1>3 DEF ReplacedNotOurs, Gone
<1>5. ASSUME ~passFault'
      PROVE  ~passFault /\ ~(svc'[o.res].has /\ svc'[o.res].ours)
  <2>1. ~passFault /\ out = "ok"
      BY <1>5 DEF ApplyOne, Noted
  <2>2. CASE Accepted(svc, o, since[o.res] = "replaced")
      BY <1>3, <2>1, <2>2 DEF ApplyOne, Gone
  <2>3. CASE ~Accepted(svc, o, since[o.res] = "replaced")
    <3>1. svc' = svc
        BY <2>3 DEF ApplyOne
    <3>2. ~svc[o.res].has \/ since[o.res] = "replaced"
        BY <1>1, <2>3 DEF Accepted, Reached
    <3> QED
        BY <1>1, <2>1, <3>1, <3>2 DEF ReplacedNotOurs
  <2> QED
      BY <2>1, <2>2, <2>3
<1>6. ASSUME ~passFault', AllPlanned PROVE AllPlanned'
    BY <1>1, <1>2, <1>5, <1>6 DEF AllPlanned, Planned
<1> QED
    BY <1>1, <1>4, <1>5, <1>6

\* CleanupInv is inductive relative to OwnInv.
LEMMA CleanupStep == OwnInv /\ CleanupInv /\ [Next]_vars => CleanupInv'
<1> SUFFICES ASSUME OwnInv, CleanupInv, [Next]_vars PROVE CleanupInv'
    OBVIOUS
<1>0. /\ Typed /\ svc \in [Resources -> Entries]
      /\ since \in [Resources -> {"same", "edited", "replaced", "unseen"}]
    BY DEF OwnInv, Typed
<1> USE DEF kubeVars, workerVars, svcVars, bookVars
<1>1. ASSUME pc' \notin DeletePath PROVE CleanupInv'
    BY <1>1 DEF CleanupInv, DeletePath
<1>2. ASSUME UNCHANGED <<pc, todo, since, svc, passFault, work, app>> PROVE CleanupInv'
    BY <1>2 DEF CleanupInv, AllPlanned, ReplacedNotOurs, Planned
<1>3. ASSUME NEW s \in Specs, UserCreates(s) \/ UserEdits(s) PROVE CleanupInv'
    BY <1>2, <1>3 DEF UserCreates, UserEdits, UserEdit
<1>4. ASSUME UserDeletes \/ CacheSync \/ TimerFires \/ UNCHANGED vars
      PROVE  CleanupInv'
    BY <1>2, <1>4 DEF UserDeletes, UserEdit, CacheSync, TimerFires, vars
<1>5. ASSUME NEW r \in Resources, UserRemoves(r) PROVE CleanupInv'
  <2>1. /\ svc' = [svc EXCEPT ![r] = Gone]
        /\ UNCHANGED <<pc, todo, passFault, work, app>>
        /\ since' = IF pc = "idle" \/ since[r] = "unseen"
                    THEN since ELSE [since EXCEPT ![r] = "replaced"]
      BY <1>5 DEF UserRemoves, UserDrift
  <2>2. /\ ReplacedNotOurs => ReplacedNotOurs'
        /\ AllPlanned => AllPlanned'
      BY <1>0, <2>1 DEF ReplacedNotOurs, AllPlanned, Planned, Gone
  <2> QED
      BY <2>1, <2>2 DEF CleanupInv
<1>6. ASSUME NEW r \in Resources, NEW v \in Values, UserWrites(r, v) PROVE CleanupInv'
  <2>1. /\ svc' = [svc EXCEPT ![r] = [has |-> TRUE, val |-> v, ours |-> svc[r].ours]]
        /\ UNCHANGED <<pc, todo, passFault, work, app>>
        /\ since' = IF pc = "idle" \/ since[r] \in {"replaced", "unseen"}
                    THEN since ELSE [since EXCEPT ![r] = "edited"]
      BY <1>0, <1>6 DEF UserWrites, UserDrift
  <2>2. \A q \in Resources : /\ svc'[q].ours = svc[q].ours
                             /\ svc[q].ours => svc[q].has
                             /\ since'[q] = "replaced" => since[q] = "replaced"
      BY <1>0, <2>1 DEF OwnInv, TagInv
  <2>3. /\ ReplacedNotOurs => ReplacedNotOurs'
        /\ AllPlanned => AllPlanned'
      BY <2>1, <2>2 DEF ReplacedNotOurs, AllPlanned, Planned
  <2> QED
      BY <2>1, <2>3 DEF CleanupInv
<1>7. ASSUME Crash \/ PanicRecovered PROVE CleanupInv'
    BY <1>1, <1>7 DEF Crash, PanicRecovered, EndPass, DeletePath
<1>8. ASSUME Fetch PROVE CleanupInv'
  <2>1. /\ pc = "idle" /\ UNCHANGED <<since, svc>>
        /\ pc' \in {"idle", "unregister", "addFinalizer", "prepare"}
      BY <1>8 DEF Fetch, Goto
  <2>2. ReplacedNotOurs'
      BY <2>1 DEF OwnInv, PlanInv, ReplacedNotOurs
  <2> QED
      BY <2>1, <2>2 DEF CleanupInv, DeletePath
<1>9. ASSUME NEW out \in Writes,
             \/ AddFinalizer(out) \/ ApplyTagFails(out) \/ DirectTag(out)
             \/ Register(out) \/ UpdateStatus(out) \/ UpdateErrorStatus(out)
             \/ RemoveFinalizer(out)
      PROVE  CleanupInv'
    BY <1>1, <1>9
       DEF AddFinalizer, ApplyTagFails, DirectTag, Register, UpdateStatus,
           UpdateErrorStatus, RemoveFinalizer, EnsureTag, Goto, EndPass, DeletePath
<1>10. ASSUME NEW out \in Reads, Prepare(out) \/ Connect(out) \/ DirectRead(out)
       PROVE  CleanupInv'
    BY <1>1, <1>10 DEF Prepare, Connect, DirectRead, Goto, DeletePath
<1>11. ASSUME NEW blind, NEW lookup, ReadCurrent(blind, lookup) PROVE CleanupInv'
    BY <1>1, <1>11 DEF ReadCurrent, Goto, DeletePath
<1>12. ASSUME ReadFails \/ ApplyTag \/ ApplyDone \/ DirectSkip \/ DirectDone
       PROVE  CleanupInv'
    BY <1>1, <1>12
       DEF ReadFails, ApplyTag, EnsureTag, ApplyDone, DirectSkip, DirectDone, Goto,
           DeletePath
<1>13. ASSUME NEW o \in NextOps(todo), NEW out \in Writes,
              Apply(o, out) \/ DirectApply(o, out)
       PROVE  CleanupInv'
    BY <1>1, <1>13 DEF Apply, DirectApply, DeletePath
<1>14. ASSUME NEW out \in Writes, Unregister(out) PROVE CleanupInv'
  <2>1. /\ pc = "unregister" /\ pc' = "delSecrets" /\ UNCHANGED <<since, svc, work>>
        /\ work.spec.ref /\ ~passFault' => ~app'
      BY <1>14 DEF Unregister, Noted, Goto
  <2> QED
      BY <2>1 DEF CleanupInv, ReplacedNotOurs, DeletePath
<1>15. ASSUME NEW out \in Reads, DeleteSecrets(out) PROVE CleanupInv'
  <2>1. /\ pc = "delSecrets" /\ UNCHANGED <<since, svc, work, app>>
        /\ ~passFault' => ~passFault /\ pc' = "delRead"
        /\ pc' \in {"delRead", "removeFinalizer"}
      BY <1>15 DEF DeleteSecrets, Noted, Goto
  <2> QED
      BY <2>1 DEF CleanupInv, ReplacedNotOurs, DeletePath
<1>16. ASSUME NEW blind, NEW lookup \in BOOLEAN, CleanupRead(blind, lookup)
       PROVE  CleanupInv'
  <2>1. /\ pc = "delRead" /\ UNCHANGED <<svc, work, app>>
        /\ ReadService(blind, lookup, Nothing)
        /\ pc' = IF todo' = {} THEN "removeFinalizer" ELSE "delTag"
        /\ ~passFault' => ~passFault
      BY <1>16 DEF CleanupRead, ReadService, Goto
  <2>2. /\ \A o \in todo' : o.op = "delete"
        /\ ReplacedNotOurs'
        /\ ~passFault' => AllPlanned'
      BY <2>1, CleanupPlans
  <2> QED
      BY <2>1, <2>2 DEF CleanupInv, DeletePath
<1>17. ASSUME CleanupReadFails PROVE CleanupInv'
  <2>1. /\ pc = "delRead" /\ pc' = "removeFinalizer" /\ passFault'
        /\ UNCHANGED <<since, svc>>
      BY <1>17 DEF CleanupReadFails, Noted, Goto
  <2> QED
      BY <2>1 DEF CleanupInv, ReplacedNotOurs, DeletePath
<1>18. ASSUME NEW out \in Writes, CleanupTag(out) PROVE CleanupInv'
  <2>1. /\ pc = "delTag" /\ UNCHANGED <<todo, since, svc, work, app>>
        /\ ~passFault' => ~passFault /\ pc' = "delApply"
        /\ pc' \in {"delApply", "removeFinalizer"}
      BY <1>18 DEF CleanupTag, EnsureTag, Noted, Goto
  <2>2. ReplacedNotOurs' /\ (~passFault' => AllPlanned')
      BY <2>1 DEF CleanupInv, ReplacedNotOurs, AllPlanned, Planned, DeletePath
  <2> QED
      BY <2>1, <2>2 DEF CleanupInv, DeletePath
<1>19. ASSUME NEW o \in NextOps(todo), NEW out \in Writes, CleanupApply(o, out)
       PROVE  CleanupInv'
  <2>1. /\ pc = "delApply" /\ pc' = "delApply" /\ UNCHANGED <<since, work, app>>
        /\ ApplyOne(o, out)
        /\ ~passFault' => ~passFault
      BY <1>19 DEF CleanupApply, ApplyOne, Noted
  <2>2. /\ \A p \in todo' : p.op = "delete"
        /\ ReplacedNotOurs'
        /\ ~passFault' => AllPlanned'
      BY <2>1, CleanupKeepsPlan DEF CleanupInv, DeletePath
  <2> QED
      BY <2>1, <2>2 DEF CleanupInv, DeletePath
<1>20. ASSUME CleanupDone PROVE CleanupInv'
  <2>1. /\ pc = "delApply" /\ pc' = "removeFinalizer" /\ todo = {}
        /\ UNCHANGED <<todo, since, svc, work, app, passFault>>
      BY <1>20 DEF CleanupDone, Goto
  <2> QED
      BY <2>1 DEF CleanupInv, ReplacedNotOurs, AllPlanned, Planned, DeletePath
<1> QED
    BY <1>3, <1>4, <1>5, <1>6, <1>7, <1>8, <1>9, <1>10, <1>11, <1>12, <1>13,
       <1>14, <1>15, <1>16, <1>17, <1>18, <1>19, <1>20
       DEF Next, User, Worker, NormalStep, DeleteStep

\* A pass of reconcileDelete in which no call failed leaves nothing of the
\* operator's making behind, nor a registration with a referenced Prowlarr.
THEOREM CleanDeletion == Spec => CleanDeletionLeavesNothing
<1>1. Init => CleanupInv
    BY DEF Init, CleanupInv, DeletePath
<1>2. ASSUME CleanupInv, pc = "removeFinalizer", ~passFault
      PROVE  /\ \A r \in Resources :
                   r.kind \in DeletableKinds /\ ~DefaultDelayProfile(r) =>
                      ~(svc[r].has /\ svc[r].ours)
             /\ work.spec.ref => ~app
    BY <1>2 DEF CleanupInv, AllPlanned, Planned, Removable, DeletePath
<1>3. CleanupInv =>
        [pc = "removeFinalizer" /\ ~obj'.exists /\ obj.exists /\ ~passFault =>
           /\ \A r \in Resources :
                 r.kind \in DeletableKinds /\ ~DefaultDelayProfile(r) =>
                    ~(svc[r].has /\ svc[r].ours)
           /\ work.spec.ref => ~app]_vars
    BY <1>2
<1> QED
    BY <1>1, <1>3, CleanupStep, OwnInvariant, PTL DEF Spec, CleanDeletionLeavesNothing

(***************************************************************************)
(* Proof about ArrReconcile that a status with Synced=True is true.        *)
(*                                                                         *)
(* The claim is made when a change set is worked off and is stored several *)
(* calls later, so it is not inductive.  SyncInv follows it: from the diff *)
(* on, a resource that nobody touched is as desired or still planned for,  *)
(* or some change has failed; every planned change brings its resource to  *)
(* what is desired; and the direct writes, which come between, are for     *)
(* other kinds.                                                            *)
(***************************************************************************)

\* The change does what the specification asks for its resource.
Aimed(o, d) ==
    /\ o.payload = d[o.res]
    /\ o.op = "delete" <=> d[o.res] = NoValue

\* Nobody touched the resource since CurrentState saw it.
Steady(r) == r \in Compared /\ since[r] = "same"

AllMatch(d) == \A r \in Resources : Steady(r) => Matches(r, d)

\* What is not as desired is planned for.
Pending(d) ==
    \A r \in Resources : Steady(r) => Matches(r, d) \/ \E o \in todo : o.res = r

Claiming == {"directTag", "directRead", "directApply", "register", "status"}

SyncInv ==
    /\ pc \in {"tag", "apply"} =>
          /\ \A o \in todo : Aimed(o, work.spec.desired)
          /\ ~failed => Pending(work.spec.desired)
    /\ pc = "directApply" => \A o \in todo : o.res.kind \in DirectKinds
    /\ pc \in Claiming /\ work.status.synced = "True" => AllMatch(work.spec.desired)

-----------------------------------------------------------------------------
(***************************************************************************)
(* What Diff leaves unplanned is as desired.                               *)
(***************************************************************************)

\* What is written is what is desired, as far as it is compared.
LEMMA WrittenMain ==
    ASSUME NEW kind, NEW v \in Values
    PROVE  Written(kind, v).main = v.main
<1>1. DOMAIN v = {"main", "dropped", "hidden"}
    BY ValuesAssumption
<1>2. Stored(v).main = v.main
    BY <1>1 DEF Stored
<1> QED
    BY <1>2 DEF Written

\* Two lists matched by name: a wanted resource without a change is in the
\* list and among the equal ones.
LEMMA WantedIsCovered ==
    ASSUME NEW r \in Resources, NEW current, NEW d, NEW equal,
           \A o \in DiffByName(r.kind, current, d, equal) : o.res # r,
           d[r] # NoValue
    PROVE  current[r].has /\ r \in equal
<1> DEFINE change(op) == [op |-> op, res |-> r, payload |-> d[r]]
<1>1. \A op : change(op).res = r
    OBVIOUS
<1>2. ~current[r].has => change("create") \in DiffByName(r.kind, current, d, equal)
    BY DEF DiffByName, Changes, Wanted, Seen, OfKind
<1>3. current[r].has /\ r \notin equal =>
         change("update") \in DiffByName(r.kind, current, d, equal)
    BY DEF DiffByName, Changes, Wanted, Seen, OfKind
<1> HIDE DEF change
<1> QED
    BY <1>1, <1>2, <1>3

\* A resource in the list that nobody wants has a change.
LEMMA UnwantedIsCovered ==
    ASSUME NEW r \in Resources, NEW current, NEW d, NEW equal,
           \A o \in DiffByName(r.kind, current, d, equal) : o.res # r,
           d[r] = NoValue, current[r].has
    PROVE  FALSE
<1> DEFINE change == [op |-> "delete", res |-> r, payload |-> d[r]]
<1>1. change.res = r
    OBVIOUS
<1>2. change \in DiffByName(r.kind, current, d, equal)
    BY DEF DiffByName, Changes, Wanted, Seen, OfKind
<1> HIDE DEF change
<1> QED
    BY <1>1, <1>2

\* The resource holds what is desired, as far as its kind is compared.
Agrees(r, current, d) ==
    /\ d[r] # NoValue =>
          current[r].has /\ (r.kind = "RootFolder" \/ current[r].val.main = d[r].main)
    /\ d[r] = NoValue /\ Removable(r) => ~current[r].has

\* So does Diff as a whole, for every kind that is compared.
LEMMA DiffCovers ==
    ASSUME NEW r \in Compared, NEW current, NEW d,
           ~ \E o \in Diff(current, d) : o.res = r
    PROVE  Agrees(r, current, d)
<1>1. r \in Resources /\ r.kind \in Kinds /\ r.kind \notin DirectKinds \cup {"QualityProfile"}
    BY ResourcesAssumption DEF Compared
<1>2. r \in Alike(current, d) => current[r].val.main = d[r].main
    BY DEF Alike
<1>0. ASSUME NEW equal, equal \subseteq Alike(current, d),
             DiffByName(r.kind, current, d, equal) \subseteq Diff(current, d)
      PROVE  Agrees(r, current, d)
  <2>1. \A o \in DiffByName(r.kind, current, d, equal) : o.res # r
      BY <1>0
  <2>2. d[r] # NoValue => r \in equal
      BY <1>1, <2>1, WantedIsCovered
  <2>3. d[r] # NoValue => current[r].has
      BY <1>1, <2>1, WantedIsCovered
  <2>4. ASSUME d[r] = NoValue, current[r].has PROVE FALSE
      BY <1>1, <2>1, <2>4, UnwantedIsCovered
  <2> QED
      BY <1>0, <1>2, <2>2, <2>3, <2>4 DEF Agrees
<1>3. CASE r.kind = "CustomFormat"
  <2>1. DiffByName(r.kind, current, d, Alike(current, d)) \subseteq Diff(current, d)
      BY <1>3 DEF Diff, DiffCustomFormats
  <2> QED
      BY <1>0, <2>1
<1>4. CASE r.kind = "DownloadClient"
  <2>1. DiffByName(r.kind, current, d, Alike(current, d)) \subseteq Diff(current, d)
      BY <1>4 DEF Diff, diffDownloadClients
  <2> QED
      BY <1>0, <2>1
<1>5. CASE r.kind = "Indexer"
  <2>1. DiffByName(r.kind, current, d, {}) \subseteq Diff(current, d)
      BY <1>5 DEF Diff, diffIndexers
  <2> QED
      BY <1>0, <2>1
<1>6. CASE r.kind = "RemotePathMapping"
  <2>1. DiffByName(r.kind, current, d, Alike(current, d)) \subseteq Diff(current, d)
      BY <1>6 DEF Diff, diffRemotePathMappings
  <2> QED
      BY <1>0, <2>1
<1>7. CASE r.kind = "Notification"
  <2>1. DiffByName(r.kind, current, d, Alike(current, d)) \subseteq Diff(current, d)
      BY <1>7 DEF Diff, diffNotifications
  <2> QED
      BY <1>0, <2>1
<1>8. CASE r.kind = "RootFolder"
  <2>1. d[r] # NoValue /\ ~current[r].has =>
           [op |-> "create", res |-> r, payload |-> d[r]] \in diffRootFolders(current, d)
      BY <1>1, <1>8 DEF diffRootFolders, Changes, Wanted, Seen, OfKind
  <2>2. d[r] # NoValue => current[r].has
      BY <2>1 DEF Diff
  <2> QED
      BY <1>8, <2>2 DEF Agrees, Removable, DeletableKinds
<1>9. CASE r.kind = "NamingConfig"
  <2>1. d[r] # NoValue /\ r \notin Alike(current, d) =>
           [op |-> "update", res |-> r, payload |-> d[r]] \in diffNaming(current, d)
      BY <1>1, <1>9 DEF diffNaming, Changes, Wanted, OfKind
  <2>2. d[r] # NoValue => r \in Alike(current, d)
      BY <2>1 DEF Diff
  <2> QED
      BY <1>9, <2>2 DEF Agrees, Removable, DeletableKinds, Alike
<1>10. CASE r.kind = "DelayProfile"
  <2> DEFINE equal == {q \in Alike(current, d) : ~current[q].ours}
             plan  == DiffByName("DelayProfile", current, d, equal)
  <2>1. ASSUME NEW o \in plan, o.res = r, o.op = "delete" => ~DefaultDelayProfile(r)
        PROVE  FALSE
    <3>1. o \in diffDelayProfiles(current, d)
        BY <2>1 DEF diffDelayProfiles
    <3> QED
        BY <2>1, <3>1 DEF Diff
  <2>2. CASE ~ \E o \in plan : o.res = r
    <3>1. equal \subseteq Alike(current, d)
        OBVIOUS
    <3> HIDE DEF equal
    <3>2. \A o \in DiffByName(r.kind, current, d, equal) : o.res # r
        BY <1>10, <2>2
    <3>3. d[r] # NoValue => r \in equal
        BY <1>1, <3>2, WantedIsCovered
    <3>4. d[r] # NoValue => current[r].has
        BY <1>1, <3>2, WantedIsCovered
    <3>5. ASSUME d[r] = NoValue, current[r].has PROVE FALSE
        BY <1>1, <3>2, <3>5, UnwantedIsCovered
    <3> QED
        BY <1>2, <3>1, <3>3, <3>4, <3>5 DEF Agrees
  <2>3. ASSUME NEW o \in plan, o.res = r
        PROVE  Agrees(r, current, d)
    <3>1. o.op = "delete" /\ DefaultDelayProfile(r)
        BY <2>1, <2>3
    <3>2. Planning(o, current, d)
        BY DiffByNamePlans DEF DirectKinds
    <3>3. d[r] = NoValue
        BY <2>3, <3>1, <3>2 DEF Planning, Intended
    <3> QED
        BY <3>1, <3>3 DEF Agrees, Removable
  <2> QED
      BY <2>2, <2>3
<1> QED
    BY <1>1, <1>3, <1>4, <1>5, <1>6, <1>7, <1>8, <1>9, <1>10 DEF Kinds, DirectKinds

\* What a read shows of a resource is what the service holds.
LEMMA ShownIsHeld ==
    ASSUME NEW s \in [Resources -> Entries], NEW tag, NEW blind, NEW r \in Resources,
           CurrentState(s, tag, blind)[r].has
    PROVE  CurrentState(s, tag, blind)[r] = s[r]
BY DEF CurrentState, Gone

\* After a read, a resource that was seen is as desired or planned for.
LEMMA ReadPending ==
    ASSUME OwnInv, NEW blind, NEW lookup \in BOOLEAN, NEW d \in Desired,
           ReadService(blind, lookup, d), UNCHANGED svc
    PROVE  Pending(d)' /\ \A o \in todo' : Aimed(o, d)
<1> DEFINE current == CurrentState(svc, tagExists /\ lookup, blind)
<1>1. todo' = Diff(current, d) /\ svc \in [Resources -> Entries]
    BY DEF ReadService, OwnInv, Typed
<1>2. ASSUME NEW r \in Resources, r \in Compared, since'[r] = "same", ~ \E o \in todo' : o.res = r
      PROVE  Matches(r, d)
  <2>1. lookup = TRUE /\ r.kind \notin blind
      BY <1>2 DEF ReadService
  <2>2. Agrees(r, current, d)
    <3>1. ~ \E o \in Diff(current, d) : o.res = r
        BY <1>1, <1>2
    <3> HIDE DEF current
    <3> QED
        BY <1>2, <3>1, DiffCovers
  <2>3. CASE d[r] # NoValue
    <3>1. current[r].has /\ (r.kind = "RootFolder" \/ current[r].val.main = d[r].main)
        BY <2>2, <2>3 DEF Agrees
    <3>2. current[r] = svc[r]
        BY <1>1, <3>1, ShownIsHeld
    <3> QED
        BY <2>3, <3>1, <3>2 DEF Matches
  <2>4. CASE d[r] = NoValue
    <3>1. ASSUME Removable(r), svc[r].has, svc[r].ours
          PROVE  FALSE
      <4>1. tagExists = TRUE
          BY <3>1 DEF OwnInv, TagInv, Typed
      <4>2. CurrentState(svc, TRUE, {})[r].has
          BY <1>1, <3>1, OursIsSeen
      <4>3. r \in Listed(svc)
          BY <4>2 DEF CurrentState, Gone
      <4>4. current[r] = svc[r]
          BY <2>1, <4>1, <4>3 DEF CurrentState
      <4> QED
          BY <2>2, <2>4, <3>1, <4>4 DEF Agrees
    <3> QED
        BY <2>4, <3>1 DEF Matches, Removable
  <2> QED
      BY <2>3, <2>4
<1>3. Pending(d)'
    BY <1>2 DEF Pending, Steady, Matches
<1>4. ASSUME NEW o \in todo' PROVE Aimed(o, d)
  <2>1. Planning(o, current, d)
      BY <1>1, DiffPlans
  <2> HIDE DEF current
  <2> QED
      BY <2>1 DEF Planning, Intended, Aimed
<1> QED
    BY <1>3, <1>4

-----------------------------------------------------------------------------
(***************************************************************************)
(* SyncInv is inductive relative to OwnInv.                                *)
(***************************************************************************)

\* A change that is carried out brings its resource to what is desired.
LEMMA EffectMatches ==
    ASSUME NEW s \in [Resources -> Entries], NEW d \in Desired, NEW o \in Ops, Aimed(o, d)
    PROVE  /\ d[o.res] # NoValue => /\ Effect(s, o)[o.res].has
                                    /\ Effect(s, o)[o.res].val.main = d[o.res].main
           /\ d[o.res] = NoValue => ~Effect(s, o)[o.res].has
<1>1. o.res \in Resources /\ o.op \in {"create", "update", "delete"}
    BY DEF Ops
<1>2. CASE d[o.res] = NoValue
  <2>1. o.op = "delete"
      BY <1>2 DEF Aimed
  <2> QED
      BY <1>1, <1>2, <2>1 DEF Effect, Gone
<1>3. CASE d[o.res] # NoValue
  <2>1. o.op # "delete" /\ o.payload = d[o.res] /\ d[o.res] \in Values
      BY <1>1, <1>3 DEF Aimed, Desired
  <2>2. Written(o.res.kind, o.payload).main = d[o.res].main
      BY <2>1, WrittenMain
  <2>3. \/ Effect(s, o)[o.res] = applyCreate(o)
        \/ Effect(s, o)[o.res] = applyUpdate(o, s[o.res])
      BY <1>1, <2>1 DEF Effect
  <2> QED
      BY <1>3, <2>2, <2>3 DEF applyCreate, applyUpdate
<1> QED
    BY <1>2, <1>3

\* One change of the plan, carried out or failed.
LEMMA ApplyPending ==
    ASSUME OwnInv, NEW o \in NextOps(todo), NEW out, ApplyOne(o, out), UNCHANGED since,
           NEW d \in Desired, \A p \in todo : Aimed(p, d), ~failed => Pending(d), ~failed'
    PROVE  Pending(d)'
<1>1. /\ o \in todo /\ o \in Ops /\ o.res \in Resources /\ Aimed(o, d)
      /\ svc \in [Resources -> Entries] /\ failed \in BOOLEAN
    BY DEF NextOps, OwnInv, Typed, Ops
<1>2. todo' = todo \ {o} /\ svc' = Effect(svc, o) /\ ~failed
    BY <1>1 DEF ApplyOne
<1>3. ASSUME NEW r \in Resources, Steady(r)
      PROVE  Matches(r, d)' \/ \E p \in todo' : p.res = r
  <2>1. CASE r = o.res
    <3>1. /\ d[r] # NoValue => svc'[r].has /\ svc'[r].val.main = d[r].main
          /\ d[r] = NoValue => ~svc'[r].has
        BY <1>1, <1>2, <2>1, EffectMatches
    <3> QED
        BY <3>1 DEF Matches
  <2>2. CASE r # o.res
    <3>1. svc'[r] = svc[r]
        BY <1>1, <1>2, <2>2, EffectElsewhere
    <3>2. Matches(r, d) \/ \E p \in todo : p.res = r
        BY <1>2, <1>3 DEF Pending
    <3> QED
        BY <1>2, <2>2, <3>1, <3>2 DEF Matches
  <2> QED
      BY <2>1, <2>2
<1> QED
    BY <1>3 DEF Pending, Steady

\* Whoever changes something in Radarr marks it, and leaves the rest.
LEMMA DriftShape ==
    ASSUME OwnInv, NEW r \in Resources,
           UserRemoves(r) \/ \E v \in Values : UserWrites(r, v), pc # "idle"
    PROVE  /\ UNCHANGED <<pc, work, todo, failed>>
           /\ \A q \in Resources : since'[q] = "same" => since[q] = "same" /\ svc'[q] = svc[q]
<1>1. /\ svc \in [Resources -> Entries]
      /\ since \in [Resources -> {"same", "edited", "replaced", "unseen"}]
    BY DEF OwnInv, Typed
<1>2. UNCHANGED <<pc, work, todo, failed>>
    BY DEF UserRemoves, UserWrites, UserDrift, workerVars
<1>3. /\ \A q \in Resources : q # r => svc'[q] = svc[q] /\ since'[q] = since[q]
      /\ since'[r] # "same"
    BY <1>1 DEF UserRemoves, UserWrites
<1> QED
    BY <1>2, <1>3

\* SyncInv is inductive, given OwnInv.
LEMMA SyncStep == OwnInv /\ SyncInv /\ [Next]_vars => SyncInv'
<1> SUFFICES ASSUME OwnInv, SyncInv, [Next]_vars PROVE SyncInv'
    OBVIOUS
<1>0. /\ Typed /\ svc \in [Resources -> Entries] /\ failed \in BOOLEAN /\ todo \subseteq Ops
      /\ since \in [Resources -> {"same", "edited", "replaced", "unseen"}]
      /\ work \in Objects /\ work.spec.desired \in Desired /\ work.status \in Statuses
    BY DesiredType DEF OwnInv, Typed, Objects
<1> USE DEF kubeVars, workerVars, svcVars, bookVars
<1>1. ASSUME pc' \notin {"tag", "apply"} \cup Claiming PROVE SyncInv'
    BY <1>1 DEF SyncInv, Claiming
<1>2. ASSUME UNCHANGED <<pc, todo, since, svc, work, failed>> PROVE SyncInv'
    BY <1>2 DEF SyncInv, AllMatch, Pending, Steady, Matches, Aimed
<1>3. ASSUME NEW s \in Specs, UserCreates(s) \/ UserEdits(s) PROVE SyncInv'
    BY <1>2, <1>3 DEF UserCreates, UserEdits, UserEdit
<1>4. ASSUME UserDeletes \/ CacheSync \/ TimerFires \/ UNCHANGED vars PROVE SyncInv'
    BY <1>2, <1>4 DEF UserDeletes, UserEdit, CacheSync, TimerFires, vars
<1>5. ASSUME NEW r \in Resources, UserRemoves(r) \/ \E v \in Values : UserWrites(r, v)
      PROVE  SyncInv'
  <2>1. CASE pc = "idle"
    <3>1. pc' = "idle"
        BY <1>5, <2>1 DEF UserRemoves, UserWrites, UserDrift
    <3> QED
        BY <1>1, <3>1 DEF Claiming
  <2>2. CASE pc # "idle"
    <3>1. /\ UNCHANGED <<pc, work, todo, failed>>
          /\ \A q \in Resources : since'[q] = "same" => since[q] = "same" /\ svc'[q] = svc[q]
        BY <1>5, <2>2, DriftShape
    <3>2. AllMatch(work.spec.desired) => AllMatch(work.spec.desired)'
        BY <3>1 DEF AllMatch, Steady, Matches, Compared
    <3>3. Pending(work.spec.desired) => Pending(work.spec.desired)'
        BY <3>1 DEF Pending, Steady, Matches, Compared
    <3> QED
        BY <3>1, <3>2, <3>3 DEF SyncInv, Aimed
  <2> QED
      BY <2>1, <2>2
<1>6. ASSUME Crash \/ PanicRecovered \/ Fetch PROVE SyncInv'
  <2>1. pc' \in {"idle", "unregister", "addFinalizer", "prepare"}
      BY <1>6 DEF Crash, PanicRecovered, EndPass, Fetch, Goto
  <2> QED
      BY <1>1, <2>1 DEF Claiming
<1>7. ASSUME NEW out \in Writes,
             \/ AddFinalizer(out) \/ ApplyTagFails(out)
             \/ UpdateStatus(out) \/ UpdateErrorStatus(out)
             \/ Unregister(out) \/ CleanupTag(out) \/ RemoveFinalizer(out)
      PROVE  SyncInv'
  <2>1. pc' \in {"idle", "panic", "delSecrets", "delApply", "removeFinalizer"}
      BY <1>7 DEF AddFinalizer, ApplyTagFails, UpdateStatus, UpdateErrorStatus,
                  Unregister, CleanupTag, RemoveFinalizer, EnsureTag, Goto, EndPass
  <2> QED
      BY <1>1, <2>1 DEF Claiming
<1>8. ASSUME NEW out \in Reads, Prepare(out) \/ Connect(out) \/ DeleteSecrets(out)
      PROVE  SyncInv'
  <2>1. pc' \in {"connect", "read", "errStatus", "delRead", "removeFinalizer"}
      BY <1>8 DEF Prepare, Connect, DeleteSecrets, Goto
  <2> QED
      BY <1>1, <2>1 DEF Claiming
<1>9. ASSUME ReadFails \/ CleanupReadFails \/ CleanupDone PROVE SyncInv'
  <2>1. pc' \in {"errStatus", "removeFinalizer"}
      BY <1>9 DEF ReadFails, CleanupReadFails, CleanupDone, Goto
  <2> QED
      BY <1>1, <2>1 DEF Claiming
<1>10. ASSUME NEW blind, NEW lookup, CleanupRead(blind, lookup) PROVE SyncInv'
  <2>1. pc' \in {"delTag", "removeFinalizer"}
      BY <1>10 DEF CleanupRead, Goto
  <2> QED
      BY <1>1, <2>1 DEF Claiming
<1>11. ASSUME NEW o \in NextOps(todo), NEW out, CleanupApply(o, out) PROVE SyncInv'
  <2>1. pc' = "delApply"
      BY <1>11 DEF CleanupApply
  <2> QED
      BY <1>1, <2>1 DEF Claiming
<1>12. ASSUME NEW blind, NEW lookup \in BOOLEAN, ReadCurrent(blind, lookup) PROVE SyncInv'
  <2> DEFINE d == work.spec.desired
  <2>1. /\ ReadService(blind, lookup, d) /\ UNCHANGED svc
        /\ work'.spec = work.spec
        /\ \/ pc' = "tag"
           \/ pc' = "directTag" /\ todo' = {}
      BY <1>0, <1>12 DEF ReadCurrent, Goto, Objects
  <2>2. Pending(d)' /\ \A o \in todo' : Aimed(o, d)
      BY <1>0, <2>1, ReadPending
  <2>3. CASE pc' = "tag"
      BY <2>1, <2>2, <2>3 DEF SyncInv, Claiming, Pending, Steady, Matches, Aimed
  <2>4. CASE pc' = "directTag" /\ todo' = {}
    <3>1. AllMatch(d)'
        BY <2>1, <2>2, <2>4 DEF AllMatch, Pending
    <3> QED
        BY <2>1, <2>4, <3>1 DEF SyncInv, AllMatch, Steady, Matches
  <2> QED
      BY <2>1, <2>3, <2>4
<1>13. ASSUME ApplyTag PROVE SyncInv'
  <2>1. pc = "tag" /\ pc' = "apply" /\ UNCHANGED <<todo, since, svc, work, failed>>
      BY <1>13 DEF ApplyTag, EnsureTag, Goto
  <2> QED
      BY <2>1 DEF SyncInv, Pending, Steady, Matches, Aimed, Claiming
<1>14. ASSUME NEW o \in NextOps(todo), NEW out, Apply(o, out) PROVE SyncInv'
  <2> DEFINE d == work.spec.desired
  <2>1. /\ pc = "apply" /\ pc' = "apply" /\ UNCHANGED <<since, work>>
        /\ ApplyOne(o, out) /\ todo' = todo \ {o}
      BY <1>14 DEF Apply, ApplyOne
  <2>2. (\A p \in todo : Aimed(p, d)) /\ (~failed => Pending(d))
      BY <2>1 DEF SyncInv
  <2>3. ~failed' => Pending(d)'
      BY <1>0, <2>1, <2>2, ApplyPending
  <2> QED
      BY <2>1, <2>2, <2>3 DEF SyncInv, Aimed, Claiming
<1>15. ASSUME ApplyDone PROVE SyncInv'
  <2>1. /\ pc = "apply" /\ pc' = "directTag" /\ todo = {}
        /\ UNCHANGED <<since, svc>> /\ work'.spec = work.spec
        /\ work'.status = Finish(work.status, IF failed THEN "False" ELSE "True")
      BY <1>0, <1>15 DEF ApplyDone, Goto, Objects
  <2>2. work'.status.synced = "True" => ~failed
      BY <1>0, <2>1 DEF Finish, SetReady, Statuses
  <2>3. ~failed => AllMatch(work.spec.desired)
      BY <2>1 DEF SyncInv, Pending, AllMatch
  <2> QED
      BY <2>1, <2>2, <2>3 DEF SyncInv, AllMatch, Steady, Matches
<1>16. ASSUME NEW out, DirectSkip \/ DirectTag(out) \/ DirectDone \/ Register(out)
       PROVE  SyncInv'
  <2>1. /\ pc \in {"directTag", "directApply", "register"}
        /\ pc' \in {"directRead", "register", "status"}
        /\ UNCHANGED <<since, svc, work>>
      BY <1>16 DEF DirectSkip, DirectTag, DirectDone, Register, EnsureTag, Goto
  <2> QED
      BY <2>1 DEF SyncInv, Claiming, AllMatch, Steady, Matches
<1>17. ASSUME NEW out \in Reads, DirectRead(out) PROVE SyncInv'
  <2>1. /\ pc = "directRead" /\ pc' = "directApply" /\ UNCHANGED <<svc, work>>
        /\ todo' \subseteq ApplyDirect(svc, work.spec.desired)
        /\ \A r \in Resources : r.kind # "ImportList" => since'[r] = since[r]
      BY <1>17 DEF DirectRead, Goto
  <2>2. \A o \in todo' : o.res.kind \in DirectKinds
      BY <1>0, <2>1, ApplyDirectPlans
  <2>3. \A r \in Resources : Steady(r)' => Steady(r)
      BY <2>1 DEF Steady, Compared, DirectKinds
  <2> QED
      BY <2>1, <2>2, <2>3 DEF SyncInv, Claiming, AllMatch, Matches
<1>18. ASSUME NEW o \in NextOps(todo), NEW out, DirectApply(o, out) PROVE SyncInv'
  <2>1. /\ pc = "directApply" /\ pc' = "directApply" /\ UNCHANGED <<since, work>>
        /\ o \in todo /\ o \in Ops /\ todo' \subseteq todo
        /\ svc' = svc \/ svc' = Effect(svc, o)
      BY <1>0, <1>18 DEF DirectApply, ApplyOne, NextOps
  <2>2. o.res.kind \in DirectKinds
      BY <2>1 DEF SyncInv
  <2>3. \A r \in Resources : Steady(r) => svc'[r] = svc[r]
      BY <1>0, <2>1, <2>2, EffectElsewhere DEF Steady, Compared
  <2>4. AllMatch(work.spec.desired) => AllMatch(work.spec.desired)'
      BY <2>1, <2>3 DEF AllMatch, Steady, Matches
  <2> QED
      BY <2>1, <2>4 DEF SyncInv, Claiming
<1> QED
    BY <1>3, <1>4, <1>5, <1>6, <1>7, <1>8, <1>9, <1>10, <1>11, <1>12, <1>13,
       <1>14, <1>15, <1>16, <1>17, <1>18
       DEF Next, User, Worker, NormalStep, DeleteStep

\* SyncInv holds in every reachable state, for all constants.
THEOREM SyncInvariant == Spec => []SyncInv
<1>1. Init => SyncInv
    BY DEF Init, SyncInv, Claiming
<1> QED
    BY <1>1, SyncStep, OwnInvariant, PTL DEF Spec

\* A pass stores Synced=True only when every resource that it could see and
\* that the user left alone since then is as the stored spec wants it.
THEOREM SyncedIsTrue == Spec => SyncedIsTruthful
<1> DEFINE Truthful ==
        pc = "status" /\ obj'.status # obj.status /\ obj'.status.synced = "True" =>
           \A r \in Compared : since[r] = "same" => Matches(r, obj'.spec.desired)
<1>1. ASSUME GuardInv, SyncInv, Next, pc = "status", obj'.status # obj.status,
             obj'.status.synced = "True"
      PROVE  \A r \in Compared : since[r] = "same" => Matches(r, obj'.spec.desired)
  <2> USE DEF kubeVars, workerVars, svcVars, bookVars
  <2>1. obj \in Objects
      BY <1>1 DEF GuardInv, Typed
  <2>2. ~UserDeletes /\ ~ \E s \in Specs : UserCreates(s) \/ UserEdits(s)
    <3>1. NoObject.status.synced = "Unknown"
        BY DEF NoObject, EmptyStatus
    <3>2. ~UserDeletes
      <4>1. UserDeletes => obj' = [obj EXCEPT !.deleting = TRUE] \/ obj' = NoObject
          BY DEF UserDeletes, Store
      <4>2. [obj EXCEPT !.deleting = TRUE].status = obj.status
          BY <2>1 DEF Objects
      <4> QED
          BY <1>1, <3>1, <4>1, <4>2
    <3>3. ASSUME NEW s \in Specs, UserCreates(s) PROVE FALSE
      <4>1. obj'.status = NoObject.status
          BY <3>3, NoObjectType DEF UserCreates, Store, Objects
      <4> QED
          BY <1>1, <3>1, <4>1
    <3>4. ASSUME NEW s \in Specs, UserEdits(s) PROVE FALSE
      <4>1. obj'.status = obj.status
          BY <2>1, <3>4 DEF UserEdits, Store, Objects
      <4> QED
          BY <1>1, <4>1
    <3> QED
        BY <3>2, <3>3, <3>4
  <2>3. \E out \in Writes : UpdateStatus(out)
    <3>1. UserDrift \/ CacheSync \/ TimerFires \/ Crash => obj' = obj
        BY DEF UserDrift, CacheSync, TimerFires, Crash
    <3>2. User => obj' = obj
        BY <2>2, <3>1 DEF User, UserRemoves, UserWrites
    <3>3. Worker
        BY <1>1, <3>1, <3>2 DEF Next
    <3> QED
        BY <1>1, <3>3
           DEF Worker, Fetch, NormalStep, DeleteStep, AddFinalizer, ApplyTagFails,
               DirectTag, Register, UpdateErrorStatus, Prepare, Connect, DirectRead,
               ReadCurrent, ReadFails, ApplyTag, PanicRecovered, ApplyDone, DirectSkip,
               DirectDone, Apply, DirectApply, Unregister, CleanupTag, RemoveFinalizer,
               DeleteSecrets, CleanupRead, CleanupReadFails, CleanupDone, CleanupApply
  <2>4. workFresh /\ obj' = [obj EXCEPT !.status = work.status]
      BY <1>1, <2>3 DEF UpdateStatus, WriteStatus
  <2>5. obj'.spec = work.spec /\ obj'.status = work.status
      BY <1>1, <2>1, <2>4 DEF GuardInv, FreshCopies, SameObject, Objects
  <2>6. AllMatch(work.spec.desired)
      BY <1>1, <2>5 DEF SyncInv, Claiming
  <2> QED
      BY <2>5, <2>6 DEF AllMatch, Steady, Compared
<1>2. GuardInv /\ SyncInv /\ [Next]_vars => [Truthful]_vars
    BY <1>1
<1> QED
    BY <1>2, GuardInvariant, SyncInvariant, PTL DEF Spec, SyncedIsTruthful
=============================================================================
