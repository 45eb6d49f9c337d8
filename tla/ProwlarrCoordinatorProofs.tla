---------------------- MODULE ProwlarrCoordinatorProofs ----------------------
(***************************************************************************)
(* Proofs about ProwlarrCoordinator, for every set of configurations,      *)
(* ProwlarrConfigs and specs and every bound.                              *)
(***************************************************************************)
EXTENDS ProwlarrCoordinator, TLAPS

(***************************************************************************)
(* The inductive invariant.                                                *)
(***************************************************************************)

\* Each reconciler works on configurations of its own type, and once it has
\* unregistered one, nobody else brings the application back.
ArrHeld ==
    \A t \in ArrTypes :
        /\ arr[t].pc # "idle" => arr[t].cur \in Configs /\ arr[t].cur.type = t
        /\ arr[t].fresh => arr[t].pc # "idle"
        /\ /\ arr[t].pc = "removeFinalizer" /\ arr[t].ok
           /\ arr[t].copy.spec.ref # NoRef
           => apps[arr[t].copy.spec.ref][<<"arr", arr[t].cur>>] = NoKey

\* The coordinator's copies that it has yet to write.
InHand(c) == c \in co.items \/ (co.pc = "status" /\ c = co.cur)

\* A fresh copy differs from the stored object in the record alone.
CoHeld ==
    /\ co.pc # "idle" => co.p \in Prowlarrs
    /\ co.pc = "status" => co.cur \in Configs /\ co.cur \notin co.items
    /\ \A c \in copyFresh :
          InHand(c) => copies[c] = [obj[c] EXCEPT !.reg = copies[c].reg]

\* An application is there, or a user has removed it.
Present(p, c) == apps[p][<<"pull", c>>] # NoKey \/ <<p, <<"pull", c>>>> \in touched

\* A record that says "registered" is true of its configuration.
RecordTrue(reg, c) == reg.registered => reg.prowlarr \in Prowlarrs /\ Present(reg.prowlarr, c)

\* It is, in the API server, in the cache and in the coordinator's copies,
\* however old they are: nobody but the user takes such an application away.
RecordsTrue ==
    \A c \in Configs : RecordTrue(obj[c].reg, c) /\ RecordTrue(cache[c].reg, c) /\ RecordTrue(copies[c].reg, c)

\* The reconciler's part of the status is about a generation that was there.
GenerationsHeld == \A c \in Configs : obj[c].arrGen <= obj[c].gen

IInv == TypeOK /\ ArrHeld /\ CoHeld /\ RecordsTrue /\ GenerationsHeld

(***************************************************************************)
(* Types of the operators the actions are built from.                      *)
(***************************************************************************)

\* An object that is not there, idle workers.
LEMMA NothingTypes ==
    /\ NoObject \in Objects /\ NoRecord \in Records /\ NoObject.reg = NoRecord
    /\ NoObject.arrGen <= NoObject.gen /\ ~NoObject.exists
    /\ IdleArr \in ArrPasses /\ IdleCo \in CoPasses
    /\ NoConfig \notin Configs
<1>1. NoObject \in Objects /\ NoRecord \in Records /\ NoObject.reg = NoRecord
    BY DEF NoObject, Objects, NoRecord, Records
<1>2. NoObject.arrGen <= NoObject.gen /\ ~NoObject.exists
    BY DEF NoObject
<1>3. NoConfig \notin Configs
    BY ConfigsAssumption DEF NoConfig, Types
<1> QED
    BY <1>1, <1>2, <1>3 DEF IdleArr, ArrPasses, IdleCo, CoPasses

\* A reference is none or a ProwlarrConfig.
LEMMA RefType ==
    ASSUME NEW o \in Objects
    PROVE  o.spec.ref \in Prowlarrs \cup {NoRef} /\ o.reg \in Records
           /\ o.gen \in Nat /\ o.arrGen \in Nat /\ o.exists \in BOOLEAN
BY SpecsAssumption DEF Objects

\* An edited object is an object, and only its spec and generation differ.
LEMMA EditedType ==
    ASSUME NEW x \in Objects, NEW s \in Specs, x.arrGen <= x.gen
    PROVE  /\ [x EXCEPT !.spec = s, !.gen = x.gen + 1] \in Objects
           /\ [x EXCEPT !.spec = s, !.gen = x.gen + 1].arrGen
                 <= [x EXCEPT !.spec = s, !.gen = x.gen + 1].gen
           /\ [x EXCEPT !.spec = s, !.gen = x.gen + 1].reg = x.reg
<1> DEFINE n == x.gen + 1
           o == [x EXCEPT !.spec = s, !.gen = n]
<1>1. n \in Nat /\ x.arrGen <= n
    BY DEF Objects
<1> HIDE DEF n
<1>2. o \in Objects /\ o.gen = n /\ o.arrGen = x.arrGen /\ o.reg = x.reg
    BY <1>1 DEF Objects
<1> QED
    BY <1>1, <1>2 DEF n

\* The type of a configuration is one of those with a reconciler.
LEMMA TypeOf ==
    ASSUME NEW c \in Configs
    PROVE  c.type \in ArrTypes
BY DEF ArrTypes

\* Calls that fail are counted.
LEMMA OutcomeType ==
    ASSUME TypeOK, NEW out, Outcome(out)
    PROVE  faults' \in 0..MaxFaults
BY BoundsAssumption DEF TypeOK, Outcome

\* A write of one configuration leaves the others alone and outdates copies.
LEMMA StoreFacts ==
    ASSUME TypeOK, GenerationsHeld, NEW c \in Configs, NEW o \in Objects,
           o.arrGen <= o.gen, Store(c, o)
    PROVE  /\ obj' \in [Configs -> Objects]
           /\ fresh' \subseteq Configs /\ copyFresh' \subseteq copyFresh
           /\ obj'[c] = o /\ c \notin fresh' /\ c \notin copyFresh'
           /\ \A d \in Configs : d # c => obj'[d] = obj[d]
           /\ GenerationsHeld'
<1>1. obj' = [obj EXCEPT ![c] = o] /\ obj \in [Configs -> Objects]
    BY DEF Store, TypeOK
<1>2. \A d \in Configs : obj'[d] = IF d = c THEN o ELSE obj[d]
    BY <1>1
<1>3. GenerationsHeld'
    BY <1>2 DEF GenerationsHeld
<1> QED
    BY <1>1, <1>2, <1>3 DEF Store, TypeOK

(***************************************************************************)
(* What the parts of the invariant depend on.                              *)
(***************************************************************************)

\* Records move between API server, cache and copies; what makes them true
\* stays.
LEMMA RecordsFrame ==
    ASSUME RecordsTrue,
           \A p \in Prowlarrs, c \in Configs : Present(p, c) => Present(p, c)',
           \A c \in Configs :
              /\ obj'[c].reg \in {obj[c].reg, cache[c].reg, copies[c].reg, NoRecord}
              /\ cache'[c].reg \in {obj[c].reg, cache[c].reg, copies[c].reg, NoRecord}
              /\ copies'[c].reg \in {obj[c].reg, cache[c].reg, copies[c].reg, NoRecord}
    PROVE  RecordsTrue'
<1>1. ASSUME NEW c \in Configs,
             NEW reg \in {obj[c].reg, cache[c].reg, copies[c].reg, NoRecord}
      PROVE  reg.registered => reg.prowlarr \in Prowlarrs /\ Present(reg.prowlarr, c)'
  <2>1. RecordTrue(reg, c)
      BY <1>1 DEF RecordsTrue, NoRecord, RecordTrue
  <2> QED
      BY <2>1 DEF RecordTrue
<1> QED
    BY <1>1 DEF RecordsTrue, RecordTrue

\* The reconcilers' workers stay as they are, or learn that a copy is old.
LEMMA ArrFrame ==
    ASSUME TypeOK, ArrHeld,
           \A t \in ArrTypes :
              /\ arr'[t].pc = arr[t].pc /\ arr'[t].cur = arr[t].cur
              /\ arr'[t].copy = arr[t].copy /\ arr'[t].ok = arr[t].ok
              /\ arr'[t].fresh => arr[t].fresh,
           \A p \in Prowlarrs, c \in Configs :
              apps[p][<<"arr", c>>] = NoKey => apps'[p][<<"arr", c>>] = NoKey
    PROVE  ArrHeld'
<1> SUFFICES ASSUME NEW t \in ArrTypes
             PROVE  /\ arr'[t].pc # "idle" => arr'[t].cur \in Configs /\ arr'[t].cur.type = t
                    /\ arr'[t].fresh => arr'[t].pc # "idle"
                    /\ /\ arr'[t].pc = "removeFinalizer" /\ arr'[t].ok
                       /\ arr'[t].copy.spec.ref # NoRef
                       => apps'[arr'[t].copy.spec.ref][<<"arr", arr'[t].cur>>] = NoKey
    BY DEF ArrHeld
<1>1. arr[t].copy.spec.ref \in Prowlarrs \cup {NoRef}
    BY RefType DEF TypeOK, ArrPasses
<1>2. /\ arr[t].pc # "idle" => arr[t].cur \in Configs /\ arr[t].cur.type = t
      /\ arr[t].fresh => arr[t].pc # "idle"
      /\ arr[t].pc = "removeFinalizer" /\ arr[t].ok /\ arr[t].copy.spec.ref # NoRef
         => apps[arr[t].copy.spec.ref][<<"arr", arr[t].cur>>] = NoKey
    BY DEF ArrHeld
<1>3. /\ arr'[t].pc = arr[t].pc /\ arr'[t].cur = arr[t].cur
      /\ arr'[t].copy = arr[t].copy /\ arr'[t].ok = arr[t].ok
      /\ arr'[t].fresh => arr[t].fresh
    OBVIOUS
<1>4. CASE arr[t].pc = "removeFinalizer" /\ arr[t].ok /\ arr[t].copy.spec.ref # NoRef
  <2>1. apps'[arr[t].copy.spec.ref][<<"arr", arr[t].cur>>] = NoKey
      BY <1>1, <1>2, <1>4
  <2> QED
      BY <1>2, <1>3, <2>1
<1>5. CASE ~(arr[t].pc = "removeFinalizer" /\ arr[t].ok /\ arr[t].copy.spec.ref # NoRef)
    BY <1>2, <1>3, <1>5
<1> QED
    BY <1>4, <1>5

\* The coordinator's worker stays as it is, or learns that a copy is old.
LEMMA CoFrame ==
    ASSUME CoHeld, UNCHANGED <<co, copies>>, copyFresh' \subseteq copyFresh,
           \A c \in copyFresh' : obj'[c] = obj[c]
    PROVE  CoHeld'
BY DEF CoHeld, InHand

\* Nothing that a fresh copy is a copy of has changed.
LEMMA OutdatedType ==
    ASSUME TypeOK, ArrHeld, NEW c \in Configs, arr' = ArrOutdated(c)
    PROVE  /\ arr' \in [ArrTypes -> ArrPasses]
           /\ \A t \in ArrTypes :
              /\ arr'[t].pc = arr[t].pc /\ arr'[t].cur = arr[t].cur
              /\ arr'[t].copy = arr[t].copy /\ arr'[t].ok = arr[t].ok
              /\ arr'[t].fresh => arr[t].fresh /\ arr[t].cur # c
<1> DEFINE u == c.type
           old == arr[u].fresh /\ arr[u].cur # c
<1>1. u \in ArrTypes /\ arr \in [ArrTypes -> ArrPasses] /\ arr[u] \in ArrPasses
    BY TypeOf DEF TypeOK
<1>2. arr' = [arr EXCEPT ![u] = [arr[u] EXCEPT !.fresh = old]]
    BY <1>1 DEF ArrOutdated
<1>3. [arr[u] EXCEPT !.fresh = old] \in ArrPasses
    BY <1>1 DEF ArrPasses
<1>4. arr' \in [ArrTypes -> ArrPasses]
    BY <1>1, <1>2, <1>3
<1>5. ASSUME NEW t \in ArrTypes, t # u
      PROVE  arr'[t] = arr[t] /\ (arr[t].fresh => arr[t].cur # c)
    BY <1>1, <1>2, <1>5 DEF ArrHeld
<1>6. /\ arr'[u].pc = arr[u].pc /\ arr'[u].cur = arr[u].cur
      /\ arr'[u].copy = arr[u].copy /\ arr'[u].ok = arr[u].ok
      /\ arr'[u].fresh = old
    BY <1>1, <1>2 DEF ArrPasses
<1> QED
    BY <1>4, <1>5, <1>6

(***************************************************************************)
(* Init.                                                                   *)
(***************************************************************************)

\* The invariant holds initially.
LEMMA InitInv == Init => IInv
<1> SUFFICES ASSUME Init PROVE IInv
    OBVIOUS
<1>1. obj \in [Configs -> Objects] /\ arr \in [ArrTypes -> ArrPasses]
    BY NothingTypes DEF Init
<1>2. /\ prow \in [Prowlarrs -> [state : ProwStates, push : SUBSET Configs]]
      /\ apps \in [Prowlarrs -> [AppNames -> Keys \cup {NoKey}]]
    BY DEF Init, ProwStates
<1>3. \A t \in ArrTypes : arr[t].fresh = FALSE /\ arr[t].pc = "idle"
    BY DEF Init, IdleArr
<1>4. edits \in 0..MaxEdits /\ drifts \in 0..MaxDrifts /\ faults \in 0..MaxFaults
    BY BoundsAssumption DEF Init
<1>5. TypeOK
    BY <1>1, <1>2, <1>3, <1>4, NothingTypes DEF Init, TypeOK
<1>6. ArrHeld
    BY <1>3 DEF ArrHeld
<1>7. CoHeld
    BY DEF Init, CoHeld, IdleCo
<1>8. RecordsTrue /\ GenerationsHeld
    BY NothingTypes DEF Init, RecordsTrue, RecordTrue, NoRecord, GenerationsHeld
<1> QED
    BY <1>5, <1>6, <1>7, <1>8 DEF IInv

(***************************************************************************)
(* The user, informer and timers.                                          *)
(***************************************************************************)

\* A user writes a configuration and leaves its record as it is.
LEMMA UserStoresInv ==
    ASSUME IInv, NEW c \in Configs, NEW o \in Objects, o.arrGen <= o.gen,
           o.reg \in {obj[c].reg, NoRecord}, UserStores(c, o)
    PROVE  IInv'
<1>1. /\ obj' \in [Configs -> Objects]
      /\ fresh' \subseteq Configs /\ copyFresh' \subseteq copyFresh
      /\ obj'[c] = o /\ c \notin fresh' /\ c \notin copyFresh'
      /\ \A d \in Configs : d # c => obj'[d] = obj[d]
      /\ GenerationsHeld'
    BY StoreFacts DEF IInv, UserStores
<1>2. /\ arr' \in [ArrTypes -> ArrPasses]
      /\ \A t \in ArrTypes :
            /\ arr'[t].pc = arr[t].pc /\ arr'[t].cur = arr[t].cur
            /\ arr'[t].copy = arr[t].copy /\ arr'[t].ok = arr[t].ok
            /\ arr'[t].fresh => arr[t].fresh /\ arr[t].cur # c
    BY OutdatedType DEF IInv, UserStores
<1>3. UNCHANGED <<cache, queues, prow, co, copies, apps, touched, drifts, faults>>
    BY DEF UserStores
<1>4. TypeOK'
  <2>1. ASSUME NEW t \in ArrTypes, arr'[t].fresh
        PROVE  arr'[t].copy = obj'[arr'[t].cur]
    <3>1. arr[t].fresh /\ arr[t].cur # c
        BY <1>2, <2>1
    <3>2. arr[t].cur \in Configs /\ arr[t].copy = obj[arr[t].cur]
        BY <3>1 DEF IInv, TypeOK, ArrHeld
    <3> QED
        BY <1>1, <1>2, <3>1, <3>2
  <2>2. \A d \in fresh' : cache'[d] = obj'[d]
      BY <1>1, <1>3 DEF IInv, TypeOK, UserStores, Store
  <2>3. edits' \in 0..MaxEdits
      BY BoundsAssumption DEF IInv, TypeOK, UserStores, UserEdit
  <2> QED
      BY <1>1, <1>2, <1>3, <2>1, <2>2, <2>3 DEF IInv, TypeOK, queues
<1>5. ArrHeld'
    BY <1>2, <1>3, ArrFrame DEF IInv
<1>6. CoHeld'
    BY <1>1, <1>3, CoFrame DEF IInv, TypeOK
<1>7. RecordsTrue'
    BY <1>1, <1>3, RecordsFrame DEF IInv, Present
<1> QED
    BY <1>1, <1>4, <1>5, <1>6, <1>7 DEF IInv

\* The user creates, edits, or deletes a configuration.
LEMMA UserObjectInv ==
    ASSUME IInv, NEW c \in Configs,
           \/ \E s \in Specs : UserCreates(c, s) \/ UserEdits(c, s)
           \/ UserDeletes(c)
    PROVE  IInv'
<1>1. obj[c] \in Objects /\ obj[c].arrGen <= obj[c].gen /\ obj[c].gen \in Nat
      /\ obj[c].arrGen \in Nat
    BY RefType DEF IInv, TypeOK, GenerationsHeld
<1>2. ASSUME NEW s \in Specs, UserCreates(c, s)
      PROVE  IInv'
  <2> DEFINE o == [NoObject EXCEPT !.exists = TRUE, !.gen = 1, !.spec = s]
  <2>1. o \in Objects /\ o.arrGen <= o.gen /\ o.reg = NoRecord
    <3>1. NoObject \in Objects /\ NoObject.reg = NoRecord
        BY NothingTypes
    <3>2. NoObject.arrGen = 0
        BY DEF NoObject
    <3>3. o \in Objects /\ o.gen = 1 /\ o.arrGen = 0 /\ o.reg = NoRecord
        BY <3>1, <3>2 DEF Objects
    <3> QED
        BY <3>3
  <2>2. UserStores(c, o)
      BY <1>2 DEF UserCreates
  <2> HIDE DEF o
  <2> QED
      BY <2>1, <2>2, UserStoresInv
<1>3. ASSUME NEW s \in Specs, UserEdits(c, s)
      PROVE  IInv'
  <2> DEFINE o == [obj[c] EXCEPT !.spec = s, !.gen = obj[c].gen + 1]
  <2>1. o \in Objects /\ o.arrGen <= o.gen /\ o.reg = obj[c].reg
      BY <1>1, EditedType, Zenon
  <2>2. UserStores(c, o)
      BY <1>3 DEF UserEdits
  <2> HIDE DEF o
  <2> QED
      BY <2>1, <2>2, UserStoresInv
<1>4. CASE UserDeletes(c)
  <2> DEFINE o == [obj[c] EXCEPT !.deleting = TRUE]
  <2>1. o \in Objects /\ o.arrGen <= o.gen /\ o.reg = obj[c].reg
      BY <1>1 DEF Objects
  <2>2. UserStores(c, IF obj[c].fin THEN o ELSE NoObject)
      BY <1>4 DEF UserDeletes
  <2> HIDE DEF o
  <2>3. CASE obj[c].fin
      BY <2>1, <2>2, <2>3, UserStoresInv
  <2>4. CASE ~obj[c].fin
      BY <2>2, <2>4, NothingTypes, UserStoresInv
  <2> QED
      BY <2>3, <2>4
<1> QED
    BY <1>2, <1>3, <1>4

\* Queues, timers and ProwlarrConfigs are outside the invariant, but for their
\* types.
LEMMA QuietInv ==
    ASSUME IInv,
           UNCHANGED <<obj, cache, fresh, arr, coVars, apps, touched, drifts, faults>>,
           arrQueue' \subseteq Configs, arrTimer' \subseteq Configs,
           coQueue' \subseteq Prowlarrs, coTimer' \subseteq Prowlarrs,
           prow' \in [Prowlarrs -> [state : ProwStates, push : SUBSET Configs]],
           edits' \in 0..MaxEdits
    PROVE  IInv'
<1> USE DEF coVars
<1>1. TypeOK'
    BY DEF IInv, TypeOK
<1>2. ArrHeld'
    BY DEF IInv, ArrHeld
<1>3. CoHeld'
    BY DEF IInv, CoHeld, InHand
<1>4. RecordsTrue'
    BY DEF IInv, RecordsTrue, RecordTrue, Present
<1>5. GenerationsHeld'
    BY DEF IInv, GenerationsHeld
<1> QED
    BY <1>1, <1>2, <1>3, <1>4, <1>5 DEF IInv

\* A Prowlarr configuration changes.
LEMMA ProwlarrChangesInv ==
    ASSUME IInv, NEW p \in Prowlarrs, NEW to \in Offers, ProwlarrChanges(p, to)
    PROVE  IInv'
<1>1. edits' \in 0..MaxEdits
    BY BoundsAssumption DEF IInv, TypeOK, ProwlarrChanges, UserEdit
<1>2. prow' \in [Prowlarrs -> [state : ProwStates, push : SUBSET Configs]]
    BY OffersAssumption DEF IInv, TypeOK, ProwlarrChanges
<1> QED
    BY <1>1, <1>2, QuietInv DEF IInv, TypeOK, ProwlarrChanges

\* The user takes an application away: records that name it are excused.
LEMMA UserRemovesAppInv ==
    ASSUME IInv, NEW p \in Prowlarrs, NEW a \in AppNames, UserRemovesApp(p, a)
    PROVE  IInv'
<1> USE DEF UserRemovesApp, queues, coVars
<1>1. apps \in [Prowlarrs -> [AppNames -> Keys \cup {NoKey}]]
    BY DEF IInv, TypeOK
<1>2. /\ apps' \in [Prowlarrs -> [AppNames -> Keys \cup {NoKey}]]
      /\ \A q \in Prowlarrs, b \in AppNames :
            apps'[q][b] = IF q = p /\ b = a THEN NoKey ELSE apps[q][b]
    BY <1>1
<1>3. TypeOK'
  <2>1. drifts' \in 0..MaxDrifts
      BY BoundsAssumption DEF IInv, TypeOK
  <2>2. touched' \subseteq Prowlarrs \X AppNames
      BY DEF IInv, TypeOK
  <2> QED
      BY <1>2, <2>1, <2>2 DEF IInv, TypeOK
<1>4. \A c \in Configs : <<"arr", c>> \in AppNames /\ <<"pull", c>> \in AppNames
    BY DEF AppNames
<1>5. ArrHeld'
    BY <1>2, <1>4, ArrFrame DEF IInv
<1>6. CoHeld'
    BY CoFrame DEF IInv
<1>7. RecordsTrue'
  <2>1. \A q \in Prowlarrs, c \in Configs : Present(q, c) => Present(q, c)'
      BY <1>2, <1>4 DEF Present
  <2> QED
      BY <2>1, RecordsFrame DEF IInv
<1>8. GenerationsHeld'
    BY DEF IInv, GenerationsHeld
<1> QED
    BY <1>3, <1>5, <1>6, <1>7, <1>8 DEF IInv

\* The informer catches up.
LEMMA CacheSyncInv ==
    ASSUME IInv, NEW c \in Configs, CacheSync(c)
    PROVE  IInv'
<1> USE DEF CacheSync, coVars, bounds
<1>1. /\ cache' \in [Configs -> Objects] /\ cache'[c] = obj[c]
      /\ \A d \in Configs : d # c => cache'[d] = cache[d]
    BY DEF IInv, TypeOK
<1>2. TypeOK'
  <2>1. coQueue' \subseteq Prowlarrs
    <3>1. {cache[c].spec.ref, obj[c].spec.ref} \subseteq Prowlarrs \cup {NoRef}
        BY RefType DEF IInv, TypeOK
    <3> QED
        BY <3>1 DEF IInv, TypeOK
  <2>2. \A d \in fresh' : cache'[d] = obj'[d]
      BY <1>1 DEF IInv, TypeOK
  <2> QED
      BY <1>1, <2>1, <2>2 DEF IInv, TypeOK
<1>3. ArrHeld'
    BY ArrFrame DEF IInv
<1>4. CoHeld'
    BY CoFrame DEF IInv
<1>5. RecordsTrue'
    BY <1>1, RecordsFrame DEF IInv, Present
<1>6. GenerationsHeld'
    BY DEF IInv, GenerationsHeld
<1> QED
    BY <1>2, <1>3, <1>4, <1>5, <1>6 DEF IInv

(***************************************************************************)
(* The reconcilers.                                                        *)
(***************************************************************************)

\* One worker goes on to w; applications of other types stay away.
LEMMA ArrReplace ==
    ASSUME IInv, NEW t \in ArrTypes, NEW w \in ArrPasses, arr' = [arr EXCEPT ![t] = w],
           w.pc # "idle" => w.cur \in Configs /\ w.cur.type = t,
           w.fresh => w.pc # "idle",
           w.pc = "removeFinalizer" /\ w.ok /\ w.copy.spec.ref # NoRef
              => apps'[w.copy.spec.ref][<<"arr", w.cur>>] = NoKey,
           \A p \in Prowlarrs, c \in Configs :
              c.type # t /\ apps[p][<<"arr", c>>] = NoKey => apps'[p][<<"arr", c>>] = NoKey
    PROVE  /\ arr' \in [ArrTypes -> ArrPasses] /\ arr'[t] = w
           /\ \A u \in ArrTypes : u # t => arr'[u] = arr[u]
           /\ ArrHeld'
<1>1. arr \in [ArrTypes -> ArrPasses]
    BY DEF IInv, TypeOK
<1>2. /\ arr' \in [ArrTypes -> ArrPasses] /\ arr'[t] = w
      /\ \A u \in ArrTypes : u # t => arr'[u] = arr[u]
    BY <1>1
<1>3. ASSUME NEW u \in ArrTypes, u # t
      PROVE  /\ arr[u].pc # "idle" => arr[u].cur \in Configs /\ arr[u].cur.type = u
             /\ arr[u].fresh => arr[u].pc # "idle"
             /\ /\ arr[u].pc = "removeFinalizer" /\ arr[u].ok
                /\ arr[u].copy.spec.ref # NoRef
                => apps'[arr[u].copy.spec.ref][<<"arr", arr[u].cur>>] = NoKey
  <2>1. arr[u].copy.spec.ref \in Prowlarrs \cup {NoRef}
      BY <1>1, RefType DEF ArrPasses
  <2>2. /\ arr[u].pc # "idle" => arr[u].cur \in Configs /\ arr[u].cur.type = u
        /\ arr[u].fresh => arr[u].pc # "idle"
        /\ arr[u].pc = "removeFinalizer" /\ arr[u].ok /\ arr[u].copy.spec.ref # NoRef
           => apps[arr[u].copy.spec.ref][<<"arr", arr[u].cur>>] = NoKey
      BY DEF IInv, ArrHeld
  <2> QED
      BY <1>3, <2>1, <2>2
<1>4. ArrHeld'
    BY <1>2, <1>3 DEF ArrHeld
<1> QED
    BY <1>2, <1>4

\* A step of a worker that stores nothing and keeps its copy, or has just made
\* it from the cache.
LEMMA ArrReadInv ==
    ASSUME IInv, NEW t \in ArrTypes, NEW w \in ArrPasses, arr' = [arr EXCEPT ![t] = w],
           w.pc # "idle" => w.cur \in Configs /\ w.cur.type = t,
           w.fresh => w.pc # "idle" /\ w.copy = obj[w.cur],
           w.pc = "removeFinalizer" /\ w.ok /\ w.copy.spec.ref # NoRef
              => apps'[w.copy.spec.ref][<<"arr", w.cur>>] = NoKey,
           \A p \in Prowlarrs, c \in Configs :
              c.type # t /\ apps[p][<<"arr", c>>] = NoKey => apps'[p][<<"arr", c>>] = NoKey,
           \A p \in Prowlarrs, c \in Configs : Present(p, c) => Present(p, c)',
           apps' \in [Prowlarrs -> [AppNames -> Keys \cup {NoKey}]],
           touched' \subseteq touched,
           arrQueue' \subseteq Configs, arrTimer' \subseteq Configs,
           faults' \in 0..MaxFaults,
           UNCHANGED <<obj, cache, fresh, coQueue, coTimer, prow, coVars, edits, drifts>>
    PROVE  IInv'
<1> USE DEF coVars
<1>1. /\ arr' \in [ArrTypes -> ArrPasses] /\ arr'[t] = w
      /\ \A u \in ArrTypes : u # t => arr'[u] = arr[u]
      /\ ArrHeld'
    BY ArrReplace
<1>2. TypeOK'
  <2>1. ASSUME NEW u \in ArrTypes, arr'[u].fresh
        PROVE  arr'[u].copy = obj'[arr'[u].cur]
    <3>1. CASE u = t
        BY <1>1, <2>1, <3>1
    <3>2. CASE u # t
        BY <1>1, <2>1, <3>2 DEF IInv, TypeOK
    <3> QED
        BY <3>1, <3>2
  <2> QED
      BY <1>1, <2>1 DEF IInv, TypeOK
<1>3. CoHeld'
    BY CoFrame DEF IInv
<1>4. RecordsTrue'
    BY RecordsFrame DEF IInv
<1>5. GenerationsHeld'
    BY DEF IInv, GenerationsHeld
<1> QED
    BY <1>1, <1>2, <1>3, <1>4, <1>5 DEF IInv

\* A registration writes a key, an unregistration takes one away; of records
\* only the latter could make one wrong, and it is about other applications.
LEMMA RegisterFacts ==
    ASSUME TypeOK, NEW p \in Prowlarrs, NEW a \in AppNames, NEW key \in Keys, NEW out,
           Register(p, a, key, out)
    PROVE  /\ apps' \in [Prowlarrs -> [AppNames -> Keys \cup {NoKey}]]
           /\ touched' \subseteq touched
           /\ \A q \in Prowlarrs, b \in AppNames : <<q, b>> # <<p, a>> => apps'[q][b] = apps[q][b]
           /\ \A q \in Prowlarrs, c \in Configs : Present(q, c) => Present(q, c)'
           /\ out # "lost" => apps'[p][a] = key
<1>1. apps \in [Prowlarrs -> [AppNames -> Keys \cup {NoKey}]]
    BY DEF TypeOK
<1>2. \A c \in Configs : <<"pull", c>> \in AppNames
    BY DEF AppNames
<1>3. CASE out = "lost"
    BY <1>1, <1>3 DEF Register, Present
<1>4. CASE out # "lost"
  <2>1. apps' = [apps EXCEPT ![p][a] = key] /\ touched' = touched \ {<<p, a>>}
      BY <1>4 DEF Register
  <2>2. /\ apps' \in [Prowlarrs -> [AppNames -> Keys \cup {NoKey}]]
        /\ \A q \in Prowlarrs, b \in AppNames :
              apps'[q][b] = IF <<q, b>> = <<p, a>> THEN key ELSE apps[q][b]
      BY <1>1, <2>1
  <2>3. key # NoKey
      BY KeysAssumption
  <2>4. ASSUME NEW q \in Prowlarrs, NEW c \in Configs, Present(q, c)
        PROVE  Present(q, c)'
      BY <1>2, <2>1, <2>2, <2>3, <2>4 DEF Present
  <2> QED
      BY <2>1, <2>2, <2>4
<1> QED
    BY <1>3, <1>4

\* What unregistering leaves in Prowlarr.
LEMMA UnregisterFacts ==
    ASSUME TypeOK, NEW p \in Prowlarrs, NEW d \in Configs, NEW out,
           Unregister(p, <<"arr", d>>, out)
    PROVE  /\ apps' \in [Prowlarrs -> [AppNames -> Keys \cup {NoKey}]]
           /\ touched' = touched
           /\ \A q \in Prowlarrs, c \in Configs :
                 apps[q][<<"arr", c>>] = NoKey => apps'[q][<<"arr", c>>] = NoKey
           /\ \A q \in Prowlarrs, c \in Configs : Present(q, c) => Present(q, c)'
           /\ out # "lost" => apps'[p][<<"arr", d>>] = NoKey
<1>1. apps \in [Prowlarrs -> [AppNames -> Keys \cup {NoKey}]]
    BY DEF TypeOK
<1>2. \A c \in Configs : /\ <<"pull", c>> \in AppNames /\ <<"arr", c>> \in AppNames
                         /\ <<"pull", c>> # <<"arr", d>>
    BY DEF AppNames
<1>3. CASE out = "lost"
    BY <1>1, <1>3 DEF Unregister, Present
<1>4. CASE out # "lost"
  <2>1. apps' = [apps EXCEPT ![p][<<"arr", d>>] = NoKey] /\ touched' = touched
      BY <1>4 DEF Unregister
  <2>2. /\ apps' \in [Prowlarrs -> [AppNames -> Keys \cup {NoKey}]]
        /\ \A q \in Prowlarrs, b \in AppNames :
              apps'[q][b] = IF q = p /\ b = <<"arr", d>> THEN NoKey ELSE apps[q][b]
      BY <1>1, <1>2, <2>1
  <2>3. ASSUME NEW q \in Prowlarrs, NEW c \in Configs, Present(q, c)
        PROVE  Present(q, c)'
      BY <1>2, <2>1, <2>2, <2>3 DEF Present
  <2> QED
      BY <1>2, <2>1, <2>2, <2>3
<1> QED
    BY <1>3, <1>4

\* The reconciler of an app reads its configuration from the cache.
LEMMA ArrFetchInv ==
    ASSUME IInv, NEW c \in Configs, ArrFetch(c)
    PROVE  IInv'
<1> DEFINE w == IF ~cache[c].exists THEN IdleArr
                ELSE [pc |-> CASE cache[c].deleting -> "unregister"
                               [] ~cache[c].deleting /\ ~cache[c].fin -> "addFinalizer"
                               [] OTHER -> "sync",
                      cur |-> c, copy |-> cache[c], fresh |-> c \in fresh, ok |-> TRUE]
<1>1. c.type \in ArrTypes /\ cache[c] \in Objects
    BY TypeOf DEF IInv, TypeOK
<1>2. (CASE cache[c].deleting -> "unregister"
         [] ~cache[c].deleting /\ ~cache[c].fin -> "addFinalizer"
         [] OTHER -> "sync") \in {"unregister", "addFinalizer", "sync"}
    OBVIOUS
<1>3. /\ w \in ArrPasses /\ w.pc # "removeFinalizer"
      /\ w.pc # "idle" => w.cur = c
      /\ w.fresh => w.pc # "idle" /\ w.copy = obj[w.cur]
  <2>1. CASE ~cache[c].exists
    <3>1. w = IdleArr
        BY <2>1
    <3>2. IdleArr.pc = "idle" /\ IdleArr.fresh = FALSE
        BY DEF IdleArr
    <3> QED
        BY <3>1, <3>2, NothingTypes
  <2>2. CASE cache[c].exists
    <3> DEFINE step == CASE cache[c].deleting -> "unregister"
                         [] ~cache[c].deleting /\ ~cache[c].fin -> "addFinalizer"
                         [] OTHER -> "sync"
    <3>1. step \in {"unregister", "addFinalizer", "sync"}
        BY <1>2
    <3> HIDE DEF step
    <3>2. w = [pc |-> step, cur |-> c, copy |-> cache[c], fresh |-> c \in fresh, ok |-> TRUE]
        BY <2>2 DEF step
    <3>3. c \in fresh => cache[c] = obj[c]
        BY DEF IInv, TypeOK
    <3> DEFINE known == c \in fresh
    <3>4. known \in BOOLEAN /\ (known => cache[c] = obj[c])
        BY <3>3
    <3>5. w = [pc |-> step, cur |-> c, copy |-> cache[c], fresh |-> known, ok |-> TRUE]
        BY <3>2
    <3> HIDE DEF w, known
    <3>6. w \in ArrPasses
        BY <1>1, <3>1, <3>4, <3>5 DEF ArrPasses
    <3>7. w.pc = step /\ w.cur = c /\ w.copy = cache[c] /\ w.fresh = known
        BY <3>5
    <3> QED
        BY <3>1, <3>4, <3>6, <3>7
  <2> QED
      BY <2>1, <2>2
<1>4. /\ arr' = [arr EXCEPT ![c.type] = w]
      /\ arrQueue' = arrQueue \ {c} /\ arrTimer' = arrTimer \ {c}
      /\ UNCHANGED <<obj, cache, fresh, coQueue, coTimer, prow, coVars, apps, touched,
                     bounds>>
    BY DEF ArrFetch
<1> HIDE DEF w
<1>5. arrQueue' \subseteq Configs /\ arrTimer' \subseteq Configs /\ faults' \in 0..MaxFaults
      /\ apps' \in [Prowlarrs -> [AppNames -> Keys \cup {NoKey}]]
    BY <1>4 DEF IInv, TypeOK, bounds
<1>6. \A p \in Prowlarrs, d \in Configs : Present(p, d) => Present(p, d)'
    BY <1>4 DEF Present
<1> QED
    BY <1>1, <1>3, <1>4, <1>5, <1>6, ArrReadInv DEF bounds

\* It syncs the app, and goes over to the registration if that worked.
LEMMA ArrSyncInv ==
    ASSUME IInv, NEW t \in ArrTypes, NEW out \in Reads, ArrSync(t, out)
    PROVE  IInv'
<1> DEFINE step == IF out = "ok" THEN "register" ELSE "status"
           fine == out = "ok"
           w == [arr[t] EXCEPT !.pc = step, !.ok = fine]
<1>1. arr[t] \in ArrPasses /\ arr[t].pc = "sync"
    BY DEF IInv, TypeOK, ArrSync
<1>2. arr' = [arr EXCEPT ![t] = w]
    BY <1>1 DEF ArrSync, IInv, TypeOK
<1>3. step \in {"register", "status"} /\ fine \in BOOLEAN
    OBVIOUS
<1> HIDE DEF step, fine
<1>4. /\ w \in ArrPasses /\ w.pc = step /\ w.cur = arr[t].cur /\ w.copy = arr[t].copy
      /\ w.fresh = arr[t].fresh
    BY <1>1, <1>3 DEF ArrPasses
<1> HIDE DEF w
<1>5. /\ arr[t].cur \in Configs /\ arr[t].cur.type = t
      /\ arr[t].fresh => arr[t].copy = obj[arr[t].cur]
    BY <1>1 DEF IInv, TypeOK, ArrHeld
<1>6. /\ Outcome(out)
      /\ UNCHANGED <<obj, cache, fresh, queues, prow, coVars, apps, touched, edits, drifts>>
    BY DEF ArrSync
<1>7. arrQueue' \subseteq Configs /\ arrTimer' \subseteq Configs /\ faults' \in 0..MaxFaults
      /\ apps' \in [Prowlarrs -> [AppNames -> Keys \cup {NoKey}]]
    BY <1>6, OutcomeType DEF IInv, TypeOK, queues
<1>8. \A p \in Prowlarrs, d \in Configs : Present(p, d) => Present(p, d)'
    BY <1>6 DEF Present
<1>9. w.fresh => w.pc # "idle" /\ w.copy = obj[w.cur]
    BY <1>3, <1>4, <1>5
<1> QED
    BY <1>2, <1>3, <1>4, <1>5, <1>6, <1>7, <1>8, <1>9, ArrReadInv DEF queues

\* It registers its app in the Prowlarr that the configuration names.
LEMMA HandleProwlarrRegistrationInv ==
    ASSUME IInv, NEW t \in ArrTypes, NEW out \in Writes, HandleProwlarrRegistration(t, out)
    PROVE  IInv'
<1> DEFINE c == arr[t].cur
           ref == arr[t].copy.spec.ref
           w == [arr[t] EXCEPT !.pc = "status"]
<1>1. arr[t] \in ArrPasses /\ arr[t].pc = "register"
    BY DEF IInv, TypeOK, HandleProwlarrRegistration
<1>2. arr' = [arr EXCEPT ![t] = w]
    BY <1>1 DEF HandleProwlarrRegistration, IInv, TypeOK
<1>3. /\ w \in ArrPasses /\ w.pc = "status" /\ w.cur = c /\ w.copy = arr[t].copy
      /\ w.fresh = arr[t].fresh
    BY <1>1 DEF ArrPasses
<1> HIDE DEF w
<1>4. /\ c \in Configs /\ c.type = t
      /\ arr[t].fresh => arr[t].copy = obj[c]
    BY <1>1 DEF IInv, TypeOK, ArrHeld
<1>5. /\ Outcome(out)
      /\ UNCHANGED <<obj, cache, fresh, queues, prow, coVars, edits, drifts>>
      /\ \/ ref # NoRef /\ Register(ref, <<"arr", c>>, OwnKey(c), out)
         \/ UNCHANGED <<apps, touched>>
    BY DEF HandleProwlarrRegistration
<1>6. arrQueue' \subseteq Configs /\ arrTimer' \subseteq Configs /\ faults' \in 0..MaxFaults
    BY <1>5, OutcomeType DEF IInv, TypeOK, queues
<1>7. /\ apps' \in [Prowlarrs -> [AppNames -> Keys \cup {NoKey}]]
      /\ touched' \subseteq touched
      /\ \A p \in Prowlarrs, d \in Configs :
            d.type # t /\ apps[p][<<"arr", d>>] = NoKey => apps'[p][<<"arr", d>>] = NoKey
      /\ \A p \in Prowlarrs, d \in Configs : Present(p, d) => Present(p, d)'
  <2>1. CASE ref # NoRef /\ Register(ref, <<"arr", c>>, OwnKey(c), out)
    <3>1. ref \in Prowlarrs
        BY <1>1, <2>1, RefType DEF ArrPasses
    <3>2. OwnKey(c) \in Keys /\ <<"arr", c>> \in AppNames
        BY <1>4 DEF Keys, AppNames
    <3>3. TypeOK
        BY DEF IInv
    <3> HIDE DEF c, ref
    <3>4. /\ apps' \in [Prowlarrs -> [AppNames -> Keys \cup {NoKey}]]
          /\ touched' \subseteq touched
          /\ \A q \in Prowlarrs, b \in AppNames :
                <<q, b>> # <<ref, <<"arr", c>>>> => apps'[q][b] = apps[q][b]
          /\ \A q \in Prowlarrs, d \in Configs : Present(q, d) => Present(q, d)'
        BY <2>1, <3>1, <3>2, <3>3, RegisterFacts
    <3>5. \A d \in Configs : <<"arr", d>> \in AppNames
        BY DEF AppNames
    <3>6. ASSUME NEW p \in Prowlarrs, NEW d \in Configs, d.type # t,
                 apps[p][<<"arr", d>>] = NoKey
          PROVE  apps'[p][<<"arr", d>>] = NoKey
      <4>1. d # c
          BY <1>4, <3>6
      <4> QED
          BY <3>4, <3>5, <3>6, <4>1
    <3> QED
        BY <3>4, <3>6
  <2>2. CASE UNCHANGED <<apps, touched>>
      BY <2>2 DEF IInv, TypeOK, Present
  <2> QED
      BY <1>5, <2>1, <2>2
<1>8. w.fresh => w.pc # "idle" /\ w.copy = obj[w.cur]
    BY <1>3, <1>4
<1> QED
    BY <1>2, <1>3, <1>4, <1>5, <1>6, <1>7, <1>8, ArrReadInv DEF queues

\* Whoever unregisters reports success only when no application is left.
LEMMA HandleProwlarrUnregistrationInv ==
    ASSUME IInv, NEW t \in ArrTypes, NEW out \in Writes,
           HandleProwlarrUnregistration(t, out)
    PROVE  IInv'
<1> DEFINE c == arr[t].cur
           ref == arr[t].copy.spec.ref
           fine == out # "lost" /\ (ref = NoRef \/ prow[ref].state # "gone")
           w == [arr[t] EXCEPT !.pc = "removeFinalizer", !.ok = fine]
<1>1. arr[t] \in ArrPasses /\ arr[t].pc = "unregister"
    BY DEF IInv, TypeOK, HandleProwlarrUnregistration
<1>2. arr' = [arr EXCEPT ![t] = w]
    BY <1>1 DEF HandleProwlarrUnregistration, IInv, TypeOK
<1>3. /\ w \in ArrPasses /\ w.pc = "removeFinalizer" /\ w.cur = c /\ w.copy = arr[t].copy
      /\ w.fresh = arr[t].fresh /\ w.ok = fine
    BY <1>1 DEF ArrPasses
<1>4. /\ c \in Configs /\ c.type = t
      /\ arr[t].fresh => arr[t].copy = obj[c]
    BY <1>1 DEF IInv, TypeOK, ArrHeld
<1>5. /\ Outcome(out)
      /\ UNCHANGED <<obj, cache, fresh, queues, prow, coVars, edits, drifts>>
      /\ \/ ref # NoRef /\ Unregister(ref, <<"arr", c>>, out)
         \/ (ref = NoRef \/ ~fine) /\ UNCHANGED <<apps, touched>>
    BY DEF HandleProwlarrUnregistration
<1>6. arrQueue' \subseteq Configs /\ arrTimer' \subseteq Configs /\ faults' \in 0..MaxFaults
    BY <1>5, OutcomeType DEF IInv, TypeOK, queues
<1> HIDE DEF w
<1>7. /\ apps' \in [Prowlarrs -> [AppNames -> Keys \cup {NoKey}]]
      /\ touched' \subseteq touched
      /\ \A p \in Prowlarrs, d \in Configs :
            apps[p][<<"arr", d>>] = NoKey => apps'[p][<<"arr", d>>] = NoKey
      /\ \A p \in Prowlarrs, d \in Configs : Present(p, d) => Present(p, d)'
      /\ fine /\ ref # NoRef => apps'[ref][<<"arr", c>>] = NoKey
  <2>1. CASE ref # NoRef /\ Unregister(ref, <<"arr", c>>, out)
    <3>1. ref \in Prowlarrs
        BY <1>1, <2>1, RefType DEF ArrPasses
    <3>2. TypeOK /\ (fine => out # "lost")
        BY DEF IInv
    <3> HIDE DEF c, ref, fine
    <3> QED
        BY <1>4, <2>1, <3>1, <3>2, UnregisterFacts
  <2>2. CASE (ref = NoRef \/ ~fine) /\ UNCHANGED <<apps, touched>>
    <3> HIDE DEF c, ref, fine
    <3> QED
        BY <2>2 DEF IInv, TypeOK, Present
  <2> QED
      BY <1>5, <2>1, <2>2
<1> HIDE DEF fine
<1>8. w.fresh => w.pc # "idle" /\ w.copy = obj[w.cur]
    BY <1>3, <1>4
<1>9. w.ok /\ w.copy.spec.ref # NoRef => apps'[w.copy.spec.ref][<<"arr", w.cur>>] = NoKey
    BY <1>3, <1>7
<1> QED
    BY <1>2, <1>3, <1>4, <1>5, <1>6, <1>7, <1>8, <1>9, ArrReadInv DEF queues

\* The last step of a pass: the configuration is written, with its record as
\* stored, or it is not.
LEMMA ArrStoresInv ==
    ASSUME IInv, NEW t \in ArrTypes, NEW o \in Objects, o.arrGen <= o.gen,
           o.reg \in {obj[arr[t].cur].reg, NoRecord},
           arr[t].pc # "idle", Store(arr[t].cur, o) \/ NoStore,
           NEW result, ArrEnds(t, result), NEW out, Outcome(out),
           UNCHANGED <<cache, prow, co, copies, apps, touched, edits, drifts>>
    PROVE  IInv'
<1> DEFINE c == arr[t].cur
<1>1. c \in Configs /\ c.type = t
    BY DEF IInv, ArrHeld
<1>2. /\ arr' = [arr EXCEPT ![t] = IdleArr] /\ UNCHANGED <<coQueue, coTimer>>
      /\ arrQueue' \subseteq Configs /\ arrTimer' \subseteq Configs
    BY <1>1 DEF ArrEnds, IInv, TypeOK
<1>3. IdleArr.pc = "idle" /\ IdleArr.fresh = FALSE
    BY DEF IdleArr
<1>4. /\ arr' \in [ArrTypes -> ArrPasses] /\ arr'[t] = IdleArr
      /\ \A u \in ArrTypes : u # t => arr'[u] = arr[u]
      /\ ArrHeld'
    BY <1>2, <1>3, NothingTypes, ArrReplace
<1>5. faults' \in 0..MaxFaults
    BY OutcomeType DEF IInv
<1> HIDE DEF c
<1>6. /\ obj' \in [Configs -> Objects]
      /\ fresh' \subseteq fresh /\ copyFresh' \subseteq copyFresh
      /\ \A d \in Configs : d # c => obj'[d] = obj[d]
      /\ obj'[c] = obj[c] \/ (obj'[c] = o /\ c \notin fresh' /\ c \notin copyFresh')
      /\ GenerationsHeld'
  <2>1. CASE Store(c, o)
      BY <1>1, <2>1, StoreFacts DEF IInv, Store
  <2>2. CASE NoStore
      BY <2>2 DEF NoStore, IInv, TypeOK, GenerationsHeld
  <2> QED
      BY <2>1, <2>2 DEF c
<1>7. TypeOK'
  <2>1. ASSUME NEW u \in ArrTypes, arr'[u].fresh
        PROVE  arr'[u].copy = obj'[arr'[u].cur]
    <3>1. u # t
        BY <1>3, <1>4, <2>1
    <3>2. arr'[u] = arr[u] /\ arr[u].fresh
        BY <1>4, <2>1, <3>1
    <3>3. arr[u].cur \in Configs /\ arr[u].cur.type = u /\ arr[u].copy = obj[arr[u].cur]
        BY <3>2 DEF IInv, TypeOK, ArrHeld
    <3>4. arr[u].cur # c
        BY <1>1, <3>1, <3>3
    <3> QED
        BY <1>6, <3>2, <3>3, <3>4
  <2>2. \A d \in fresh' : cache'[d] = obj'[d]
      BY <1>6 DEF IInv, TypeOK
  <2> QED
      BY <1>2, <1>4, <1>5, <1>6, <2>1, <2>2 DEF IInv, TypeOK
<1>8. CoHeld'
  <2>1. \A d \in copyFresh' : obj'[d] = obj[d]
      BY <1>6 DEF IInv, TypeOK
  <2> QED
      BY <1>6, <2>1, CoFrame DEF IInv
<1>9. RecordsTrue'
  <2>1. \A d \in Configs : obj'[d].reg \in {obj[d].reg, NoRecord}
      BY <1>6 DEF c
  <2> QED
      BY <2>1, RecordsFrame DEF IInv, Present
<1> QED
    BY <1>4, <1>6, <1>7, <1>8, <1>9 DEF IInv

\* It stores the finalizer.
LEMMA ArrAddFinalizerInv ==
    ASSUME IInv, NEW t \in ArrTypes, NEW out \in Writes, ArrAddFinalizer(t, out)
    PROVE  IInv'
<1> DEFINE c == arr[t].cur
           o == [obj[c] EXCEPT !.fin = TRUE]
<1>1. arr[t].pc # "idle" /\ c \in Configs
    BY DEF ArrAddFinalizer, IInv, ArrHeld
<1>2. obj[c] \in Objects /\ obj[c].arrGen <= obj[c].gen
    BY <1>1 DEF IInv, TypeOK, GenerationsHeld
<1>3. o \in Objects /\ o.arrGen <= o.gen /\ o.reg = obj[c].reg
    BY <1>2 DEF Objects
<1>4. /\ Store(c, o) \/ NoStore
      /\ ArrEnds(t, "requeue") /\ Outcome(out)
      /\ UNCHANGED <<cache, prow, co, copies, apps, touched, edits, drifts>>
    BY DEF ArrAddFinalizer
<1> HIDE DEF o
<1> QED
    BY <1>1, <1>3, <1>4, ArrStoresInv

\* A copy that may be written is the stored object, record included.
LEMMA ArrUpdateStatusInv ==
    ASSUME IInv, NEW t \in ArrTypes, NEW out \in Writes, ArrUpdateStatus(t, out)
    PROVE  IInv'
<1> DEFINE c == arr[t].cur
           new == [obj[c] EXCEPT !.arrGen = arr[t].copy.gen, !.reg = arr[t].copy.reg]
           written == arr[t].fresh /\ out # "lost"
           result == IF written /\ out = "ok" /\ arr[t].ok THEN "after" ELSE "requeue"
<1>1. arr[t].pc # "idle" /\ c \in Configs
    BY DEF ArrUpdateStatus, IInv, ArrHeld
<1>2. obj[c] \in Objects /\ obj[c].arrGen <= obj[c].gen /\ obj[c].gen \in Nat
    BY <1>1, RefType DEF IInv, TypeOK, GenerationsHeld
<1>3. /\ (written /\ Store(c, new)) \/ NoStore
      /\ ArrEnds(t, result) /\ Outcome(out)
      /\ UNCHANGED <<cache, prow, co, copies, apps, touched, edits, drifts>>
    BY DEF ArrUpdateStatus
<1> HIDE DEF result
<1>4. CASE written /\ Store(c, new)
  <2>1. arr[t].copy = obj[c]
      BY <1>4 DEF IInv, TypeOK
  <2>2. new \in Objects /\ new.arrGen <= new.gen /\ new.reg = obj[c].reg
    <3> DEFINE x == obj[c]
               g == x.gen
               r == x.reg
    <3>1. new = [x EXCEPT !.arrGen = g, !.reg = r]
        BY <2>1
    <3>2. x \in Objects /\ g \in Nat /\ r \in Records /\ x.gen = g
        BY <1>2, RefType
    <3> HIDE DEF new, x, g, r
    <3>3. new \in Objects /\ new.arrGen = g /\ new.gen = g /\ new.reg = r
        BY <3>1, <3>2 DEF Objects
    <3> QED
        BY <3>2, <3>3 DEF r, x
  <2> HIDE DEF new
  <2> QED
      BY <1>1, <1>3, <1>4, <2>2, ArrStoresInv
<1>5. CASE NoStore
    BY <1>1, <1>2, <1>3, <1>5, ArrStoresInv
<1> QED
    BY <1>3, <1>4, <1>5

\* It lets a deleted configuration go.
LEMMA ArrRemoveFinalizerInv ==
    ASSUME IInv, NEW t \in ArrTypes, NEW out \in Writes, ArrRemoveFinalizer(t, out)
    PROVE  IInv'
<1> DEFINE result == IF arr[t].fresh /\ out # "lost" /\ out = "ok" THEN "done" ELSE "requeue"
<1>1. arr[t].pc # "idle"
    BY DEF ArrRemoveFinalizer
<1>2. /\ Store(arr[t].cur, NoObject) \/ NoStore
      /\ ArrEnds(t, result) /\ Outcome(out)
      /\ UNCHANGED <<cache, prow, co, copies, apps, touched, edits, drifts>>
    BY DEF ArrRemoveFinalizer
<1> HIDE DEF result
<1> QED
    BY <1>1, <1>2, NothingTypes, ArrStoresInv

(***************************************************************************)
(* The coordinator.                                                        *)
(***************************************************************************)
LEMMA CoFetchInv ==
    ASSUME IInv, NEW p \in Prowlarrs, NEW out \in Reads, CoFetch(p, out)
    PROVE  IInv'
<1> DEFINE started == [IdleCo EXCEPT !.pc = "list", !.p = p, !.push = prow[p].push,
                                     !.types = ArrTypes]
<1>1. /\ IdleCo.items = {} /\ IdleCo.pc = "idle"
      /\ started \in CoPasses /\ started.pc = "list" /\ started.p = p
      /\ started.items = {}
  <2>1. prow[p].push \in SUBSET Configs /\ IdleCo \in CoPasses /\ IdleCo.items = {}
        /\ IdleCo.pc = "idle"
      BY NothingTypes DEF IInv, TypeOK, IdleCo
  <2> QED
      BY <2>1 DEF CoPasses
<1>2. co' \in {started, IdleCo}
    BY DEF CoFetch
<1> HIDE DEF started
<1>3. /\ co' \in CoPasses /\ co'.items = {} /\ co'.pc # "status"
      /\ co'.pc # "idle" => co'.p \in Prowlarrs
    BY <1>1, <1>2, NothingTypes
<1>4. /\ Outcome(out)
      /\ coQueue' \subseteq Prowlarrs /\ coTimer' \subseteq Prowlarrs
      /\ UNCHANGED <<obj, cache, fresh, arrQueue, arrTimer, prow, arr, copies, copyFresh,
                     apps, touched, edits, drifts>>
    BY DEF CoFetch, IInv, TypeOK
<1>5. faults' \in 0..MaxFaults
    BY <1>4, OutcomeType DEF IInv
<1>6. TypeOK'
    BY <1>3, <1>4, <1>5 DEF IInv, TypeOK
<1>7. ArrHeld' /\ GenerationsHeld'
    BY <1>4, ArrFrame DEF IInv, GenerationsHeld
<1>8. CoHeld'
    BY <1>3 DEF CoHeld, InHand
<1>9. RecordsTrue'
    BY <1>4, RecordsFrame DEF IInv, Present
<1> QED
    BY <1>6, <1>7, <1>8, <1>9 DEF IInv

\* The coordinator lists the configurations of a type.
LEMMA CoListInv ==
    ASSUME IInv, NEW out \in Reads, CoList(out)
    PROVE  IInv'
<1> DEFINE items == {c \in Configs : c.type = FirstOf(co.types) /\ cache[c].exists}
           listed == IF out = "ok" THEN items ELSE {}
           step == IF out = "ok" /\ items # {} THEN "process" ELSE "list"
           next == [co EXCEPT !.types = co.types \ {FirstOf(co.types)},
                              !.items = listed, !.pc = step]
<1>1. /\ co.pc = "list" /\ Outcome(out)
      /\ co' = next
      /\ copies' = [c \in Configs |-> IF out = "ok" /\ c \in items THEN cache[c]
                                      ELSE NoObject]
      /\ copyFresh' = IF out = "ok" THEN items \cap fresh ELSE {}
      /\ UNCHANGED <<obj, cache, fresh, queues, prow, arr, apps, touched, edits, drifts>>
    BY DEF CoList
<1>2. listed \subseteq Configs /\ step \in {"process", "list"}
    OBVIOUS
<1>3. /\ copyFresh' \subseteq Configs /\ copies' \in [Configs -> Objects]
      /\ \A c \in Configs : copies'[c].reg \in {cache[c].reg, NoRecord}
      /\ \A c \in copyFresh' : copies'[c] = obj[c]
  <2> HIDE DEF items
  <2>1. items \subseteq Configs
      BY DEF items
  <2>2. cache \in [Configs -> Objects] /\ \A c \in fresh : cache[c] = obj[c]
      BY DEF IInv, TypeOK
  <2> QED
      BY <1>1, <2>1, <2>2, NothingTypes
<1> HIDE DEF items, listed, step
<1>4. /\ co' \in CoPasses /\ co'.pc = step /\ co'.p = co.p
  <2>1. co \in CoPasses
      BY DEF IInv, TypeOK
  <2> QED
      BY <1>1, <1>2, <2>1 DEF CoPasses
<1> HIDE DEF next
<1>5. faults' \in 0..MaxFaults
    BY <1>1, OutcomeType DEF IInv
<1>6. TypeOK'
    BY <1>1, <1>3, <1>4, <1>5 DEF IInv, TypeOK, queues
<1>7. ArrHeld' /\ GenerationsHeld'
    BY <1>1, ArrFrame DEF IInv, GenerationsHeld
<1>8. CoHeld'
  <2>1. ASSUME NEW c \in copyFresh'
        PROVE  copies'[c] = [obj'[c] EXCEPT !.reg = copies'[c].reg]
    <3>1. copies'[c] = obj'[c] /\ obj'[c] \in Objects
        BY <1>1, <1>3 DEF IInv, TypeOK
    <3> QED
        BY <3>1 DEF Objects
  <2> QED
      BY <1>1, <1>2, <1>4, <2>1 DEF IInv, CoHeld
<1>9. RecordsTrue'
    BY <1>1, <1>3, RecordsFrame DEF IInv, Present
<1> QED
    BY <1>6, <1>7, <1>8, <1>9 DEF IInv

\* A key that is found is a key.
LEMMA ResolvedKey ==
    ASSUME NEW c \in Configs, NEW out
    PROVE  ResolveSecretValue(c, out) \in Keys \cup {NoKey}
<1>1. c.type \in Types /\ c.name \in {d.name : d \in Configs}
    BY ConfigsAssumption
<1>2. SecretKey[c.type] \in Keys \cup {NoKey} /\ SecretKey[c.name] \in Keys \cup {NoKey}
    BY <1>1, KeysAssumption
<1> QED
    BY <1>2 DEF ResolveSecretValue

\* Nothing is registered without a key.
LEMMA VerdictKey ==
    ASSUME NEW c \in Configs, NEW key, Verdict(c, key) = "register"
    PROVE  key # NoKey
<1>1. CASE copies[c].spec.ref = NoRef
    BY <1>1 DEF Verdict
<1>2. CASE copies[c].spec.ref \notin {NoRef, co.p}
    BY <1>2 DEF Verdict
<1>3. CASE copies[c].spec.ref # NoRef /\ copies[c].spec.ref = co.p
    BY <1>3 DEF Verdict
<1> QED
    BY <1>1, <1>2, <1>3

\* A record is left as it was, emptied, or says what this pass has done.
LEMMA RecordCases ==
    ASSUME NEW c \in Configs, NEW verdict, NEW registered
    PROVE  Record(c, verdict, registered)
              \in {copies[c].reg, NoRecord, [registered |-> registered, prowlarr |-> co.p]}
<1>1. CASE verdict = "other"
    BY <1>1 DEF Record
<1>2. CASE verdict = "noRef"
    BY <1>2 DEF Record
<1>3. CASE verdict # "other" /\ verdict # "noRef"
    BY <1>3 DEF Record
<1> QED
    BY <1>1, <1>2, <1>3

\* It registers an app that it listed.
LEMMA ProcessAppConfigInv ==
    ASSUME IInv, NEW c \in Configs, NEW out, ProcessAppConfig(c, out)
    PROVE  IInv'
<1> DEFINE key == ResolveSecretValue(c, out)
           verdict == Verdict(c, key)
           registered == verdict = "register" /\ out \notin {"lost", "late"}
           rec == Record(c, verdict, registered)
           errs == \/ co.errs \/ verdict \in {"conflict", "noKey"}
                   \/ (verdict = "register" /\ ~registered)
           next == [co EXCEPT !.pc = "status", !.cur = c, !.items = co.items \ {c},
                              !.errs = errs]
<1>1. /\ co.pc = "process" /\ c \in co.items /\ Outcome(out)
      /\ \/ verdict = "register" /\ Register(co.p, <<"pull", c>>, key, out)
         \/ verdict # "register" /\ UNCHANGED <<apps, touched>>
      /\ copies' = [copies EXCEPT ![c].reg = rec]
      /\ UNCHANGED <<obj, cache, fresh, copyFresh, queues, prow, arr, edits, drifts>>
    BY DEF ProcessAppConfig
<1>2. co' = next
    BY DEF ProcessAppConfig
<1>3. co.p \in Prowlarrs /\ co \in CoPasses /\ TypeOK
    BY <1>1 DEF IInv, TypeOK, CoHeld
<1>4. key \in Keys \cup {NoKey} /\ (verdict = "register" => key # NoKey)
    BY ResolvedKey, VerdictKey
<1>5. /\ registered \in BOOLEAN /\ errs \in BOOLEAN
      /\ registered => verdict = "register" /\ out # "lost"
    BY <1>3 DEF CoPasses
<1>6. rec \in {copies[c].reg, NoRecord, [registered |-> registered, prowlarr |-> co.p]}
    BY RecordCases
<1> HIDE DEF key, verdict, registered, rec, errs
<1>7. /\ apps' \in [Prowlarrs -> [AppNames -> Keys \cup {NoKey}]]
      /\ touched' \subseteq touched
      /\ \A q \in Prowlarrs, d \in Configs : Present(q, d) => Present(q, d)'
      /\ \A q \in Prowlarrs, d \in Configs : apps'[q][<<"arr", d>>] = apps[q][<<"arr", d>>]
      /\ registered => apps'[co.p][<<"pull", c>>] # NoKey
  <2>1. \A d \in Configs : /\ <<"arr", d>> \in AppNames /\ <<"pull", d>> \in AppNames
                           /\ <<"arr", d>> # <<"pull", c>>
      BY DEF AppNames
  <2>2. CASE verdict = "register" /\ Register(co.p, <<"pull", c>>, key, out)
    <3> DEFINE p == co.p
               a == <<"pull", c>>
    <3>1. /\ TypeOK /\ key \in Keys /\ p \in Prowlarrs /\ a \in AppNames
          /\ Register(p, a, key, out)
        BY <1>3, <1>4, <2>1, <2>2
    <3> HIDE DEF p, a, next
    <3>2. /\ apps' \in [Prowlarrs -> [AppNames -> Keys \cup {NoKey}]]
          /\ touched' \subseteq touched
          /\ \A q \in Prowlarrs, b \in AppNames :
                <<q, b>> # <<p, a>> => apps'[q][b] = apps[q][b]
          /\ \A q \in Prowlarrs, d \in Configs : Present(q, d) => Present(q, d)'
          /\ out # "lost" => apps'[p][a] = key
        BY <3>1, RegisterFacts
    <3> QED
        BY <1>4, <1>5, <2>1, <2>2, <3>2 DEF p, a
  <2>3. CASE verdict # "register" /\ UNCHANGED <<apps, touched>>
      BY <1>5, <2>3 DEF IInv, TypeOK, Present
  <2> QED
      BY <1>1, <2>2, <2>3
<1>8. copies[c] \in Objects /\ rec \in Records
  <2>1. copies[c] \in Objects
      BY DEF IInv, TypeOK
  <2>2. copies[c].reg \in Records /\ NoRecord \in Records
      BY <2>1, RefType, NothingTypes
  <2>3. [registered |-> registered, prowlarr |-> co.p] \in Records
      BY <1>3, <1>5 DEF Records
  <2> QED
      BY <1>6, <2>1, <2>2, <2>3
<1>9. /\ copies' \in [Configs -> Objects]
      /\ copies'[c] = [copies[c] EXCEPT !.reg = rec]
      /\ \A d \in Configs : d # c => copies'[d] = copies[d]
  <2>1. copies \in [Configs -> Objects]
      BY DEF IInv, TypeOK
  <2>2. [copies[c] EXCEPT !.reg = rec] \in Objects
      BY <1>8 DEF Objects
  <2>3. copies' = [copies EXCEPT ![c] = [copies[c] EXCEPT !.reg = rec]]
      BY <1>1
  <2> QED
      BY <2>1, <2>2, <2>3
<1>10. copies'[c].reg = rec
    BY <1>8, <1>9 DEF Objects
<1>11. /\ co' \in CoPasses /\ co'.pc = "status" /\ co'.cur = c /\ co'.p = co.p
       /\ co'.items = co.items \ {c}
    BY <1>2, <1>3, <1>5 DEF CoPasses
<1> HIDE DEF next
<1>12. TypeOK'
  <2>1. faults' \in 0..MaxFaults
      BY <1>1, <1>3, OutcomeType
  <2> QED
      BY <1>1, <1>7, <1>9, <1>11, <2>1 DEF IInv, TypeOK, queues
<1>13. ArrHeld' /\ GenerationsHeld'
    BY <1>1, <1>7, ArrFrame DEF IInv, GenerationsHeld
<1>14. CoHeld'
  <2>1. ASSUME NEW d \in copyFresh, d = c \/ d \in co.items
        PROVE  copies'[d] = [obj[d] EXCEPT !.reg = copies'[d].reg]
    <3>1. copies[d] = [obj[d] EXCEPT !.reg = copies[d].reg]
        BY <1>1, <2>1 DEF IInv, CoHeld, InHand
    <3>2. d \in Configs /\ obj[d] \in Objects
        BY DEF IInv, TypeOK
    <3>3. CASE d = c
      <4>1. copies'[c] = [[obj[c] EXCEPT !.reg = copies[c].reg] EXCEPT !.reg = rec]
          BY <1>9, <3>1, <3>3
      <4> QED
          BY <1>10, <3>2, <3>3, <4>1 DEF Objects
    <3>4. CASE d # c
        BY <1>9, <3>1, <3>2, <3>4
    <3> QED
        BY <3>3, <3>4
  <2> QED
      BY <1>1, <1>3, <1>11, <2>1 DEF CoHeld, InHand
<1>15. RecordsTrue'
  <2>1. ASSUME NEW d \in Configs
        PROVE  RecordTrue(obj[d].reg, d)' /\ RecordTrue(cache[d].reg, d)'
               /\ (RecordTrue(copies[d].reg, d) => (d # c => RecordTrue(copies[d].reg, d)'))
      BY <1>1, <1>7, <1>9 DEF IInv, RecordsTrue, RecordTrue
  <2>2. rec.registered =>
           /\ rec.prowlarr \in Prowlarrs
           /\ \/ apps'[rec.prowlarr][<<"pull", c>>] # NoKey
              \/ <<rec.prowlarr, <<"pull", c>>>> \in touched'
    <3>1. CASE rec = copies[c].reg
      <4>1. rec.registered => rec.prowlarr \in Prowlarrs /\ Present(rec.prowlarr, c)
          BY <3>1 DEF IInv, RecordsTrue, RecordTrue
      <4>2. \A q \in Prowlarrs : Present(q, c) =>
               apps'[q][<<"pull", c>>] # NoKey \/ <<q, <<"pull", c>>>> \in touched'
          BY <1>7 DEF Present
      <4> QED
          BY <4>1, <4>2
    <3>2. CASE rec = NoRecord
        BY <3>2 DEF NoRecord
    <3>3. CASE rec = [registered |-> registered, prowlarr |-> co.p]
        BY <1>3, <1>7, <3>3
    <3> QED
        BY <1>6, <3>1, <3>2, <3>3
  <2>3. RecordTrue(copies[c].reg, c)'
      BY <1>10, <2>2 DEF RecordTrue, Present
  <2> QED
      BY <2>1, <2>3 DEF IInv, RecordsTrue
<1> QED
    BY <1>12, <1>13, <1>14, <1>15 DEF IInv

\* What is stored of a fresh copy is its record.
LEMMA FreshCopyRecord ==
    ASSUME IInv, co.pc = "status", co.cur \in copyFresh
    PROVE  LET c == co.cur
           IN  [obj[c] EXCEPT !.arrGen = copies[c].arrGen, !.reg = copies[c].reg]
                  = [obj[c] EXCEPT !.reg = copies[c].reg]
<1> DEFINE c == co.cur
           x == obj[c]
           r == copies[c].reg
<1>1. copies[c] = [x EXCEPT !.reg = r] /\ x \in Objects
    BY DEF IInv, TypeOK, CoHeld, InHand
<1>2. copies[c].arrGen = x.arrGen
    BY <1>1 DEF Objects
<1> HIDE DEF x, r
<1>3. [x EXCEPT !.arrGen = x.arrGen, !.reg = r] = [x EXCEPT !.reg = r]
    BY <1>1 DEF Objects
<1> QED
    BY <1>2, <1>3 DEF x, r

\* It records the registration in the status of that configuration.
LEMMA CoUpdateStatusInv ==
    ASSUME IInv, NEW out \in Writes, CoUpdateStatus(out)
    PROVE  IInv'
<1> DEFINE c == co.cur
           r == copies[c].reg
           new == [obj[c] EXCEPT !.reg = r]
           step == IF co.items = {} THEN "list" ELSE "process"
<1>1. /\ co.pc = "status" /\ Outcome(out)
      /\ copies' = [copies EXCEPT ![c] = NoObject]
      /\ co' = [co EXCEPT !.cur = NoConfig, !.pc = step]
      /\ UNCHANGED <<cache, queues, prow, apps, touched, edits, drifts>>
    BY DEF CoUpdateStatus
<1>2. /\ c \in Configs /\ c \notin co.items /\ co.p \in Prowlarrs /\ co \in CoPasses
      /\ obj[c] \in Objects /\ copies[c] \in Objects
    BY <1>1 DEF IInv, TypeOK, CoHeld
<1>3. \/ Store(c, new) /\ arr' = ArrOutdated(c)
      \/ NoStore /\ UNCHANGED arr
    BY <1>1, FreshCopyRecord DEF CoUpdateStatus
<1>4. new \in Objects /\ new.arrGen <= new.gen /\ new.reg = r
  <2>1. r \in Records
      BY <1>2, RefType
  <2>2. obj[c].arrGen <= obj[c].gen
      BY <1>2 DEF IInv, GenerationsHeld
  <2> HIDE DEF r
  <2> QED
      BY <1>2, <2>1, <2>2 DEF Objects
<1> HIDE DEF new
<1>5. /\ obj' \in [Configs -> Objects]
      /\ fresh' \subseteq fresh /\ copyFresh' \subseteq copyFresh
      /\ \A d \in Configs : d # c => obj'[d] = obj[d]
      /\ obj'[c].reg \in {obj[c].reg, r}
      /\ \A d \in fresh' : obj'[d] = obj[d]
      /\ GenerationsHeld'
      /\ arr' \in [ArrTypes -> ArrPasses]
      /\ \A t \in ArrTypes :
            /\ arr'[t].pc = arr[t].pc /\ arr'[t].cur = arr[t].cur
            /\ arr'[t].copy = arr[t].copy /\ arr'[t].ok = arr[t].ok
            /\ arr'[t].fresh => arr[t].fresh /\ obj'[arr[t].cur] = obj[arr[t].cur]
  <2>1. CASE Store(c, new) /\ arr' = ArrOutdated(c)
    <3> HIDE DEF c
    <3>1. /\ obj' \in [Configs -> Objects]
          /\ fresh' \subseteq Configs /\ copyFresh' \subseteq copyFresh
          /\ obj'[c] = new /\ c \notin fresh' /\ c \notin copyFresh'
          /\ \A d \in Configs : d # c => obj'[d] = obj[d]
          /\ GenerationsHeld'
        BY <1>2, <1>4, <2>1, StoreFacts DEF IInv
    <3>2. /\ arr' \in [ArrTypes -> ArrPasses]
          /\ \A t \in ArrTypes :
                /\ arr'[t].pc = arr[t].pc /\ arr'[t].cur = arr[t].cur
                /\ arr'[t].copy = arr[t].copy /\ arr'[t].ok = arr[t].ok
                /\ arr'[t].fresh => arr[t].fresh /\ arr[t].cur # c
        BY <1>2, <2>1, OutdatedType DEF IInv
    <3>3. ASSUME NEW t \in ArrTypes, arr'[t].fresh
          PROVE  arr[t].fresh /\ obj'[arr[t].cur] = obj[arr[t].cur]
      <4>1. arr[t].fresh /\ arr[t].cur # c
          BY <3>2, <3>3
      <4>2. arr[t].cur \in Configs
          BY <4>1 DEF IInv, ArrHeld
      <4> QED
          BY <3>1, <4>1, <4>2
    <3>4. fresh' \subseteq fresh
        BY <2>1 DEF Store
    <3> QED
        BY <1>4, <3>1, <3>2, <3>3, <3>4
  <2>2. CASE NoStore /\ UNCHANGED arr
      BY <2>2 DEF NoStore, IInv, TypeOK, GenerationsHeld
  <2> QED
      BY <1>3, <2>1, <2>2
<1>6. /\ co' \in CoPasses /\ co'.pc \in {"list", "process"} /\ co'.items = co.items
      /\ co'.p = co.p
    BY <1>1, <1>2 DEF CoPasses
<1> HIDE DEF c, r
<1>7. /\ copies' \in [Configs -> Objects] /\ copies'[c] = NoObject
      /\ \A d \in Configs : d # c => copies'[d] = copies[d]
    BY <1>1, <1>2, NothingTypes DEF IInv, TypeOK
<1>8. TypeOK'
  <2>1. faults' \in 0..MaxFaults
      BY <1>1, OutcomeType DEF IInv
  <2>2. ASSUME NEW t \in ArrTypes, arr'[t].fresh
        PROVE  arr'[t].copy = obj'[arr'[t].cur]
    <3>1. arr[t].fresh /\ obj'[arr[t].cur] = obj[arr[t].cur]
        BY <1>5, <2>2
    <3>2. arr[t].copy = obj[arr[t].cur]
        BY <3>1 DEF IInv, TypeOK
    <3> QED
        BY <1>5, <3>1, <3>2
  <2>3. \A d \in fresh' : cache'[d] = obj'[d]
      BY <1>1, <1>5 DEF IInv, TypeOK
  <2> QED
      BY <1>1, <1>5, <1>6, <1>7, <2>1, <2>2, <2>3 DEF IInv, TypeOK, queues
<1>9. ArrHeld'
    BY <1>1, <1>5, ArrFrame DEF IInv
<1>10. CoHeld'
  <2>1. ASSUME NEW d \in copyFresh', d \in co.items
        PROVE  copies'[d] = [obj'[d] EXCEPT !.reg = copies'[d].reg]
    <3>1. d \in Configs /\ d # c /\ d \in copyFresh
        BY <1>2, <1>5, <2>1 DEF IInv, TypeOK
    <3>2. copies[d] = [obj[d] EXCEPT !.reg = copies[d].reg]
        BY <2>1, <3>1 DEF IInv, CoHeld, InHand
    <3> QED
        BY <1>5, <1>7, <3>1, <3>2
  <2> QED
      BY <1>2, <1>6, <2>1 DEF CoHeld, InHand
<1>11. RecordsTrue'
  <2>1. \A d \in Configs : obj'[d].reg \in {obj[d].reg, copies[d].reg}
      BY <1>5 DEF r
  <2>2. \A d \in Configs : copies'[d].reg \in {copies[d].reg, NoRecord}
      BY <1>7, NothingTypes
  <2> QED
      BY <1>1, <2>1, <2>2, RecordsFrame DEF IInv, Present
<1> QED
    BY <1>5, <1>8, <1>9, <1>10, <1>11 DEF IInv

\* It is through with the types.
LEMMA CoDoneInv ==
    ASSUME IInv, CoDone
    PROVE  IInv'
<1>1. IdleCo \in CoPasses /\ IdleCo.pc = "idle"
    BY NothingTypes DEF IdleCo
<1>2. co.p \in Prowlarrs
    BY DEF CoDone, IInv, CoHeld
<1>3. TypeOK'
    BY <1>1, <1>2 DEF CoDone, IInv, TypeOK, bounds
<1>4. ArrHeld' /\ GenerationsHeld'
    BY ArrFrame DEF CoDone, IInv, GenerationsHeld
<1>5. CoHeld'
    BY <1>1 DEF CoDone, CoHeld
<1>6. RecordsTrue'
    BY RecordsFrame DEF CoDone, IInv, Present
<1> QED
    BY <1>3, <1>4, <1>5, <1>6 DEF IInv

\* The process restarts and forgets its passes.
LEMMA RestartInv ==
    ASSUME IInv, Restart
    PROVE  IInv'
<1>1. IdleCo \in CoPasses /\ IdleCo.pc = "idle"
    BY NothingTypes DEF IdleCo
<1>2. /\ arr' \in [ArrTypes -> ArrPasses]
      /\ \A t \in ArrTypes : arr'[t].pc = "idle" /\ arr'[t].fresh = FALSE
    BY NothingTypes DEF Restart, IdleArr
<1>3. TypeOK'
  <2>1. faults' \in 0..MaxFaults
      BY BoundsAssumption DEF Restart, IInv, TypeOK
  <2> QED
      BY <1>1, <1>2, <2>1, NothingTypes DEF Restart, IInv, TypeOK
<1>4. ArrHeld' /\ GenerationsHeld'
    BY <1>2 DEF Restart, IInv, ArrHeld, GenerationsHeld
<1>5. CoHeld'
    BY <1>1 DEF Restart, CoHeld
<1>6. RecordsTrue'
    BY RecordsFrame, NothingTypes DEF Restart, IInv, Present
<1> QED
    BY <1>3, <1>4, <1>5, <1>6 DEF IInv

(***************************************************************************)
(* The theorems.                                                           *)
(***************************************************************************)

\* Every step keeps the invariant.
LEMMA NextInv == IInv /\ [Next]_vars => IInv'
<1> SUFFICES ASSUME IInv, [Next]_vars PROVE IInv'
    OBVIOUS
<1>1. CASE User
    BY <1>1, UserObjectInv, ProwlarrChangesInv, UserRemovesAppInv DEF User
<1>2. ASSUME NEW c \in Configs, CacheSync(c) PROVE IInv'
    BY <1>2, CacheSyncInv
<1>3. ASSUME NEW c \in Configs, ArrTimerFires(c) PROVE IInv'
    BY <1>3, QuietInv DEF IInv, TypeOK, ArrTimerFires, bounds
<1>4. ASSUME NEW p \in Prowlarrs, CoTimerFires(p) PROVE IInv'
    BY <1>4, QuietInv DEF IInv, TypeOK, CoTimerFires, bounds
<1>5. ASSUME NEW t \in ArrTypes, ArrWorker(t) PROVE IInv'
    BY <1>5, ArrFetchInv, ArrSyncInv, ArrAddFinalizerInv, HandleProwlarrRegistrationInv,
       ArrUpdateStatusInv, HandleProwlarrUnregistrationInv, ArrRemoveFinalizerInv
       DEF ArrWorker, ArrStep
<1>6. CASE CoWorker
    BY <1>6, CoFetchInv, CoListInv, ProcessAppConfigInv, CoUpdateStatusInv, CoDoneInv
       DEF CoWorker
<1>7. CASE Restart
    BY <1>7, RestartInv
<1>8. CASE UNCHANGED vars
    BY <1>8, QuietInv DEF IInv, TypeOK, vars, queues, bounds
<1> QED
    BY <1>1, <1>2, <1>3, <1>4, <1>5, <1>6, <1>7, <1>8 DEF Next

\* The invariant holds in every reachable state.
THEOREM Invariant == Spec => []IInv
BY InitInv, NextInv, PTL DEF Spec

\* Every variable of both controllers keeps its type, and a copy that passes
\* for the stored version of a configuration is that version.
THEOREM TypeCorrect == Spec => []TypeOK
<1>1. IInv => TypeOK
    BY DEF IInv
<1> QED
    BY <1>1, Invariant, PTL

\* A stored record that says "registered" is true, although it goes through
\* caches, copies and two controllers' writes, and outlives edits, failures
\* and restarts.
THEOREM RecordsAreTrue == Spec => []RegisteredIsTruthful
<1>1. IInv => RegisteredIsTruthful
    BY DEF IInv, RecordsTrue, RecordTrue, Present, RegisteredIsTruthful
<1> QED
    BY <1>1, Invariant, PTL

\* A write that keeps the record, and sets the reconciler's part to a generation.
Rewritten(c, g) ==
    obj'[c].exists = obj[c].exists /\ obj'[c].reg = obj[c].reg /\ obj'[c].arrGen = g

\* What a step may do to one configuration.
LEMMA StoreStep ==
    ASSUME IInv, Next, NEW c \in Configs
    PROVE  \/ obj'[c] = obj[c]
           \/ ~obj[c].exists
           \/ ~obj'[c].exists /\ ~obj[c].fin
           \/ /\ ~obj'[c].exists /\ UNCHANGED apps
              /\ arr[c.type].pc = "removeFinalizer" /\ arr[c.type].cur = c
              /\ arr[c.type].copy = obj[c]
           \/ Rewritten(c, obj[c].arrGen)
           \/ Rewritten(c, obj[c].gen)
           \/ obj'[c] = [obj[c] EXCEPT !.reg = obj'[c].reg]
<1>1. obj \in [Configs -> Objects] /\ obj[c] \in Objects
    BY DEF IInv, TypeOK
<1>2. ASSUME NEW d, NEW o, Store(d, o) PROVE obj'[c] = IF c = d THEN o ELSE obj[c]
    BY <1>1, <1>2 DEF Store
<1>3. CASE User
  <2>1. ASSUME NEW d \in Configs, NEW s \in Specs, UserCreates(d, s)
        PROVE  obj'[c] = obj[c] \/ ~obj[c].exists
      BY <1>2, <2>1 DEF UserCreates, UserStores
  <2>2. ASSUME NEW d \in Configs, NEW s \in Specs, UserEdits(d, s)
        PROVE  Rewritten(c, obj[c].arrGen)
    <3>1. obj'[c] = IF c = d THEN [obj[d] EXCEPT !.spec = s, !.gen = obj[d].gen + 1]
                    ELSE obj[c]
        BY <1>2, <2>2 DEF UserEdits, UserStores
    <3> QED
        BY <1>1, <3>1 DEF Objects, Rewritten
  <2>3. ASSUME NEW d \in Configs, UserDeletes(d)
        PROVE  \/ obj'[c] = obj[c]
               \/ ~obj'[c].exists /\ ~obj[c].fin
               \/ Rewritten(c, obj[c].arrGen)
    <3>1. obj'[c] = IF c = d THEN IF obj[d].fin THEN [obj[d] EXCEPT !.deleting = TRUE]
                                  ELSE NoObject
                    ELSE obj[c]
        BY <1>2, <2>3 DEF UserDeletes, UserStores
    <3> QED
        BY <1>1, <3>1, NothingTypes DEF Objects, Rewritten
  <2>4. ASSUME NEW p \in Prowlarrs,
               \/ \E to \in Offers : ProwlarrChanges(p, to)
               \/ \E a \in AppNames : UserRemovesApp(p, a)
        PROVE  obj' = obj
      BY <2>4 DEF ProwlarrChanges, UserRemovesApp
  <2> QED
      BY <1>3, <2>1, <2>2, <2>3, <2>4 DEF User
<1>4. ASSUME NEW t \in ArrTypes, ArrWorker(t)
      PROVE  \/ obj'[c] = obj[c]
             \/ /\ ~obj'[c].exists /\ UNCHANGED apps
                /\ arr[c.type].pc = "removeFinalizer" /\ arr[c.type].cur = c
                /\ arr[c.type].copy = obj[c]
             \/ Rewritten(c, obj[c].arrGen)
             \/ Rewritten(c, obj[c].gen)
  <2> DEFINE d == arr[t].cur
  <2>1. ASSUME NEW out, ArrAddFinalizer(t, out)
        PROVE  Rewritten(c, obj[c].arrGen)
    <3>1. obj'[c] \in {obj[c], [obj[c] EXCEPT !.fin = TRUE]}
        BY <1>2, <2>1 DEF ArrAddFinalizer, NoStore
    <3> QED
        BY <1>1, <3>1 DEF Objects, Rewritten
  <2>2. ASSUME NEW out, ArrUpdateStatus(t, out)
        PROVE  \/ obj'[c] = obj[c]
               \/ Rewritten(c, obj[c].gen)
    <3> DEFINE new == [obj[d] EXCEPT !.arrGen = arr[t].copy.gen, !.reg = arr[t].copy.reg]
    <3>1. (arr[t].fresh /\ Store(d, new)) \/ NoStore
        BY <2>2 DEF ArrUpdateStatus
    <3>2. CASE arr[t].fresh /\ Store(d, new) /\ c = d
      <4>1. arr[t].copy = obj[c]
          BY <3>2 DEF IInv, TypeOK
      <4>2. obj'[c] = [obj[c] EXCEPT !.arrGen = obj[c].gen, !.reg = obj[c].reg]
          BY <1>2, <3>2, <4>1
      <4> QED
          BY <1>1, <4>2 DEF Objects, Rewritten
    <3> HIDE DEF new
    <3>3. CASE Store(d, new) /\ c # d
        BY <1>2, <3>3
    <3>4. CASE NoStore
        BY <3>4 DEF NoStore
    <3> QED
        BY <3>1, <3>2, <3>3, <3>4
  <2>3. ASSUME NEW out, ArrRemoveFinalizer(t, out)
        PROVE  \/ obj'[c] = obj[c]
               \/ /\ ~obj'[c].exists /\ UNCHANGED apps
                  /\ arr[c.type].pc = "removeFinalizer" /\ arr[c.type].cur = c
                  /\ arr[c.type].copy = obj[c]
    <3>1. /\ (arr[t].fresh /\ Store(d, NoObject)) \/ NoStore
          /\ UNCHANGED apps /\ arr[t].pc = "removeFinalizer"
        BY <2>3 DEF ArrRemoveFinalizer
    <3>2. CASE arr[t].fresh /\ Store(d, NoObject) /\ c = d
      <4>1. arr[t].copy = obj[c] /\ c.type = t
          BY <3>1, <3>2 DEF IInv, TypeOK, ArrHeld
      <4>2. ~obj'[c].exists
          BY <1>2, <3>2, NothingTypes
      <4> QED
          BY <3>1, <3>2, <4>1, <4>2
    <3>3. CASE Store(d, NoObject) /\ c # d
        BY <1>2, <3>3
    <3>4. CASE NoStore
        BY <3>4 DEF NoStore
    <3> QED
        BY <3>1, <3>2, <3>3, <3>4
  <2>4. ASSUME NEW out,
               \/ ArrSync(t, out) \/ HandleProwlarrRegistration(t, out)
               \/ HandleProwlarrUnregistration(t, out)
               \/ \E e \in Configs : ArrFetch(e)
        PROVE  obj' = obj
      BY <2>4 DEF ArrSync, HandleProwlarrRegistration, HandleProwlarrUnregistration, ArrFetch
  <2> QED
      BY <1>4, <2>1, <2>2, <2>3, <2>4 DEF ArrWorker, ArrStep
<1>5. CASE CoWorker
  <2>1. ASSUME NEW out \in Writes, CoUpdateStatus(out)
        PROVE  obj'[c] = obj[c] \/ obj'[c] = [obj[c] EXCEPT !.reg = obj'[c].reg]
    <3> DEFINE d == co.cur
               new == [obj[d] EXCEPT !.reg = copies[d].reg]
    <3>1. Store(d, new) \/ NoStore
        BY <2>1, FreshCopyRecord DEF CoUpdateStatus
    <3>2. CASE Store(d, new) /\ c = d
      <4>1. obj'[c] = [obj[c] EXCEPT !.reg = copies[c].reg]
          BY <1>2, <3>2
      <4> QED
          BY <1>1, <4>1 DEF Objects, Rewritten
    <3> HIDE DEF new
    <3>3. CASE Store(d, new) /\ c # d
        BY <1>2, <3>3
    <3>4. CASE NoStore
        BY <3>4 DEF NoStore
    <3> QED
        BY <3>1, <3>2, <3>3, <3>4
  <2>2. ASSUME NEW out,
               \/ \E p \in Prowlarrs : CoFetch(p, out)
               \/ CoList(out) \/ CoDone
               \/ \E e \in Configs : ProcessAppConfig(e, out)
        PROVE  obj' = obj
      BY <2>2 DEF CoFetch, CoList, CoDone, ProcessAppConfig
  <2> QED
      BY <1>5, <2>1, <2>2 DEF CoWorker
<1>6. CASE \/ \E d \in Configs : CacheSync(d) \/ ArrTimerFires(d)
           \/ \E p \in Prowlarrs : CoTimerFires(p)
           \/ Restart
    BY <1>6 DEF CacheSync, ArrTimerFires, CoTimerFires, Restart
<1> QED
    BY <1>3, <1>4, <1>5, <1>6 DEF Next

\* Reconciler and coordinator write the status of the same objects, and
\* neither ever takes back what the other, or a user, has written.
THEOREM UpdatesAreKept == Spec => NoLostUpdate
<1> DEFINE A == \A c \in Configs :
                  obj[c].exists /\ obj'[c].exists =>
                     /\ obj'[c].arrGen >= obj[c].arrGen
                     /\ obj'[c].reg # obj[c].reg =>
                           [obj[c] EXCEPT !.reg = obj'[c].reg] = obj'[c]
<1>1. IInv /\ [Next]_vars => [A]_vars
  <2> SUFFICES ASSUME IInv, Next, NEW c \in Configs, obj[c].exists, obj'[c].exists
               PROVE  /\ obj'[c].arrGen >= obj[c].arrGen
                      /\ obj'[c].reg # obj[c].reg =>
                            [obj[c] EXCEPT !.reg = obj'[c].reg] = obj'[c]
      OBVIOUS
  <2>1. /\ obj[c] \in Objects /\ obj[c].arrGen \in Nat /\ obj[c].gen \in Nat
        /\ obj[c].arrGen <= obj[c].gen
      BY RefType DEF IInv, TypeOK, GenerationsHeld
  <2>2. \/ obj'[c] = obj[c]
        \/ obj'[c].reg = obj[c].reg /\ obj'[c].arrGen = obj[c].arrGen
        \/ obj'[c].reg = obj[c].reg /\ obj'[c].arrGen = obj[c].gen
        \/ obj'[c] = [obj[c] EXCEPT !.reg = obj'[c].reg]
      BY StoreStep DEF Rewritten
  <2>3. CASE obj'[c] = [obj[c] EXCEPT !.reg = obj'[c].reg]
    <3>1. obj'[c].arrGen = obj[c].arrGen
        BY <2>1, <2>3 DEF Objects
    <3> QED
        BY <2>1, <2>3, <3>1
  <2> QED
      BY <2>1, <2>2, <2>3
<1> QED
    BY <1>1, Invariant, PTL DEF Spec, NoLostUpdate

\* A configuration whose unregistration reached Prowlarr leaves no application
\* of its reconciler behind, in any interleaving of the reconcilers, the
\* coordinator and the users.
THEOREM GoneUnregistered == Spec => UnregisteredBeforeGone
<1> DEFINE A == \A c \in Configs :
                  /\ obj[c].exists /\ obj[c].fin /\ ~obj'[c].exists
                  /\ arr[c.type].ok /\ obj[c].spec.ref # NoRef
                  => apps'[obj[c].spec.ref][<<"arr", c>>] = NoKey
<1>1. IInv /\ [Next]_vars => [A]_vars
  <2> SUFFICES ASSUME IInv, Next, NEW c \in Configs,
                      obj[c].exists, obj[c].fin, ~obj'[c].exists,
                      arr[c.type].ok, obj[c].spec.ref # NoRef
               PROVE  apps'[obj[c].spec.ref][<<"arr", c>>] = NoKey
      OBVIOUS
  <2>1. obj[c] \in Objects /\ c.type \in ArrTypes
      BY TypeOf DEF IInv, TypeOK
  <2>2. CASE /\ UNCHANGED apps
             /\ arr[c.type].pc = "removeFinalizer" /\ arr[c.type].cur = c
             /\ arr[c.type].copy = obj[c]
      BY <2>1, <2>2 DEF IInv, ArrHeld
  <2>3. CASE obj'[c] = [obj[c] EXCEPT !.reg = obj'[c].reg]
      BY <2>1, <2>3 DEF Objects
  <2> QED
      BY <2>2, <2>3, StoreStep DEF Rewritten
<1> QED
    BY <1>1, Invariant, PTL DEF Spec, UnregisteredBeforeGone

=============================================================================
