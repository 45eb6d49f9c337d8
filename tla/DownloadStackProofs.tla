------------------------- MODULE DownloadStackProofs -------------------------
(***************************************************************************)
(* Proofs about DownloadStack, for every set of specs, credentials and     *)
(* values and every bound.                                                 *)
(***************************************************************************)
EXTENDS DownloadStack, TLAPS

(***************************************************************************)
(* The inductive invariant.                                                *)
(***************************************************************************)

\* Where a pass may be while it works on the spec, and where it is once the
\* Secret has been written.
Normal      == {"resolve", "secret", "restart", "clients", "connect", "sync",
                "status", "errStatus"}
AfterSecret == {"restart", "clients", "connect", "sync", "status"}

\* A fresh copy is the stored object.  The finalizer is the worker's: an
\* object that some copy shows with it, not deleted, is still there, so no
\* object goes away under a pass and leaves its Secret to the collector.
Copies ==
    /\ cacheFresh => cache = obj
    /\ workFresh => cacheFresh
    /\ workFresh /\ pc = "removeFinalizer" => obj.deleting
    /\ cache.exists /\ cache.fin /\ ~cache.deleting => obj.exists /\ obj.fin
    /\ pc \in Normal => obj.exists /\ obj.fin

\* The Secret holds an environment, unless the user removed it in this pass.
Described(e) == Covers(secret.data, e) \/ <<"Secret", "data">> \in touched

\* The hash in the worker's copy is the stored one until the Secret has been
\* written, and then the hash of what the Secret holds.
HashHeld ==
    /\ pc \in {"resolve", "secret"} /\ workFresh =>
          work.status.hash = obj.status.hash
    /\ pc \in AfterSecret =>
          work.status.hash = env /\ Described(env) /\ ~secret.orphan
    /\ pc = "errStatus" =>
          \/ workFresh => work.status.hash = obj.status.hash
          \/ Described(work.status.hash) /\ ~secret.orphan

\* A setting has its value, unless the user changed it since it was written.
Done(c, s) == conf[c][s] = work.spec.want[c][s] \/ <<c, s>> \in touched

\* A setting that is sent and is not to be written any more in this pass is
\* done.
Outstanding(c, s) == c \in pending /\ (pc = "sync" /\ c = Current => s \in left)

ClientsHeld ==
    /\ pc \in {"connect", "sync"} => pending \subseteq work.spec.clients
    /\ pc = "sync" => left \subseteq ToSync(work.spec, Current)
    /\ pc = "status" => pending = {}
    /\ pc \in {"connect", "sync", "status"} =>
          \A c \in work.spec.clients : \A s \in ToSync(work.spec, c) :
             Outstanding(c, s) \/ Done(c, s)

IInv == TypeOK /\ Copies /\ HashHeld /\ ClientsHeld

(***************************************************************************)
(* The operators the actions are built from.                               *)
(***************************************************************************)

\* The client whose turn it is is one of those left.
LEMMA CurrentPending ==
    ASSUME pending \subseteq ClientNames, pending # {}
    PROVE  Current \in pending
<1>1. PICK i \in 1..6 : ClientOrder[i] \in pending
    BY DEF ClientNames, ClientOrder
<1>2. Turns \subseteq 1..6 /\ i \in Turns
    BY <1>1 DEF Turns, ClientOrder
<1>3. \E k \in Turns : \A j \in Turns : k <= j
  <2>1. CASE 1 \in Turns
      BY <1>2, <2>1
  <2>2. CASE 1 \notin Turns /\ 2 \in Turns
      BY <1>2, <2>2
  <2>3. CASE 1 \notin Turns /\ 2 \notin Turns /\ 3 \in Turns
      BY <1>2, <2>3
  <2>4. CASE 1 \notin Turns /\ 2 \notin Turns /\ 3 \notin Turns /\ 4 \in Turns
      BY <1>2, <2>4
  <2>5. CASE /\ 1 \notin Turns /\ 2 \notin Turns /\ 3 \notin Turns /\ 4 \notin Turns
             /\ 5 \in Turns
      BY <1>2, <2>5
  <2>6. CASE Turns \subseteq {6}
      BY <1>2, <2>6
  <2> QED
      BY <1>2, <2>1, <2>2, <2>3, <2>4, <2>5, <2>6
<1>4. (CHOOSE k \in Turns : \A j \in Turns : k <= j) \in Turns
    BY <1>3
<1> QED
    BY <1>4 DEF Current, Turns

\* What an object's spec holds.
LEMMA SpecTypes ==
    ASSUME NEW o \in Objects
    PROVE  o.spec \in SpecType
<1>1. NoSpec \in SpecType
    BY DEF NoSpec, SpecType
<1> QED
    BY <1>1, SpecsAssumption DEF Objects

\* The environment of a spec is one, and so is what the Secret then holds.
LEMMA EnvType ==
    ASSUME NEW spec \in SpecType, NEW v \in Secrets \cup {NoValue}
    PROVE  GenerateGluetunEnv(spec, v) \in Envs
BY DEF GenerateGluetunEnv, SpecType, NoEnv, Envs, EnvKeys

\* What a write leaves in the Secret covers what the pass has to write.
LEMMA StringDataType ==
    ASSUME NEW d \in Envs, NEW e \in Envs
    PROVE  StringData(d, e) \in Envs /\ Covers(StringData(d, e), e)
BY DEF StringData, Covers, Envs

\* A setting that is sent has a value.
LEMMA SentValues ==
    ASSUME NEW spec \in SpecType, NEW c \in ClientNames
    PROVE  /\ ToSync(spec, c) \subseteq Settings
           /\ \A s \in ToSync(spec, c) : spec.want[c][s] \in Limits
<1>1. SUFFICES ASSUME NEW s \in Settings, Sent(c, s, spec.want[c][s])
               PROVE  spec.want[c][s] # NoValue
    BY <1>1 DEF ToSync, SpecType
<1>2. c \in {"Transmission", "QBittorrent", "Deluge", "RTorrent", "SABnzbd", "NZBGet"}
    BY DEF ClientNames, ClientOrder
<1> QED
    BY <1>1, <1>2 DEF Sent, Transmission, QBittorrent, Deluge, RTorrent, SABnzbd, NZBGet

\* The specs and statuses that an object is made of.
LEMMA ObjectTypes ==
    /\ NoObject \in Objects /\ NoSpec \in Specs \cup {NoSpec}
    /\ EmptyStatus \in Statuses /\ NoEnv \in Envs
    /\ NoSecret \in [exists : BOOLEAN, data : Envs, orphan : BOOLEAN]
<1>1. NoEnv \in Envs
    BY DEF NoEnv, Envs
<1>2. EmptyStatus \in Statuses
    BY <1>1 DEF EmptyStatus, Statuses
<1> QED
    BY <1>1, <1>2 DEF NoObject, Objects, NoSecret

(***************************************************************************)
(* Init.                                                                   *)
(***************************************************************************)

\* The invariant holds initially.
LEMMA InitInv == Init => IInv
<1> SUFFICES ASSUME Init PROVE IInv
    OBVIOUS
<1>1. TypeOK
  <2>1. conf \in [ClientNames -> [Settings -> Limits]]
      BY ValuesAssumption DEF Init
  <2>2. edits \in 0..MaxEdits /\ drifts \in 0..MaxDrifts /\ faults \in 0..MaxFaults
      BY BoundsAssumption DEF Init
  <2> QED
      BY <2>1, <2>2, ObjectTypes DEF Init, TypeOK
<1>2. Copies
    BY DEF Init, Copies, NoObject, Normal
<1>3. HashHeld /\ ClientsHeld
    BY DEF Init, HashHeld, AfterSecret, ClientsHeld
<1> QED
    BY <1>1, <1>2, <1>3 DEF IInv

(***************************************************************************)
(* Steps that leave the pass alone.                                        *)
(***************************************************************************)

\* What is known of the clients depends on the pass, on what they hold and on
\* what the user touched.
LEMMA ClientsFrame ==
    ASSUME ClientsHeld, UNCHANGED <<pc, work, pending, left, conf, touched>>
    PROVE  ClientsHeld'
<1>1. UNCHANGED Current
    BY DEF Current, Turns
<1> QED
    BY <1>1 DEF ClientsHeld, Outstanding, Done

\* What is known of the hash survives an edit of the object: the copy is then
\* outdated, and its status is not stored.
LEMMA HashFrame ==
    ASSUME HashHeld, UNCHANGED <<pc, work, env, secret, touched>>,
           workFresh' => workFresh /\ obj' = obj
    PROVE  HashHeld'
BY DEF HashHeld, Described

\* At the end of a pass nothing has to hold of it.
LEMMA EndPassInv ==
    ASSUME EndPass
    PROVE  /\ HashHeld' /\ ClientsHeld'
           /\ work' \in Objects /\ workFresh' = FALSE /\ env' \in Envs
           /\ pc' = "idle" /\ pending' = {} /\ left' = {} /\ touched' = {}
<1>1. HashHeld' /\ ClientsHeld'
    BY DEF EndPass, HashHeld, AfterSecret, ClientsHeld
<1> QED
    BY <1>1, ObjectTypes DEF EndPass

(***************************************************************************)
(* The user.                                                               *)
(***************************************************************************)

\* A write of the object that keeps a finalizer that is there, or one that
\* drops an object without a finalizer and orphans its Secret.
LEMMA UserStoresInv ==
    ASSUME IInv, NEW o \in Objects, Store(o), UserEdit, UNCHANGED credVars,
           obj.exists /\ obj.fin => o.exists /\ o.fin /\ UNCHANGED secret,
           secret' \in {secret, Orphaned}
    PROVE  IInv'
<1>1. TypeOK'
  <2>1. secret' \in [exists : BOOLEAN, data : Envs, orphan : BOOLEAN]
      BY DEF IInv, TypeOK, Orphaned
  <2>2. edits' \in 0..MaxEdits
      BY BoundsAssumption DEF IInv, TypeOK, UserEdit
  <2> QED
      BY <2>1, <2>2 DEF IInv, TypeOK, Store, UserEdit, podVars, credVars
<1>2. Copies'
    BY DEF IInv, Copies, Store, UserEdit
<1>3. HashHeld'
  <2>1. CASE pc \in Normal
    <3>1. UNCHANGED secret
        BY <2>1 DEF IInv, Copies
    <3> QED
        BY <3>1, HashFrame DEF IInv, Store, UserEdit
  <2>2. CASE pc \notin Normal
      BY <2>2 DEF HashHeld, Normal, AfterSecret, UserEdit
  <2> QED
      BY <2>1, <2>2
<1>4. ClientsHeld'
    BY ClientsFrame DEF IInv, UserEdit
<1> QED
    BY <1>1, <1>2, <1>3, <1>4 DEF IInv

\* The user creates the object.
LEMMA UserCreatesInv ==
    ASSUME IInv, NEW s \in Specs, UserCreates(s)
    PROVE  IInv'
<1> DEFINE o == [NoObject EXCEPT !.exists = TRUE, !.gen = 1, !.spec = s]
<1>1. o \in Objects
    BY ObjectTypes DEF Objects
<1>2. Store(o) /\ UserEdit /\ UNCHANGED credVars /\ UNCHANGED secret
    BY DEF UserCreates
<1>3. ~obj.exists
    BY DEF UserCreates
<1> HIDE DEF o
<1> QED
    BY <1>1, <1>2, <1>3, UserStoresInv

\* The user writes a new generation of it.
LEMMA UserEditsInv ==
    ASSUME IInv, NEW s \in Specs, UserEdits(s)
    PROVE  IInv'
<1> DEFINE o == [obj EXCEPT !.spec = s, !.gen = @ + 1]
<1>1. o \in Objects /\ o.exists = obj.exists /\ o.fin = obj.fin
  <2>1. obj \in Objects
      BY DEF IInv, TypeOK
  <2>2. obj.gen + 1 \in Nat
      BY <2>1 DEF Objects
  <2>3. o = [[obj EXCEPT !.spec = s] EXCEPT !.gen = obj.gen + 1]
      BY <2>1 DEF Objects
  <2> QED
      BY <2>1, <2>2, <2>3 DEF Objects
<1>2. Store(o) /\ UserEdit /\ UNCHANGED credVars /\ UNCHANGED secret
    BY DEF UserEdits
<1> HIDE DEF o
<1> QED
    BY <1>1, <1>2, UserStoresInv

\* The user deletes it; with the finalizer it stays, marked.
LEMMA UserDeletesInv ==
    ASSUME IInv, UserDeletes
    PROVE  IInv'
<1>1. UserEdit /\ UNCHANGED credVars
    BY DEF UserDeletes
<1>2. CASE obj.fin
  <2> DEFINE o == [obj EXCEPT !.deleting = TRUE]
  <2>1. o \in Objects /\ o.exists = obj.exists /\ o.fin = obj.fin
    <3>1. obj \in Objects
        BY DEF IInv, TypeOK
    <3> QED
        BY <3>1 DEF Objects
  <2>2. Store(o) /\ UNCHANGED secret
      BY <1>2 DEF UserDeletes
  <2> HIDE DEF o
  <2> QED
      BY <1>1, <2>1, <2>2, UserStoresInv
<1>3. CASE ~obj.fin
  <2>1. Store(NoObject) /\ secret' = Orphaned
      BY <1>3 DEF UserDeletes
  <2> QED
      BY <1>1, <1>3, <2>1, ObjectTypes, UserStoresInv
<1> QED
    BY <1>2, <1>3

\* Credentials of the VPN and of the clients are not the pass's.
LEMMA UserCredentialsInv ==
    ASSUME IInv, UserEdit, UNCHANGED <<obj, cacheFresh, workFresh, secret>>,
           vpnCred' \in Secrets \cup {NoValue}, noCreds' \subseteq ClientNames
    PROVE  IInv'
<1>1. TypeOK'
  <2>1. edits' \in 0..MaxEdits
      BY BoundsAssumption DEF IInv, TypeOK, UserEdit
  <2> QED
      BY <2>1 DEF IInv, TypeOK, UserEdit, podVars
<1>2. Copies'
    BY DEF IInv, Copies, UserEdit
<1>3. HashHeld'
    BY HashFrame DEF IInv, UserEdit
<1>4. ClientsHeld'
    BY ClientsFrame DEF IInv, UserEdit
<1> QED
    BY <1>1, <1>2, <1>3, <1>4 DEF IInv

\* The user changes a client or the Secret: what the pass knew of it is now
\* excused, and the rest is as it was.
LEMMA UserSetsInv ==
    ASSUME IInv, NEW c \in ClientNames, NEW s \in Settings, NEW v \in Limits,
           UserSets(c, s, v)
    PROVE  IInv'
<1> USE DEF UserSets, UserDrift, objVars, podVars, credVars, workerVars
<1>1. <<c, s>> \in ClientNames \X Settings
    OBVIOUS
<1>2. TypeOK'
  <2>1. drifts' \in 0..MaxDrifts
      BY BoundsAssumption DEF IInv, TypeOK
  <2>2. conf' \in [ClientNames -> [Settings -> Limits]]
      BY DEF IInv, TypeOK
  <2>3. touched' \subseteq (ClientNames \X Settings) \cup {<<"Secret", "data">>}
      BY <1>1 DEF IInv, TypeOK
  <2> QED
      BY <2>1, <2>2, <2>3 DEF IInv, TypeOK
<1>3. Copies'
    BY DEF IInv, Copies
<1>4. HashHeld'
    BY DEF IInv, HashHeld, Described, AfterSecret
<1>5. ClientsHeld'
  <2>1. UNCHANGED Current
      BY DEF Current, Turns
  <2>2. pc # "idle" => touched' = touched \cup {<<c, s>>}
      OBVIOUS
  <2>3. \A d \in ClientNames, r \in Settings :
           <<d, r>> # <<c, s>> => conf'[d][r] = conf[d][r]
      BY DEF IInv, TypeOK
  <2>4. work.spec \in SpecType
      BY SpecTypes DEF IInv, TypeOK
  <2>5. \A d \in work.spec.clients : d \in ClientNames /\ ToSync(work.spec, d) \subseteq Settings
      BY <2>4, SentValues DEF SpecType
  <2> QED
      BY <2>1, <2>2, <2>3, <2>5 DEF IInv, ClientsHeld, Outstanding, Done
<1> QED
    BY <1>2, <1>3, <1>4, <1>5 DEF IInv

\* The user removes the Secret that the controller wrote.
LEMMA UserRemovesSecretInv ==
    ASSUME IInv, UserRemovesSecret
    PROVE  IInv'
<1> USE DEF UserRemovesSecret, UserDrift, objVars, podVars, credVars, workerVars
<1>1. TypeOK'
  <2>1. drifts' \in 0..MaxDrifts
      BY BoundsAssumption DEF IInv, TypeOK
  <2>2. touched' \subseteq (ClientNames \X Settings) \cup {<<"Secret", "data">>}
      BY DEF IInv, TypeOK
  <2> QED
      BY <2>1, <2>2, ObjectTypes DEF IInv, TypeOK
<1>2. Copies'
    BY DEF IInv, Copies
<1>3. HashHeld'
    BY DEF IInv, HashHeld, Described, AfterSecret, NoSecret
<1>4. ClientsHeld'
  <2>1. UNCHANGED Current
      BY DEF Current, Turns
  <2> QED
      BY <2>1 DEF IInv, ClientsHeld, Outstanding, Done
<1> QED
    BY <1>1, <1>2, <1>3, <1>4 DEF IInv

(***************************************************************************)
(* Informers, timers, Kubernetes' controllers, crash.                      *)
(***************************************************************************)

\* Queue, timers and pods are outside the invariant, but for their types.
LEMMA QuietInv ==
    ASSUME IInv,
           UNCHANGED <<obj, cache, cacheFresh, secret, credVars, workerVars, conf,
                       touched, bounds>>,
           queued' \in BOOLEAN, timer' \in BOOLEAN, secretDirty' \in BOOLEAN,
           rollout' \in BOOLEAN, pods' \in Envs
    PROVE  IInv'
<1> USE DEF credVars, workerVars, bounds
<1>1. TypeOK'
    BY DEF IInv, TypeOK
<1>2. Copies'
    BY DEF IInv, Copies
<1>3. HashHeld'
    BY HashFrame DEF IInv
<1>4. ClientsHeld'
    BY ClientsFrame DEF IInv
<1> QED
    BY <1>1, <1>2, <1>3, <1>4 DEF IInv

\* The informer catches up.
LEMMA CacheSyncInv ==
    ASSUME IInv, CacheSync
    PROVE  IInv'
<1> USE DEF CacheSync, podVars, credVars, workerVars, bounds
<1>1. TypeOK'
    BY DEF IInv, TypeOK
<1>2. Copies'
    BY DEF IInv, Copies
<1>3. HashHeld'
    BY HashFrame DEF IInv
<1>4. ClientsHeld'
    BY ClientsFrame DEF IInv
<1> QED
    BY <1>1, <1>2, <1>3, <1>4 DEF IInv

\* Once a pass has written the Secret, that is not the collector's.
LEMMA CollectGarbageInv ==
    ASSUME IInv, CollectGarbage
    PROVE  IInv'
<1> USE DEF CollectGarbage, objVars, podVars, credVars, workerVars, bounds
<1>1. TypeOK'
    BY ObjectTypes DEF IInv, TypeOK
<1>2. Copies'
    BY DEF IInv, Copies
<1>3. HashHeld'
    BY DEF IInv, HashHeld
<1>4. ClientsHeld'
    BY ClientsFrame DEF IInv
<1> QED
    BY <1>1, <1>2, <1>3, <1>4 DEF IInv

\* The process restarts and forgets its pass.
LEMMA CrashInv ==
    ASSUME IInv, Crash
    PROVE  IInv'
<1> USE DEF Crash, podVars, credVars
<1>1. EndPass
    OBVIOUS
<1>2. TypeOK'
  <2>1. faults' \in 0..MaxFaults
      BY BoundsAssumption DEF IInv, TypeOK
  <2>2. obj.exists \in BOOLEAN
      BY DEF IInv, TypeOK, Objects
  <2> QED
      BY <1>1, <2>1, <2>2, EndPassInv DEF IInv, TypeOK
<1>3. Copies'
    BY <1>1, EndPassInv DEF Copies, Normal
<1> QED
    BY <1>1, <1>2, <1>3, EndPassInv DEF IInv

(***************************************************************************)
(* The worker.                                                             *)
(***************************************************************************)
LEMMA OutcomeType ==
    ASSUME TypeOK, NEW out, Outcome(out)
    PROVE  faults' \in 0..MaxFaults
BY BoundsAssumption DEF TypeOK, Outcome

\* A pass reads the object from the cache.
LEMMA FetchInv ==
    ASSUME IInv, Fetch
    PROVE  IInv'
<1>1. CASE ~cache.exists \/ cache.spec.suspend
  <2>1. /\ UNCHANGED <<obj, cache, cacheFresh, secret, credVars, workerVars, conf,
                       touched, bounds>>
        /\ queued' = FALSE /\ UNCHANGED <<timer, secretDirty, rollout, pods>>
      BY <1>1 DEF Fetch, workerVars, podVars
  <2> QED
      BY <2>1, QuietInv DEF IInv, TypeOK
<1>2. CASE ~(~cache.exists \/ cache.spec.suspend)
  <2>1. /\ work' = cache /\ workFresh' = cacheFresh
        /\ pc' = IF cache.deleting THEN "removeFinalizer"
                 ELSE IF ~cache.fin THEN "addFinalizer" ELSE "resolve"
        /\ queued' = FALSE
        /\ UNCHANGED <<obj, cache, cacheFresh, timer, secret, secretDirty, podVars,
                       credVars, env, pending, left, conf, touched, bounds>>
      BY <1>2 DEF Fetch, Goto
  <2>2. TypeOK'
      BY <2>1 DEF IInv, TypeOK, podVars, credVars, bounds
  <2>3. Copies'
      BY <1>2, <2>1 DEF IInv, Copies, Normal
  <2>4. HashHeld'
      BY <2>1 DEF IInv, Copies, HashHeld, AfterSecret
  <2>5. ClientsHeld'
      BY <2>1 DEF ClientsHeld
  <2> QED
      BY <2>2, <2>3, <2>4, <2>5 DEF IInv
<1> QED
    BY <1>1, <1>2

\* It stores the finalizer.
LEMMA AddFinalizerInv ==
    ASSUME IInv, NEW out \in Writes, AddFinalizer(out)
    PROVE  IInv'
<1> USE DEF AddFinalizer, podVars, credVars
<1>1. EndPass
    OBVIOUS
<1>2. obj' \in Objects /\ cacheFresh' \in BOOLEAN
  <2>1. obj \in Objects /\ cacheFresh \in BOOLEAN
      BY DEF IInv, TypeOK
  <2> QED
      BY <2>1 DEF Objects
<1>3. TypeOK'
  <2>1. faults' \in 0..MaxFaults
      BY OutcomeType DEF IInv
  <2> QED
      BY <1>1, <1>2, <2>1, EndPassInv DEF IInv, TypeOK
<1>4. Copies'
  <2>1. CASE workFresh /\ out # "lost"
    <3>1. obj' = [obj EXCEPT !.fin = TRUE] /\ cacheFresh' = FALSE /\ cache' = cache
        BY <2>1
    <3>2. obj \in Objects /\ cache = obj
        BY <2>1 DEF IInv, TypeOK, Copies
    <3>3. obj'.exists = obj.exists /\ obj'.fin = TRUE
        BY <3>1, <3>2 DEF Objects
    <3> QED
        BY <1>1, <3>1, <3>2, <3>3, EndPassInv DEF Copies, Normal
  <2>2. CASE ~(workFresh /\ out # "lost")
      BY <1>1, <2>2, EndPassInv DEF IInv, Copies, Normal
  <2> QED
      BY <2>1, <2>2
<1> QED
    BY <1>1, <1>3, <1>4, EndPassInv DEF IInv

\* The error path: what the copy's hash is about stays true.
LEMMA FailInv ==
    ASSUME IInv, pc \in Normal \ {"errStatus"}, Fail, UNCHANGED <<obj, workFresh>>,
           pc \in AfterSecret =>
              /\ UNCHANGED secret
              /\ <<"Secret", "data">> \in touched => <<"Secret", "data">> \in touched'
    PROVE  /\ pc' = "errStatus" /\ work' \in Objects
           /\ HashHeld' /\ ClientsHeld'
<1>1. work \in Objects
    BY DEF IInv, TypeOK
<1>2. pc' = "errStatus" /\ work' \in Objects /\ work'.status.hash = work.status.hash
    BY <1>1 DEF Fail, Goto, Objects, Statuses
<1>3. HashHeld'
    BY <1>2 DEF IInv, HashHeld, Described, Normal, AfterSecret
<1>4. ClientsHeld'
    BY <1>2 DEF ClientsHeld
<1> QED
    BY <1>2, <1>3, <1>4

\* It reads the credentials that the specification names.
LEMMA ResolveCredentialsInv ==
    ASSUME IInv, NEW out \in Reads, ResolveCredentials(out)
    PROVE  IInv'
<1> USE DEF ResolveCredentials, objVars, podVars, credVars
<1>1. faults' \in 0..MaxFaults
    BY OutcomeType DEF IInv
<1>2. CASE work.spec.cred /\ (vpnCred = NoValue \/ out # "ok")
  <2>1. Fail /\ UNCHANGED env
      BY <1>2
  <2>2. pc \in Normal \ {"errStatus"} /\ pc \notin AfterSecret
      BY DEF Normal, AfterSecret
  <2>3. pc' = "errStatus" /\ work' \in Objects /\ HashHeld' /\ ClientsHeld'
      BY <2>1, <2>2, FailInv
  <2>4. TypeOK'
      BY <1>1, <2>1, <2>3 DEF IInv, TypeOK
  <2>5. Copies'
      BY <2>2, <2>3 DEF IInv, Copies, Normal
  <2> QED
      BY <2>3, <2>4, <2>5 DEF IInv
<1>3. CASE ~(work.spec.cred /\ (vpnCred = NoValue \/ out # "ok"))
  <2>1. /\ pc' = "secret" /\ UNCHANGED work
        /\ env' = GenerateGluetunEnv(work.spec, vpnCred)
      BY <1>3 DEF Goto
  <2>2. env' \in Envs
      BY <2>1, SpecTypes, EnvType DEF IInv, TypeOK
  <2>3. TypeOK'
      BY <1>1, <2>1, <2>2 DEF IInv, TypeOK
  <2>4. Copies'
      BY <2>1 DEF IInv, Copies, Normal
  <2>5. HashHeld'
      BY <2>1 DEF IInv, HashHeld, AfterSecret
  <2>6. ClientsHeld'
      BY <2>1 DEF ClientsHeld
  <2> QED
      BY <2>3, <2>4, <2>5, <2>6 DEF IInv
<1> QED
    BY <1>2, <1>3

\* It writes the Secret.
LEMMA CreateOrUpdateSecretInv ==
    ASSUME IInv, NEW out \in Writes, CreateOrUpdateSecret(out)
    PROVE  IInv'
<1> DEFINE accepted == ~secretDirty
           written  == [exists |-> TRUE, orphan |-> FALSE,
                        data |-> StringData(secret.data, env)]
<1>1. /\ pc = "secret" /\ Outcome(out)
      /\ secret' = IF accepted /\ out # "lost" THEN written ELSE secret
      /\ secretDirty' = (secretDirty \/ secret' # secret)
      /\ UNCHANGED <<objVars, podVars, credVars, workFresh, env, pending, left,
                     conf, touched, edits, drifts>>
    BY DEF CreateOrUpdateSecret
<1>2. faults' \in 0..MaxFaults
    BY <1>1, OutcomeType DEF IInv
<1>3. StringData(secret.data, env) \in Envs /\ Covers(StringData(secret.data, env), env)
    BY StringDataType DEF IInv, TypeOK
<1>4. /\ secret' \in [exists : BOOLEAN, data : Envs, orphan : BOOLEAN]
      /\ secretDirty' \in BOOLEAN
    BY <1>1, <1>3 DEF IInv, TypeOK
<1> USE DEF objVars, podVars, credVars
<1>5. CASE accepted /\ out = "ok"
  <2>1. /\ work' = [work EXCEPT !.status.hash = env]
        /\ pc' \in {"restart", "clients"}
      BY <1>5 DEF CreateOrUpdateSecret, Goto
  <2>2. secret'.data = StringData(secret.data, env) /\ secret'.orphan = FALSE
      BY <1>1, <1>5
  <2>3. work' \in Objects /\ work'.status.hash = env
    <3>1. work \in Objects /\ env \in Envs
        BY DEF IInv, TypeOK
    <3> QED
        BY <2>1, <3>1 DEF Objects, Statuses
  <2>4. TypeOK'
      BY <1>1, <1>2, <1>4, <2>1, <2>3 DEF IInv, TypeOK
  <2>5. Copies'
      BY <1>1, <2>1 DEF IInv, Copies, Normal
  <2>6. HashHeld'
      BY <1>1, <1>3, <2>1, <2>2, <2>3 DEF HashHeld, Described, AfterSecret
  <2>7. ClientsHeld'
      BY <2>1 DEF ClientsHeld
  <2> QED
      BY <2>4, <2>5, <2>6, <2>7 DEF IInv
<1>6. CASE ~(accepted /\ out = "ok")
  <2>1. Fail
      BY <1>6 DEF CreateOrUpdateSecret
  <2>2. pc \in Normal \ {"errStatus"} /\ pc \notin AfterSecret
      BY <1>1 DEF Normal, AfterSecret
  <2>3. pc' = "errStatus" /\ work' \in Objects /\ HashHeld' /\ ClientsHeld'
      BY <1>1, <2>1, <2>2, FailInv
  <2>4. TypeOK'
      BY <1>1, <1>2, <1>4, <2>3 DEF IInv, TypeOK
  <2>5. Copies'
      BY <1>1, <2>2, <2>3 DEF IInv, Copies, Normal
  <2> QED
      BY <2>3, <2>4, <2>5 DEF IInv
<1> QED
    BY <1>5, <1>6

\* A failed restart is only logged.
LEMMA RestartDeploymentInv ==
    ASSUME IInv, NEW out \in Writes, RestartDeployment(out)
    PROVE  IInv'
<1> USE DEF RestartDeployment, Goto, objVars, podVars, credVars
<1>1. TypeOK'
  <2>1. faults' \in 0..MaxFaults
      BY OutcomeType DEF IInv
  <2> QED
      BY <2>1 DEF IInv, TypeOK
<1>2. Copies'
    BY DEF IInv, Copies, Normal
<1>3. HashHeld'
    BY DEF IInv, HashHeld, Described, AfterSecret
<1>4. ClientsHeld'
    BY DEF ClientsHeld
<1> QED
    BY <1>1, <1>2, <1>3, <1>4 DEF IInv

\* It collects the clients that the specification has.
LEMMA ChooseClientsInv ==
    ASSUME IInv, ChooseClients
    PROVE  IInv'
<1> USE DEF ChooseClients, objVars, podVars, credVars, bounds
<1>1. CASE work.spec.clients = {}
  <2>1. Fail /\ UNCHANGED pending
      BY <1>1
  <2>2. pc \in Normal \ {"errStatus"}
      BY DEF Normal
  <2>3. pc' = "errStatus" /\ work' \in Objects /\ HashHeld' /\ ClientsHeld'
      BY <2>1, <2>2, FailInv
  <2>4. TypeOK'
      BY <2>1, <2>3 DEF IInv, TypeOK
  <2>5. Copies'
      BY <2>2, <2>3 DEF IInv, Copies, Normal
  <2> QED
      BY <2>3, <2>4, <2>5 DEF IInv
<1>2. CASE work.spec.clients # {}
  <2>1. pending' = work.spec.clients /\ pc' = "connect" /\ UNCHANGED work
      BY <1>2 DEF StartClients, Goto
  <2>2. work.spec.clients \subseteq ClientNames
      BY SpecTypes DEF IInv, TypeOK, SpecType
  <2>3. TypeOK'
      BY <1>2, <2>1, <2>2 DEF IInv, TypeOK
  <2>4. Copies'
      BY <2>1 DEF IInv, Copies, Normal
  <2>5. HashHeld'
      BY <2>1 DEF IInv, HashHeld, Described, AfterSecret
  <2>6. ClientsHeld'
      BY <2>1 DEF ClientsHeld, Outstanding
  <2> QED
      BY <2>3, <2>4, <2>5, <2>6 DEF IInv
<1> QED
    BY <1>1, <1>2

\* The current client is done, and what was done before it still is.
LEMMA ProceedInv ==
    ASSUME IInv, pc \in {"connect", "sync"}, Proceed,
           UNCHANGED <<obj, workFresh, env, secret>>,
           <<"Secret", "data">> \in touched => <<"Secret", "data">> \in touched',
           \A c \in work.spec.clients : \A s \in ToSync(work.spec, c) :
              c = Current \/ c \notin pending =>
                 conf'[c][s] = work.spec.want[c][s] \/ <<c, s>> \in touched'
    PROVE  /\ pc' \in {"connect", "status"} /\ work' \in Objects
           /\ pending' \subseteq ClientNames
           /\ pc' = "connect" => pending' # {}
           /\ HashHeld' /\ ClientsHeld'
<1>1. work \in Objects /\ pending \subseteq ClientNames
    BY DEF IInv, TypeOK
<1>2. /\ pending' = pending \ {Current}
      /\ \/ /\ pending' = {} /\ pc' = "status"
            /\ work' = [work EXCEPT !.status.ready = "True", !.status.readyGen = work.gen]
         \/ pending' # {} /\ pc' = "connect" /\ work' = work
    BY DEF Proceed, Succeed, Goto
<1>3. work' \in Objects /\ work'.status.hash = work.status.hash /\ work'.spec = work.spec
  <2> DEFINE succeeded ==
         [work EXCEPT !.status.ready = "True", !.status.readyGen = work.gen]
  <2>1. /\ succeeded \in Objects
        /\ succeeded.status.hash = work.status.hash /\ succeeded.spec = work.spec
      BY <1>1 DEF Objects, Statuses
  <2> HIDE DEF succeeded
  <2> QED
      BY <1>1, <1>2, <2>1 DEF succeeded
<1>4. HashHeld'
    BY <1>2, <1>3 DEF IInv, HashHeld, Described, AfterSecret
<1>5. ClientsHeld'
  <2>1. pending' \subseteq work.spec.clients
      BY <1>2 DEF IInv, ClientsHeld
  <2>2. ASSUME NEW c \in work.spec.clients, NEW s \in ToSync(work.spec, c)
        PROVE  c \in pending' \/ Done(c, s)'
      BY <1>2, <1>3, <2>2 DEF Done
  <2> QED
      BY <1>2, <1>3, <2>1, <2>2 DEF ClientsHeld, Outstanding
<1> QED
    BY <1>1, <1>2, <1>3, <1>4, <1>5

\* It connects to a client.
LEMMA ConnectClientInv ==
    ASSUME IInv, NEW out \in Reads, ConnectClient(out)
    PROVE  IInv'
<1>1. /\ pc = "connect" /\ Outcome(out)
      /\ UNCHANGED <<objVars, secret, secretDirty, podVars, credVars, workFresh, env,
                     conf, touched, edits, drifts>>
    BY DEF ConnectClient
<1>2. faults' \in 0..MaxFaults
    BY <1>1, OutcomeType DEF IInv
<1>3. /\ pending \subseteq ClientNames /\ Current \in pending
      /\ pending \subseteq work.spec.clients /\ work.spec \in SpecType
    BY <1>1, CurrentPending, SpecTypes DEF IInv, TypeOK, ClientsHeld
<1>4. ToSync(work.spec, Current) \subseteq Settings
    BY <1>3, SentValues
<1> USE DEF objVars, podVars, credVars
<1>5. CASE CredentialsMissing(Current) \/ out # "ok"
  <2>1. Fail /\ UNCHANGED <<pending, left>>
      BY <1>5 DEF ConnectClient
  <2>2. pc \in Normal \ {"errStatus"}
      BY <1>1 DEF Normal
  <2>3. pc' = "errStatus" /\ work' \in Objects /\ HashHeld' /\ ClientsHeld'
      BY <1>1, <2>1, <2>2, FailInv
  <2>4. TypeOK'
      BY <1>1, <1>2, <2>1, <2>3 DEF IInv, TypeOK
  <2>5. Copies'
      BY <1>1, <2>2, <2>3 DEF IInv, Copies, Normal
  <2> QED
      BY <2>3, <2>4, <2>5 DEF IInv
<1>6. CASE ~(CredentialsMissing(Current) \/ out # "ok") /\ ToSync(work.spec, Current) = {}
  <2>1. Proceed /\ left' = {}
      BY <1>6 DEF ConnectClient
  <2>2. ASSUME NEW c \in work.spec.clients, NEW s \in ToSync(work.spec, c),
               c = Current \/ c \notin pending
        PROVE  conf'[c][s] = work.spec.want[c][s] \/ <<c, s>> \in touched'
    <3>1. c # Current
        BY <1>6, <2>2
    <3>2. Done(c, s)
        BY <1>1, <2>2, <3>1 DEF IInv, ClientsHeld, Outstanding
    <3> QED
        BY <1>1, <3>2 DEF Done
  <2>3. /\ pc' \in {"connect", "status"} /\ work' \in Objects
        /\ pending' \subseteq ClientNames
        /\ pc' = "connect" => pending' # {}
        /\ HashHeld' /\ ClientsHeld'
      BY <1>1, <2>1, <2>2, ProceedInv
  <2>4. TypeOK'
      BY <1>1, <1>2, <2>1, <2>3 DEF IInv, TypeOK
  <2>5. Copies'
      BY <1>1, <2>3 DEF IInv, Copies, Normal
  <2> QED
      BY <2>3, <2>4, <2>5 DEF IInv
<1>7. CASE ~(CredentialsMissing(Current) \/ out # "ok") /\ ToSync(work.spec, Current) # {}
  <2>1. /\ pc' = "sync" /\ left' = ToSync(work.spec, Current)
        /\ UNCHANGED <<work, pending>>
      BY <1>7 DEF ConnectClient, Goto
  <2>2. UNCHANGED Current
      BY <2>1 DEF Current, Turns
  <2>3. TypeOK'
      BY <1>1, <1>2, <1>4, <2>1 DEF IInv, TypeOK
  <2>4. Copies'
      BY <1>1, <2>1 DEF IInv, Copies, Normal
  <2>5. HashHeld'
      BY <1>1, <2>1 DEF IInv, HashHeld, Described, AfterSecret
  <2>6. ClientsHeld'
      BY <1>1, <1>3, <2>1, <2>2 DEF IInv, ClientsHeld, Outstanding, Done
  <2> QED
      BY <2>3, <2>4, <2>5, <2>6 DEF IInv
<1> QED
    BY <1>5, <1>6, <1>7

\* One call: what it writes is done, and nothing that was done is undone.
LEMMA CallDone ==
    ASSUME IInv, pc = "sync",
           NEW call \in SUBSET left,
           conf' = Configured(Current, call),
           touched' = touched \ ({Current} \X call),
           NEW c \in work.spec.clients, NEW s \in ToSync(work.spec, c),
           Done(c, s) \/ (c = Current /\ s \in call)
    PROVE  conf'[c][s] = work.spec.want[c][s] \/ <<c, s>> \in touched'
<1>1. work.spec \in SpecType /\ conf \in [ClientNames -> [Settings -> Limits]]
    BY SpecTypes DEF IInv, TypeOK
<1>2. c \in ClientNames /\ s \in Settings
    BY <1>1, SentValues DEF SpecType
<1>3. Current \in ClientNames
    BY CurrentPending DEF IInv, TypeOK
<1>4. conf'[c][s] = IF c = Current /\ s \in call THEN work.spec.want[c][s] ELSE conf[c][s]
    BY <1>1, <1>2, <1>3 DEF Configured
<1>5. ~(c = Current /\ s \in call) /\ <<c, s>> \in touched => <<c, s>> \in touched'
    OBVIOUS
<1> QED
    BY <1>4, <1>5 DEF Done

\* It writes the settings of a client.
LEMMA SyncClientInv ==
    ASSUME IInv, NEW out \in Writes, SyncClient(out)
    PROVE  IInv'
<1> DEFINE call == NextCall(Current, left)
<1>1. /\ pc = "sync" /\ Outcome(out)
      /\ conf' = IF out = "lost" THEN conf ELSE Configured(Current, call)
      /\ touched' = touched \ ({Current} \X call)
      /\ left' = left \ call
      /\ UNCHANGED <<objVars, secret, secretDirty, podVars, credVars, workFresh, env,
                     edits, drifts>>
    BY DEF SyncClient
<1>2. faults' \in 0..MaxFaults
    BY <1>1, OutcomeType DEF IInv
<1>3. call \subseteq left
    BY DEF NextCall
<1>4. /\ pending \subseteq ClientNames /\ Current \in pending
      /\ pending \subseteq work.spec.clients /\ work.spec \in SpecType
      /\ left \subseteq ToSync(work.spec, Current)
    BY <1>1, CurrentPending, SpecTypes DEF IInv, TypeOK, ClientsHeld
<1>5. /\ \A s \in call : work.spec.want[Current][s] \in Limits
      /\ left' \subseteq Settings
    BY <1>1, <1>3, <1>4, SentValues
<1>6. conf' \in [ClientNames -> [Settings -> Limits]]
  <2>1. conf \in [ClientNames -> [Settings -> Limits]]
      BY DEF IInv, TypeOK
  <2> QED
      BY <1>1, <1>4, <1>5, <2>1 DEF Configured
<1>7. /\ touched' \subseteq (ClientNames \X Settings) \cup {<<"Secret", "data">>}
      /\ <<"Secret", "data">> \in touched => <<"Secret", "data">> \in touched'
  <2>1. Current # "Secret"
      BY <1>4 DEF ClientNames, ClientOrder
  <2> QED
      BY <1>1, <2>1 DEF IInv, TypeOK
<1> HIDE DEF call
<1> USE DEF objVars, podVars, credVars
<1>8. CASE out # "ok"
  <2>1. Fail /\ UNCHANGED pending
      BY <1>8 DEF SyncClient
  <2>2. pc \in Normal \ {"errStatus"}
      BY <1>1 DEF Normal
  <2>3. pc' = "errStatus" /\ work' \in Objects /\ HashHeld' /\ ClientsHeld'
      BY <1>1, <1>7, <2>1, <2>2, FailInv
  <2>4. TypeOK'
      BY <1>1, <1>2, <1>5, <1>6, <1>7, <2>1, <2>3 DEF IInv, TypeOK
  <2>5. Copies'
      BY <1>1, <2>2, <2>3 DEF IInv, Copies, Normal
  <2> QED
      BY <2>3, <2>4, <2>5 DEF IInv
<1>9. CASE out = "ok" /\ left' = {}
  <2>1. Proceed
      BY <1>9 DEF SyncClient
  <2>2. ASSUME NEW c \in work.spec.clients, NEW s \in ToSync(work.spec, c),
               c = Current \/ c \notin pending
        PROVE  conf'[c][s] = work.spec.want[c][s] \/ <<c, s>> \in touched'
    <3>1. Done(c, s) \/ (c = Current /\ s \in left)
        BY <1>1, <1>4, <2>2 DEF IInv, ClientsHeld, Outstanding
    <3>2. left = call
        BY <1>1, <1>3, <1>9
    <3> QED
        BY <1>1, <1>3, <1>9, <3>1, <3>2, CallDone
  <2>3. /\ pc' \in {"connect", "status"} /\ work' \in Objects
        /\ pending' \subseteq ClientNames
        /\ pc' = "connect" => pending' # {}
        /\ HashHeld' /\ ClientsHeld'
      BY <1>1, <1>7, <2>1, <2>2, ProceedInv
  <2>4. TypeOK'
      BY <1>1, <1>2, <1>5, <1>6, <1>7, <2>1, <2>3 DEF IInv, TypeOK
  <2>5. Copies'
      BY <1>1, <2>3 DEF IInv, Copies, Normal
  <2> QED
      BY <2>3, <2>4, <2>5 DEF IInv
<1>10. CASE out = "ok" /\ left' # {}
  <2>1. UNCHANGED <<pc, work, pending>>
      BY <1>10 DEF SyncClient
  <2>2. UNCHANGED Current
      BY <2>1 DEF Current, Turns
  <2>3. TypeOK'
      BY <1>1, <1>2, <1>5, <1>6, <1>7, <2>1 DEF IInv, TypeOK
  <2>4. Copies'
      BY <1>1, <2>1 DEF IInv, Copies, Normal
  <2>5. HashHeld'
      BY <1>1, <1>7, <2>1 DEF IInv, HashHeld, Described, AfterSecret
  <2>6. ASSUME NEW c \in work.spec.clients, NEW s \in ToSync(work.spec, c)
        PROVE  Outstanding(c, s)' \/ Done(c, s)'
    <3>1. CASE Done(c, s) \/ (c = Current /\ s \in call)
        BY <1>1, <1>3, <1>10, <2>1, <3>1, CallDone DEF Done
    <3>2. CASE ~(Done(c, s) \/ (c = Current /\ s \in call))
        BY <1>1, <2>1, <2>2, <3>2 DEF IInv, ClientsHeld, Outstanding
    <3> QED
        BY <3>1, <3>2
  <2>7. ClientsHeld'
      BY <1>1, <1>4, <2>1, <2>2, <2>6 DEF ClientsHeld
  <2> QED
      BY <2>3, <2>4, <2>5, <2>7 DEF IInv
<1> QED
    BY <1>8, <1>9, <1>10

\* The end of a pass with a write of the status.
LEMMA StatusInv ==
    ASSUME IInv, NEW out \in Writes, pc \in {"status", "errStatus"},
           WriteStatus(out), EndPass,
           queued' \in BOOLEAN, timer' \in BOOLEAN,
           UNCHANGED <<cache, secret, secretDirty, podVars, credVars, conf, edits, drifts>>
    PROVE  IInv'
<1>1. obj \in Objects /\ work.status \in Statuses /\ cacheFresh \in BOOLEAN
    BY DEF IInv, TypeOK, Objects
<1>2. /\ obj' \in Objects /\ cacheFresh' \in BOOLEAN
      /\ obj'.exists = obj.exists /\ obj'.fin = obj.fin
  <2>1. cacheFresh' \in BOOLEAN
      BY <1>1 DEF WriteStatus
  <2>2. obj' = obj \/ obj' = [obj EXCEPT !.status = work.status]
      BY DEF WriteStatus
  <2> QED
      BY <1>1, <2>1, <2>2 DEF Objects
<1>3. TypeOK'
  <2>1. faults' \in 0..MaxFaults
      BY OutcomeType DEF IInv, WriteStatus
  <2> QED
      BY <1>2, <2>1, EndPassInv DEF IInv, TypeOK, podVars, credVars
<1>4. cacheFresh' => cacheFresh /\ obj' = obj
    BY <1>1 DEF WriteStatus, Objects
<1>5. Copies'
    BY <1>2, <1>4, EndPassInv DEF IInv, Copies, Normal
<1> QED
    BY <1>3, <1>5, EndPassInv DEF IInv

\* It lets a deleted object go.
LEMMA RemoveFinalizerInv ==
    ASSUME IInv, NEW out \in Writes, RemoveFinalizer(out)
    PROVE  IInv'
<1> USE DEF RemoveFinalizer, podVars, credVars
<1>1. EndPass
    OBVIOUS
<1>2. /\ obj' \in Objects /\ cacheFresh' \in BOOLEAN /\ queued' \in BOOLEAN
      /\ secret' \in [exists : BOOLEAN, data : Envs, orphan : BOOLEAN]
    BY ObjectTypes DEF IInv, TypeOK, Orphaned
<1>3. TypeOK'
  <2>1. faults' \in 0..MaxFaults
      BY OutcomeType DEF IInv
  <2> QED
      BY <1>1, <1>2, <2>1, EndPassInv DEF IInv, TypeOK
<1>4. Copies'
    BY <1>1, EndPassInv DEF IInv, Copies, Normal
<1> QED
    BY <1>1, <1>3, <1>4, EndPassInv DEF IInv

(***************************************************************************)
(* The theorems.                                                           *)
(***************************************************************************)

\* Every step keeps the invariant.
LEMMA NextInv == IInv /\ [Next]_vars => IInv'
<1> SUFFICES ASSUME IInv, [Next]_vars PROVE IInv'
    OBVIOUS
<1>1. CASE User
  <2>1. ASSUME NEW s \in Specs, UserCreates(s) \/ UserEdits(s) PROVE IInv'
      BY <2>1, UserCreatesInv, UserEditsInv
  <2>2. CASE UserDeletes
      BY <2>2, UserDeletesInv
  <2>3. ASSUME NEW v \in Secrets \cup {NoValue}, UserSetsCredentials(v) PROVE IInv'
      BY <2>3, UserCredentialsInv DEF UserSetsCredentials, IInv, TypeOK
  <2>4. ASSUME NEW c \in ClientNames, UserTogglesClientSecret(c) PROVE IInv'
    <3>1. noCreds' \subseteq ClientNames
        BY <2>4 DEF UserTogglesClientSecret, IInv, TypeOK
    <3> QED
        BY <2>4, <3>1, UserCredentialsInv DEF UserTogglesClientSecret, IInv, TypeOK
  <2>5. ASSUME NEW c \in ClientNames, NEW s \in Settings, NEW v \in Limits,
               UserSets(c, s, v)
        PROVE  IInv'
      BY <2>5, UserSetsInv
  <2>6. CASE UserRemovesSecret
      BY <2>6, UserRemovesSecretInv
  <2> QED
      BY <1>1, <2>1, <2>2, <2>3, <2>4, <2>5, <2>6 DEF User
<1>2. CASE CacheSync
    BY <1>2, CacheSyncInv
<1>3. CASE SecretSync
  <2>1. TypeOK
      BY DEF IInv
  <2> QED
      BY <1>3, <2>1, QuietInv DEF SecretSync, podVars, TypeOK
<1>4. CASE TimerFires
  <2>1. TypeOK
      BY DEF IInv
  <2> QED
      BY <1>4, <2>1, QuietInv DEF TimerFires, podVars, TypeOK
<1>5. CASE CollectGarbage
    BY <1>5, CollectGarbageInv
<1>6. CASE RollOut
  <2>1. TypeOK
      BY DEF IInv
  <2> QED
      BY <1>6, <2>1, QuietInv DEF RollOut, objVars, TypeOK
<1>7. CASE Crash
    BY <1>7, CrashInv
<1>8. CASE Worker
  <2>1. ASSUME NEW out \in Writes, UpdateStatus(out) PROVE IInv'
    <3>1. queued' \in BOOLEAN /\ timer' \in BOOLEAN
        BY <2>1 DEF UpdateStatus, IInv, TypeOK
    <3> QED
        BY <2>1, <3>1, StatusInv DEF UpdateStatus
  <2>2. ASSUME NEW out \in Writes, UpdateErrorStatus(out) PROVE IInv'
    <3>1. queued' \in BOOLEAN /\ timer' \in BOOLEAN
        BY <2>2 DEF UpdateErrorStatus, IInv, TypeOK
    <3> QED
        BY <2>2, <3>1, StatusInv DEF UpdateErrorStatus
  <2>3. ASSUME NEW out \in Reads, ResolveCredentials(out) \/ ConnectClient(out)
        PROVE  IInv'
      BY <2>3, ResolveCredentialsInv, ConnectClientInv
  <2>4. ASSUME NEW out \in Writes,
               \/ AddFinalizer(out) \/ CreateOrUpdateSecret(out)
               \/ RestartDeployment(out) \/ SyncClient(out) \/ RemoveFinalizer(out)
        PROVE  IInv'
      BY <2>4, AddFinalizerInv, CreateOrUpdateSecretInv, RestartDeploymentInv,
         SyncClientInv, RemoveFinalizerInv
  <2> QED
      BY <1>8, <2>1, <2>2, <2>3, <2>4, FetchInv, ChooseClientsInv DEF Worker
<1>9. CASE UNCHANGED vars
  <2>1. TypeOK
      BY DEF IInv
  <2> QED
      BY <1>9, <2>1, QuietInv DEF vars, objVars, podVars, TypeOK
<1> QED
    BY <1>1, <1>2, <1>3, <1>4, <1>5, <1>6, <1>7, <1>8, <1>9 DEF Next

\* The invariant holds in every reachable state.
THEOREM Invariant == Spec => []IInv
BY InitInv, NextInv, PTL DEF Spec

\* Every variable of the DownloadStackConfig controller keeps its type; a pass
\* that configures clients always has one whose turn it is.
THEOREM TypeCorrect == Spec => []TypeOK
<1>1. IInv => TypeOK
    BY DEF IInv
<1> QED
    BY <1>1, Invariant, PTL

\* reconcileNormal reports Ready=True only when every client of the spec it
\* read, and the Secret, hold what it sent them, or the user changed that very
\* thing in the meantime: for every set of clients and settings.
THEOREM ReadyIsEarned == Spec => []ReadyMeansConfigured
<1>1. IInv => ReadyMeansConfigured
    BY DEF IInv, HashHeld, Described, AfterSecret, ClientsHeld, Outstanding, Done,
           ReadyMeansConfigured
<1> QED
    BY <1>1, Invariant, PTL

\* A step that stores another hash.
LEMMA HashStep ==
    IInv /\ [Next]_vars =>
        [obj.exists /\ obj'.exists /\ obj'.status.hash # obj.status.hash =>
            \/ Covers(secret.data, obj'.status.hash)
            \/ <<"Secret", "data">> \in touched]_vars
<1> SUFFICES ASSUME IInv, Next, obj.exists, obj'.exists,
                    obj'.status.hash # obj.status.hash
             PROVE  Described(obj'.status.hash)
    BY DEF Described
<1>1. obj \in Objects
    BY DEF IInv, TypeOK
<1>2. ASSUME NEW out \in Writes, pc \in {"status", "errStatus"}, WriteStatus(out)
      PROVE  Described(obj'.status.hash)
  <2>1. workFresh /\ obj'.status = work.status
      BY <1>1, <1>2 DEF WriteStatus, Objects
  <2> QED
      BY <1>2, <2>1 DEF IInv, HashHeld, AfterSecret
<1>3. CASE User
  <2>1. ASSUME NEW sp \in Specs, UserCreates(sp) \/ UserEdits(sp)
        PROVE  FALSE
      BY <1>1, <2>1 DEF UserCreates, UserEdits, Store, Objects
  <2>2. ~UserDeletes
      BY <1>1 DEF UserDeletes, Store, Objects, NoObject
  <2>3. CASE UNCHANGED obj
      BY <2>3
  <2> QED
      BY <1>3, <2>1, <2>2, <2>3 DEF User, UserSetsCredentials, UserTogglesClientSecret,
         UserSets, UserRemovesSecret, UserDrift, objVars
<1>4. CASE CacheSync \/ SecretSync \/ TimerFires \/ CollectGarbage \/ RollOut \/ Crash
    BY <1>4 DEF CacheSync, SecretSync, TimerFires, CollectGarbage, RollOut, Crash, objVars
<1>5. CASE Worker
  <2>1. ASSUME NEW out \in Writes, UpdateStatus(out) \/ UpdateErrorStatus(out)
        PROVE  Described(obj'.status.hash)
      BY <1>2, <2>1 DEF UpdateStatus, UpdateErrorStatus
  <2>2. ASSUME NEW out \in Writes, AddFinalizer(out) \/ RemoveFinalizer(out)
        PROVE  FALSE
      BY <1>1, <2>2 DEF AddFinalizer, RemoveFinalizer, Objects, NoObject
  <2>3. ASSUME NEW out \in Writes,
               CreateOrUpdateSecret(out) \/ RestartDeployment(out) \/ SyncClient(out)
        PROVE  FALSE
      BY <2>3 DEF CreateOrUpdateSecret, RestartDeployment, SyncClient, objVars
  <2>4. ASSUME NEW out \in Reads, ResolveCredentials(out) \/ ConnectClient(out)
        PROVE  FALSE
      BY <2>4 DEF ResolveCredentials, ConnectClient, objVars
  <2>5. ~Fetch /\ ~ChooseClients
      BY DEF Fetch, ChooseClients, objVars
  <2> QED
      BY <1>5, <2>1, <2>2, <2>3, <2>4, <2>5 DEF Worker
<1> QED
    BY <1>3, <1>4, <1>5 DEF Next

\* The hash that decides on restarts of the Deployment enters the stored status
\* only while the Secret holds what it is the hash of, on the error paths of
\* reconcileNormal too.
THEOREM HashIsEarned == Spec => HashDescribesSecret
<1>1. IInv /\ [Next]_vars =>
        [obj.exists /\ obj'.exists /\ obj'.status.hash # obj.status.hash =>
            \/ Covers(secret.data, obj'.status.hash)
            \/ <<"Secret", "data">> \in touched]_vars
    BY HashStep
<1> QED
    BY <1>1, Invariant, PTL DEF Spec, HashDescribesSecret

=============================================================================
