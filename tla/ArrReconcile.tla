---------------------------- MODULE ArrReconcile ----------------------------
(***************************************************************************)
(* One *arr configuration object (RadarrConfig), the controller worker     *)
(* that reconciles it (GenericArrReconciler with ReconcileHelper), and the *)
(* Radarr service it configures.                                           *)
(*                                                                         *)
(* Around the worker:                                                      *)
(*  - the API server stores the object and accepts a write only from a     *)
(*    copy of the version it stores (optimistic concurrency); a version    *)
(*    number is needed only to tell whether a copy is that version, so     *)
(*    `cacheFresh' and `workFresh' stand for the comparison;               *)
(*  - the informer cache follows the API server, late but never backwards, *)
(*    and enqueues the object at every change it sees;                     *)
(*  - the user creates, edits and deletes the object and changes the       *)
(*    service behind the operator's back;                                  *)
(*  - calls fail: "lost" calls have no effect, "late" calls are carried    *)
(*    out by the service although the operator sees an error (the client   *)
(*    gives up after 30 seconds); the operator process itself crashes.     *)
(*                                                                         *)
(* Every call that changes something is a step of its own.  The list calls *)
(* of one CurrentState are one step: each kind is listed once.             *)
(***************************************************************************)
EXTENDS RadarrAdapter, FiniteSets

CONSTANTS
    Specs,      \* the specs users write, a set of [desired, suspend, ref]
    MaxEdits,   \* bound: creations, edits and deletions of the object
    MaxDrifts,  \* bound: changes of the service behind the operator's back
    MaxFaults   \* bound: failed calls and crashes

ASSUME SpecsAssumption ==
    Specs \subseteq [desired : Desired, suspend : BOOLEAN, ref : BOOLEAN]

ASSUME BoundsAssumption ==
    MaxEdits \in Nat /\ MaxDrifts \in Nat /\ MaxFaults \in Nat

VARIABLES
    \* Kubernetes
    obj,        \* the object in the API server
    cache,      \* the informer cache's copy of it
    cacheFresh, \* cache holds the stored version
    queued,     \* the object's key is in the work queue
    timer,      \* a RequeueAfter is running
    \* the worker
    pc,         \* where in Reconcile it is
    work,       \* its copy of the object, status included
    workFresh,  \* work was read from (or returned as) the stored version
    todo,       \* changes of the current change set not applied yet
    failed,     \* some change of this change set failed
    \* the services
    svc,        \* Radarr: resource -> entry
    tagExists,  \* Radarr: the ownership tag exists
    app,        \* Prowlarr: the application nebularr-<type>-<name> exists
    \* bookkeeping
    since,      \* what happened to a resource since CurrentState looked
    passFault,  \* some call of this pass failed
    edits, drifts, faults

kubeVars   == <<obj, cache, cacheFresh, queued, timer>>
workerVars == <<pc, work, workFresh, todo, failed>>
svcVars    == <<svc, tagExists, app>>
bookVars   == <<since, passFault, edits, drifts, faults>>
vars       == <<kubeVars, workerVars, svcVars, bookVars>>

Conditions == {"Unknown", "True", "False"}

\* The hash of a spec is represented by what it hashes.
Statuses ==
    [ready : Conditions, readyGen : Nat,
     synced : Conditions, syncedGen : Nat,
     connected : BOOLEAN, hash : Desired]

EmptyStatus ==
    [ready |-> "Unknown", readyGen |-> 0, synced |-> "Unknown",
     syncedGen |-> 0, connected |-> FALSE, hash |-> Nothing]

NoSpec == [desired |-> Nothing, suspend |-> FALSE, ref |-> FALSE]

Objects ==
    [exists : BOOLEAN, gen : Nat, spec : Specs \cup {NoSpec},
     deleting : BOOLEAN, fin : BOOLEAN, status : Statuses]

NoObject ==
    [exists |-> FALSE, gen |-> 0, spec |-> NoSpec, deleting |-> FALSE,
     fin |-> FALSE, status |-> EmptyStatus]

NormalPath ==
    {"addFinalizer", "prepare", "connect", "read", "tag", "apply",
     "panic", "directTag", "directRead", "directApply", "register", "status",
     "errStatus"}

DeletePath ==
    {"unregister", "delSecrets", "delRead", "delTag", "delApply",
     "removeFinalizer"}

\* A service the operator has never met, with the settings that every Radarr
\* has; what else it may hold, users put there.
FreshService(v) ==
    [r \in Resources |->
        IF r.kind \in SingletonKinds \/ DefaultDelayProfile(r)
        THEN [has |-> TRUE, val |-> v[r], ours |-> FALSE]
        ELSE Gone]

Init ==
    /\ obj = NoObject /\ cache = NoObject /\ cacheFresh = TRUE
    /\ queued = FALSE /\ timer = FALSE
    /\ pc = "idle" /\ work = NoObject /\ workFresh = FALSE
    /\ todo = {} /\ failed = FALSE
    /\ \E v \in [Resources -> Values] : svc = FreshService(v)
    /\ tagExists = FALSE /\ app = FALSE
    /\ since = [r \in Resources |-> "same"] /\ passFault = FALSE
    /\ edits = 0 /\ drifts = 0 /\ faults = 0

(***************************************************************************)
(* The user and the API server.                                            *)
(***************************************************************************)

\* A write by somebody else outdates the cache and the worker's copy.
Store(o) ==
    /\ obj' = o
    /\ cacheFresh' = FALSE
    /\ workFresh' = FALSE

UserEdit ==
    /\ edits < MaxEdits
    /\ edits' = edits + 1
    /\ UNCHANGED <<cache, queued, timer, pc, work, todo, failed, svcVars,
                   since, passFault, drifts, faults>>

UserCreates(s) ==
    /\ ~obj.exists
    /\ Store([NoObject EXCEPT !.exists = TRUE, !.gen = 1, !.spec = s])
    /\ UserEdit

UserEdits(s) ==
    /\ obj.exists /\ obj.spec # s
    /\ Store([obj EXCEPT !.spec = s, !.gen = @ + 1])
    /\ UserEdit

\* Deleting an object that carries a finalizer only marks it.
UserDeletes ==
    /\ obj.exists /\ ~obj.deleting
    /\ Store(IF obj.fin THEN [obj EXCEPT !.deleting = TRUE] ELSE NoObject)
    /\ UserEdit

UserDrift ==
    /\ drifts < MaxDrifts
    /\ drifts' = drifts + 1
    /\ UNCHANGED <<kubeVars, workerVars, tagExists, app, passFault, edits,
                   faults>>

\* The user changes a resource, or adds one of that name, in Radarr's own UI.
UserWrites(r, v) ==
    /\ ~svc[r].has \/ svc[r].val # v
    /\ svc' = [svc EXCEPT ![r] = [has |-> TRUE, val |-> v, ours |-> @.ours]]
    /\ since' = IF pc = "idle" \/ since[r] \in {"replaced", "unseen"}
                THEN since ELSE [since EXCEPT ![r] = "edited"]
    /\ UserDrift

UserRemoves(r) ==
    /\ svc[r].has
    /\ r.kind \notin SingletonKinds /\ ~DefaultDelayProfile(r)
    /\ svc' = [svc EXCEPT ![r] = Gone]
    /\ since' = IF pc = "idle" \/ since[r] = "unseen"
                THEN since ELSE [since EXCEPT ![r] = "replaced"]
    /\ UserDrift

(***************************************************************************)
(* Informer, timer, crash.                                                 *)
(***************************************************************************)
CacheSync ==
    /\ ~cacheFresh
    /\ cache' = obj /\ cacheFresh' = TRUE
    /\ queued' = TRUE
    /\ UNCHANGED <<obj, timer, workerVars, svcVars, bookVars>>

TimerFires ==
    /\ timer
    /\ timer' = FALSE /\ queued' = TRUE
    /\ UNCHANGED <<obj, cache, cacheFresh, workerVars, svcVars, bookVars>>

\* Every pass ends by dropping the worker's local state.
EndPass ==
    /\ pc' = "idle" /\ work' = NoObject /\ workFresh' = FALSE
    /\ todo' = {} /\ failed' = FALSE /\ passFault' = FALSE
    /\ since' = [r \in Resources |-> "same"]

\* A restarted operator lists the objects anew and enqueues all of them.
Crash ==
    /\ faults < MaxFaults
    /\ faults' = faults + 1
    /\ EndPass
    /\ cache' = obj /\ cacheFresh' = TRUE
    /\ queued' = obj.exists /\ timer' = FALSE
    /\ UNCHANGED <<obj, svcVars, edits, drifts>>

(***************************************************************************)
(* Outcomes of a call.  A pass remembers that one of its calls failed.     *)
(***************************************************************************)
Reads  == {"ok", "lost"}
Writes == {"ok", "lost", "late"}

Outcome(out) ==
    /\ out # "ok" => faults < MaxFaults
    /\ faults' = IF out = "ok" THEN faults ELSE faults + 1

Noted(out) == passFault' = (passFault \/ out # "ok")

Goto(label) == pc' = label

(***************************************************************************)
(* Reconcile: the object comes from the cache; a suspended object is left  *)
(* alone even when it is being deleted.                                    *)
(***************************************************************************)
\* Wrong variant: goes on with the object although it has no finalizer yet.
FetchWithoutFinalizer ==
    /\ pc = "idle" /\ queued
    /\ queued' = FALSE
    /\ IF ~cache.exists \/ cache.spec.suspend
       THEN UNCHANGED <<pc, work, workFresh>>
       ELSE /\ work' = cache /\ workFresh' = cacheFresh
            /\ Goto(IF cache.deleting THEN "unregister" ELSE "prepare")
    /\ UNCHANGED <<obj, cache, cacheFresh, timer, todo, failed, svcVars,
                   bookVars>>

Fetch ==
    /\ pc = "idle" /\ queued
    /\ queued' = FALSE
    /\ IF ~cache.exists \/ cache.spec.suspend
       THEN UNCHANGED <<pc, work, workFresh>>
       ELSE /\ work' = cache /\ workFresh' = cacheFresh
            /\ Goto(IF cache.deleting THEN "unregister"
                    ELSE IF ~cache.fin THEN "addFinalizer" ELSE "prepare")
    /\ UNCHANGED <<obj, cache, cacheFresh, timer, todo, failed, svcVars,
                   bookVars>>

\* Update with the finalizer added; a conflict or an error is returned and
\* both ways the object is queued again.
AddFinalizer(out) ==
    /\ pc = "addFinalizer"
    /\ Outcome(out)
    /\ IF workFresh /\ out # "lost"
       THEN obj' = [obj EXCEPT !.fin = TRUE] /\ cacheFresh' = FALSE
       ELSE UNCHANGED <<obj, cacheFresh>>
    /\ EndPass
    /\ queued' = TRUE
    /\ UNCHANGED <<cache, timer, svcVars, edits, drifts>>

SetReady(status, condition, gen) ==
    [status EXCEPT !.ready = condition, !.readyGen = gen]

\* Secrets, adapter, Discover and CompileConfig: each failure ends in the
\* same way, Ready=False and the error returned.
Prepare(out) ==
    /\ pc = "prepare"
    /\ Outcome(out) /\ Noted(out)
    /\ IF out = "ok"
       THEN Goto("connect") /\ UNCHANGED work
       ELSE /\ Goto("errStatus")
            /\ work' = [work EXCEPT !.status =
                            SetReady(@, "False", work.gen)]
    /\ UNCHANGED <<kubeVars, workFresh, todo, failed, svcVars, since, edits,
                   drifts>>

Connect(out) ==
    /\ pc = "connect"
    /\ Outcome(out) /\ Noted(out)
    /\ IF out = "ok"
       THEN /\ Goto("read")
            /\ work' = [work EXCEPT !.status.connected = TRUE]
       ELSE /\ Goto("errStatus")
            /\ work' = [work EXCEPT !.status =
                  [SetReady(@, "False", work.gen) EXCEPT !.connected = FALSE]]
    /\ UNCHANGED <<kubeVars, workFresh, todo, failed, svcVars, since, edits,
                   drifts>>

(***************************************************************************)
(* CurrentState and Diff.  A failed list call leaves its kind invisible, a *)
(* failed tag lookup leaves every kind invisible; neither is an error.     *)
(***************************************************************************)
ReadService(blind, lookup, desired) ==
    LET sees(r) == lookup /\ r.kind \notin blind
    IN  /\ blind # {} \/ ~lookup => faults < MaxFaults
        /\ faults' = IF blind # {} \/ ~lookup THEN faults + 1 ELSE faults
        /\ passFault' = (passFault \/ blind # {} \/ ~lookup)
        /\ since' = [r \in Resources |-> IF sees(r) THEN "same" ELSE "unseen"]
        /\ todo' = Diff(CurrentState(svc, tagExists /\ lookup, blind), desired)

\* Wrong variant: stores the reason where the condition's status belongs.
FinishWithReason(status, condition) ==
    [SetReady(status, "True", work.gen) EXCEPT
        !.synced = IF condition = "True" THEN "Synced" ELSE "PartiallyApplied",
        !.syncedGen = work.gen, !.hash = work.spec.desired]

\* Nothing to do is in sync; the pass then always claims success.
Finish(status, condition) ==
    [SetReady(status, "True", work.gen) EXCEPT
        !.synced = condition, !.syncedGen = work.gen,
        !.hash = work.spec.desired]

ReadCurrent(blind, lookup) ==
    /\ pc = "read"
    /\ ReadService(blind, lookup, work.spec.desired)
    /\ failed' = FALSE
    /\ IF todo' = {}
       THEN /\ Goto("directTag")
            /\ work' = [work EXCEPT !.status = Finish(@, "True")]
       ELSE Goto("tag") /\ UNCHANGED work
    /\ UNCHANGED <<kubeVars, workFresh, svcVars, edits, drifts>>

\* The adapter reports an error: StateFetchFailed.
ReadFails ==
    /\ pc = "read"
    /\ Outcome("lost") /\ Noted("lost")
    /\ Goto("errStatus")
    /\ work' = [work EXCEPT !.status = SetReady(@, "False", work.gen)]
    /\ UNCHANGED <<kubeVars, workFresh, todo, failed, svcVars, since, edits,
                   drifts>>

EnsureTag(out, next) ==
    /\ Outcome(out) /\ Noted(out)
    /\ tagExists' = (tagExists \/ out # "lost")
    /\ Goto(next)

ApplyTag ==
    /\ pc = "tag"
    /\ EnsureTag("ok", "apply")
    /\ UNCHANGED <<kubeVars, work, workFresh, todo, failed, svc, app, since,
                   edits, drifts>>

\* Apply returns (nil, err) and ReconcileConfig reads result.Applied.
ApplyTagFails(out) ==
    /\ pc = "tag"
    /\ out # "ok"
    /\ EnsureTag(out, "panic")
    /\ UNCHANGED <<kubeVars, work, workFresh, todo, failed, svc, app, since,
                   edits, drifts>>

\* controller-runtime recovers the panic and requeues; no status is written.
PanicRecovered ==
    /\ pc = "panic"
    /\ EndPass
    /\ queued' = TRUE
    /\ UNCHANGED <<obj, cache, cacheFresh, timer, svcVars, edits, drifts,
                   faults>>

(***************************************************************************)
(* Apply: one change after the other, failures are counted and the rest of *)
(* the change set still runs.                                              *)
(***************************************************************************)
ApplyOne(o, out) ==
    LET accepted == Accepted(svc, o, since[o.res] = "replaced")
    IN  /\ Outcome(out) /\ Noted(out)
        /\ todo' = todo \ {o}
        /\ failed' = (failed \/ ~accepted \/ out # "ok")
        /\ svc' = IF accepted /\ out # "lost"
                  THEN Effect(svc, o) ELSE svc

Apply(o, out) ==
    /\ pc = "apply"
    /\ ApplyOne(o, out)
    /\ UNCHANGED <<kubeVars, pc, work, workFresh, tagExists, app, since,
                   edits, drifts>>

\* Wrong variant: does not look at the failures that were counted.
ApplyDoneUnchecked ==
    /\ pc = "apply" /\ todo = {}
    /\ Goto("directTag")
    /\ work' = [work EXCEPT !.status = Finish(@, "True")]
    /\ UNCHANGED <<kubeVars, workFresh, todo, failed, svcVars, bookVars>>

ApplyDone ==
    /\ pc = "apply" /\ todo = {}
    /\ Goto("directTag")
    /\ work' = [work EXCEPT !.status =
                    Finish(@, IF failed THEN "False" ELSE "True")]
    /\ UNCHANGED <<kubeVars, workFresh, todo, failed, svcVars, bookVars>>

(***************************************************************************)
(* ApplyDirectConfig: its failures are logged and change nothing else.     *)
(***************************************************************************)
DirectSkip ==
    /\ pc = "directTag" /\ ~HasDirectWork(work.spec.desired)
    /\ Goto("register")
    /\ UNCHANGED <<kubeVars, work, workFresh, todo, failed, svcVars, bookVars>>

DirectTag(out) ==
    /\ pc = "directTag" /\ HasDirectWork(work.spec.desired)
    /\ EnsureTag(out, IF out = "ok" THEN "directRead" ELSE "register")
    /\ UNCHANGED <<kubeVars, work, workFresh, todo, failed, svc, app, since,
                   edits, drifts>>

\* A failed read of the existing lists drops the lists, not the singletons.
DirectRead(out) ==
    /\ pc = "directRead"
    /\ Outcome(out) /\ Noted(out)
    /\ todo' = {o \in ApplyDirect(svc, work.spec.desired) :
                    out = "ok" \/ o.res.kind # "ImportList"}
    /\ since' = [r \in Resources |-> IF r.kind = "ImportList" THEN "same"
                                     ELSE since[r]]
    /\ Goto("directApply")
    /\ UNCHANGED <<kubeVars, work, workFresh, failed, svcVars, edits, drifts>>

DirectApply(o, out) ==
    /\ pc = "directApply"
    /\ ApplyOne(o, out)
    /\ UNCHANGED <<kubeVars, pc, work, workFresh, tagExists, app, since,
                   edits, drifts>>

DirectDone ==
    /\ pc = "directApply" /\ todo = {}
    /\ Goto("register")
    /\ UNCHANGED <<kubeVars, work, workFresh, todo, failed, svcVars, bookVars>>

(***************************************************************************)
(* Registration with Prowlarr (non-fatal), health check (reads only), and  *)
(* the status update.                                                      *)
(***************************************************************************)
Register(out) ==
    /\ pc = "register"
    /\ Goto("status")
    /\ IF work.spec.ref
       THEN Outcome(out) /\ Noted(out) /\ app' = (app \/ out # "lost")
       ELSE out = "ok" /\ UNCHANGED <<faults, passFault, app>>
    /\ UNCHANGED <<kubeVars, work, workFresh, todo, failed, svc, tagExists,
                   since, edits, drifts>>

\* Wrong variant: a patch that carries no resource version.
WriteStatusUnconditionally(out) ==
    /\ Outcome(out)
    /\ IF obj.exists /\ out # "lost"
       THEN obj' = [obj EXCEPT !.status = work.status] /\ cacheFresh' = FALSE
       ELSE UNCHANGED <<obj, cacheFresh>>

\* Status().Update: refused unless the copy is the stored version.  It
\* carries a time stamp with the resolution of a second, so it may or may
\* not change the stored object when the rest is as before.
WriteStatus(out) ==
    /\ Outcome(out)
    /\ IF workFresh /\ out # "lost"
       THEN /\ obj' = [obj EXCEPT !.status = work.status]
            /\ cacheFresh' \in {FALSE, cacheFresh /\ obj.status = work.status}
       ELSE UNCHANGED <<obj, cacheFresh>>

\* Wrong variant: returns an empty Result, so that nothing comes back later.
UpdateStatusAndForget(out) ==
    /\ pc = "status"
    /\ WriteStatus(out)
    /\ EndPass
    /\ IF workFresh /\ out = "ok" THEN UNCHANGED queued ELSE queued' = TRUE
    /\ UNCHANGED <<cache, timer, svcVars, edits, drifts>>

UpdateStatus(out) ==
    /\ pc = "status"
    /\ WriteStatus(out)
    /\ EndPass
    /\ IF workFresh /\ out = "ok"
       THEN timer' = TRUE /\ UNCHANGED queued
       ELSE queued' = TRUE /\ UNCHANGED timer
    /\ UNCHANGED <<cache, svcVars, edits, drifts>>

\* On an error path the outcome of the update is only logged; the error
\* itself requeues the object.
UpdateErrorStatus(out) ==
    /\ pc = "errStatus"
    /\ WriteStatus(out)
    /\ EndPass
    /\ queued' = TRUE
    /\ UNCHANGED <<cache, timer, svcVars, edits, drifts>>

(***************************************************************************)
(* reconcileDelete: nothing that fails keeps the finalizer in place.       *)
(***************************************************************************)
Unregister(out) ==
    /\ pc = "unregister"
    /\ Goto("delSecrets")
    /\ IF work.spec.ref
       THEN Outcome(out) /\ Noted(out) /\ app' = (app /\ out = "lost")
       ELSE out = "ok" /\ UNCHANGED <<faults, passFault, app>>
    /\ UNCHANGED <<kubeVars, work, workFresh, todo, failed, svc, tagExists,
                   since, edits, drifts>>

DeleteSecrets(out) ==
    /\ pc = "delSecrets"
    /\ Outcome(out) /\ Noted(out)
    /\ Goto(IF out = "ok" THEN "delRead" ELSE "removeFinalizer")
    /\ UNCHANGED <<kubeVars, work, workFresh, todo, failed, svcVars, since,
                   edits, drifts>>

\* Wrong variant: diffs against the object's own desired state.
CleanupReadDesired(blind, lookup) ==
    /\ pc = "delRead"
    /\ ReadService(blind, lookup, work.spec.desired)
    /\ Goto(IF todo' = {} THEN "removeFinalizer" ELSE "delTag")
    /\ UNCHANGED <<kubeVars, work, workFresh, failed, svcVars, edits, drifts>>

CleanupRead(blind, lookup) ==
    /\ pc = "delRead"
    /\ ReadService(blind, lookup, Nothing)
    /\ Goto(IF todo' = {} THEN "removeFinalizer" ELSE "delTag")
    /\ UNCHANGED <<kubeVars, work, workFresh, failed, svcVars, edits, drifts>>

CleanupReadFails ==
    /\ pc = "delRead"
    /\ Outcome("lost") /\ Noted("lost")
    /\ Goto("removeFinalizer")
    /\ UNCHANGED <<kubeVars, work, workFresh, todo, failed, svcVars, since,
                   edits, drifts>>

CleanupTag(out) ==
    /\ pc = "delTag"
    /\ EnsureTag(out, IF out = "ok" THEN "delApply" ELSE "removeFinalizer")
    /\ UNCHANGED <<kubeVars, work, workFresh, todo, failed, svc, app, since,
                   edits, drifts>>

CleanupApply(o, out) ==
    /\ pc = "delApply"
    /\ ApplyOne(o, out)
    /\ UNCHANGED <<kubeVars, pc, work, workFresh, tagExists, app, since,
                   edits, drifts>>

CleanupDone ==
    /\ pc = "delApply" /\ todo = {}
    /\ Goto("removeFinalizer")
    /\ UNCHANGED <<kubeVars, work, workFresh, todo, failed, svcVars, bookVars>>

\* Wrong variant: swallows the error of the update.
RemoveFinalizerOnce(out) ==
    /\ pc = "removeFinalizer"
    /\ Outcome(out)
    /\ IF workFresh /\ out # "lost"
       THEN obj' = NoObject /\ cacheFresh' = FALSE
       ELSE UNCHANGED <<obj, cacheFresh>>
    /\ EndPass
    /\ UNCHANGED <<cache, queued, timer, svcVars, edits, drifts>>

\* With its only finalizer gone the API server drops the object.
RemoveFinalizer(out) ==
    /\ pc = "removeFinalizer"
    /\ Outcome(out)
    /\ IF workFresh /\ out # "lost"
       THEN obj' = NoObject /\ cacheFresh' = FALSE
       ELSE UNCHANGED <<obj, cacheFresh>>
    /\ EndPass
    /\ IF workFresh /\ out = "ok" THEN UNCHANGED queued ELSE queued' = TRUE
    /\ UNCHANGED <<cache, timer, svcVars, edits, drifts>>

(***************************************************************************)
(* The specification.                                                      *)
(***************************************************************************)
User ==
    \/ \E s \in Specs : UserCreates(s) \/ UserEdits(s)
    \/ UserDeletes
    \/ \E r \in Resources : UserRemoves(r) \/ \E v \in Values : UserWrites(r, v)

\* At most one kind's list call fails per read.
Blindings == {{}} \cup {{r.kind} : r \in Resources}

NormalStep ==
    \/ \E out \in Writes :
          \/ AddFinalizer(out) \/ ApplyTagFails(out) \/ DirectTag(out)
          \/ Register(out) \/ UpdateStatus(out) \/ UpdateErrorStatus(out)
    \/ \E out \in Reads : Prepare(out) \/ Connect(out) \/ DirectRead(out)
    \/ \E blind \in Blindings, lookup \in BOOLEAN : ReadCurrent(blind, lookup)
    \/ ReadFails \/ ApplyTag \/ PanicRecovered \/ ApplyDone \/ DirectSkip \/ DirectDone
    \/ \E o \in NextOps(todo), out \in Writes : Apply(o, out) \/ DirectApply(o, out)

DeleteStep ==
    \/ \E out \in Writes :
          Unregister(out) \/ CleanupTag(out) \/ RemoveFinalizer(out)
    \/ \E out \in Reads : DeleteSecrets(out)
    \/ \E blind \in Blindings, lookup \in BOOLEAN : CleanupRead(blind, lookup)
    \/ CleanupReadFails \/ CleanupDone
    \/ \E o \in NextOps(todo), out \in Writes : CleanupApply(o, out)

Worker == Fetch \/ NormalStep \/ DeleteStep

Next == User \/ CacheSync \/ TimerFires \/ Crash \/ Worker

\* The informer, the timers of the work queue and the worker's goroutine
\* keep running; users owe nothing, and calls fail only finitely often.
Fairness == WF_vars(CacheSync) /\ WF_vars(TimerFires) /\ WF_vars(Worker)

Spec == Init /\ [][Next]_vars /\ Fairness

(***************************************************************************)
(* Properties.                                                             *)
(***************************************************************************)

\* Every variable holds a value of its type.
Typed ==
    /\ obj \in Objects /\ cache \in Objects /\ work \in Objects
    /\ cacheFresh \in BOOLEAN /\ workFresh \in BOOLEAN
    /\ queued \in BOOLEAN /\ timer \in BOOLEAN
    /\ pc \in {"idle"} \cup NormalPath \cup DeletePath
    /\ todo \subseteq Ops /\ failed \in BOOLEAN
    /\ svc \in [Resources -> Entries]
    /\ tagExists \in BOOLEAN /\ app \in BOOLEAN
    /\ since \in [Resources -> {"same", "edited", "replaced", "unseen"}]
    /\ passFault \in BOOLEAN
    /\ edits \in 0..MaxEdits /\ drifts \in 0..MaxDrifts
    /\ faults \in 0..MaxFaults

\* Two versions of an object that differ at most in the status.
SameObject(o, p) ==
    /\ o.exists = p.exists /\ o.gen = p.gen /\ o.spec = p.spec
    /\ o.deleting = p.deleting /\ o.fin = p.fin

\* A cached copy marked fresh is the stored object; the worker's copy can only
\* be fresh while the cache is, and has the status that the worker builds.
FreshCopies ==
    /\ cacheFresh => cache = obj
    /\ workFresh => cacheFresh /\ SameObject(work, obj)

\* Type correctness: every variable holds a value of its type, and a copy that
\* an update of the object would take for the stored version (Update and
\* Status().Update compare resource versions) differs from it at most in the
\* status the worker builds.
TypeOK == Typed /\ FreshCopies

\* Whenever the worker is about to change Radarr or Prowlarr on behalf of the
\* object, the stored object carries the finalizer (Reconcile adds it and
\* returns before reconcileNormal may run), however old the copy is that the
\* worker holds: no deletion can slip past reconcileDelete.
FinalizerGuardsEffects ==
    pc \in NormalPath \ {"addFinalizer"} => obj.exists /\ obj.fin

\* A pass of reconcileDelete in which no call failed leaves behind nothing of
\* the operator's making (of the kinds Diff deletes) and no registration with
\* a referenced Prowlarr, whatever half-done passes, edits of the object and
\* changes by the user came before or in between.
CleanDeletionLeavesNothing ==
    [][pc = "removeFinalizer" /\ ~obj'.exists /\ obj.exists /\ ~passFault =>
         /\ \A r \in Resources :
               r.kind \in DeletableKinds /\ ~DefaultDelayProfile(r) =>
                  ~(svc[r].has /\ svc[r].ours)
         /\ work.spec.ref => ~app]_vars

\* No step of the operator alters or removes a resource of a tag-filtered
\* kind that the user made, except one the user put in the place of a tagged
\* one after CurrentState had looked, and then only for the kinds that Apply
\* finds by name.
UnownedUntouched ==
    [][\A r \in Resources :
         /\ r.kind \in TagFilteredKinds
         /\ svc[r].has /\ ~svc[r].ours
         /\ svc'[r] # svc[r]
         /\ drifts' = drifts
         => since[r] = "replaced" /\ r.kind \notin ByIdKinds]_vars

\* A stored status is never about anything but the stored spec: a pass that
\* worked from an outdated copy cannot overwrite what is known about a newer
\* generation (Status().Update on the copy that was read).
StatusIsAboutStoredSpec ==
    [][obj.exists /\ obj'.exists /\ obj'.status # obj.status =>
         /\ obj'.status.readyGen = obj'.gen
         /\ obj'.status.syncedGen >= obj.status.syncedGen
         /\ obj'.status.syncedGen # obj.status.syncedGen =>
               /\ obj'.status.syncedGen = obj'.gen
               /\ obj'.status.hash = obj'.spec.desired]_vars

\* What Radarr holds of a resource is what the spec asks for.  A root folder
\* is only a path.  Quality profiles and direct kinds are left out here.
Matches(r, desired) ==
    IF desired[r] # NoValue
    THEN svc[r].has /\ (r.kind = "RootFolder" \/ svc[r].val.main = desired[r].main)
    ELSE r.kind \in DeletableKinds /\ ~DefaultDelayProfile(r) =>
            ~(svc[r].has /\ svc[r].ours)

Compared == {r \in Resources : r.kind \notin DirectKinds \cup {"QualityProfile"}}

\* Synced=True is stored only when every resource that the pass could see and
\* that the user left alone since then is as the spec wants it, even though
\* changes fail one by one, calls time out after taking effect, and other
\* passes failed half-way before.
SyncedIsTruthful ==
    [][pc = "status" /\ obj'.status # obj.status /\ obj'.status.synced = "True" =>
         \A r \in Compared :
            since[r] = "same" => Matches(r, obj'.spec.desired)]_vars

Blocked(r, desired) ==
    /\ r.kind \in TagFilteredKinds
    /\ desired[r] # NoValue
    /\ svc[r].has /\ ~svc[r].ours

Active == obj.exists /\ ~obj.deleting /\ ~obj.spec.suspend

\* Once users and faults pause, an object that is neither suspended nor being
\* deleted gets its service into the desired state, whatever was lost or half
\* done before, except for a name that an unowned resource occupies; and the
\* status comes to speak of the current generation.
Converges ==
    <>[](Active =>
           /\ obj.status.readyGen = obj.gen
           /\ \A r \in Compared : \/ Matches(r, obj.spec.desired)
                                  \/ Blocked(r, obj.spec.desired))

\* An object marked for deletion goes away unless somebody suspends it:
\* failing services, lost updates and restarts do not hold it up for ever.
DeletionCompletes ==
    obj.deleting /\ ~obj.spec.suspend ~> ~obj.exists \/ obj.spec.suspend

(***************************************************************************)
(* What the documentation and the code's own messages promise.             *)
(***************************************************************************)

\* docs/DESIGN.md: "No mutation/deletion of unowned resources", here for
\* custom formats, which CurrentState lists without looking at who made them.
UnownedFormatsUntouched ==
    [][\A r \in Resources :
         /\ r.kind = "CustomFormat"
         /\ svc[r].has /\ ~svc[r].ours
         /\ svc'[r] # svc[r]
         => drifts' # drifts]_vars

=============================================================================
