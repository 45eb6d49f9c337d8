------------------------- MODULE ProwlarrCoordinator -------------------------
(***************************************************************************)
(* Two controllers that share objects: the generic reconciler of an *arr   *)
(* configuration (here only what it does about Prowlarr, finalizer and     *)
(* status; ArrReconcile has the rest) and the ProwlarrCoordinator, which   *)
(* runs per ProwlarrConfig, registers every *arr configuration that refers *)
(* to it and keeps a registration record in that configuration's status.   *)
(*                                                                         *)
(* Both read from the informer cache and write the status of the same      *)
(* objects; the API server refuses a write from an outdated copy.          *)
(***************************************************************************)
EXTENDS Integers, Sequences

CONSTANTS
    Configs,    \* the *arr configurations: a set of [type, name]
    Prowlarrs,  \* the ProwlarrConfigs
    Specs,      \* what users write: a set of [ref, auto]
    Offers,     \* what becomes of ProwlarrConfigs: a set of [state, push]
    NoRef,      \* no prowlarrRef
    NoKey,      \* no API key, no application
    SecretKey,  \* Secrets called <x>-api-key: x -> what they hold
    MaxEdits,   \* bound: writes of configurations and ProwlarrConfigs
    MaxDrifts,  \* bound: applications users remove from Prowlarr
    MaxFaults   \* bound: failed calls

Types     == {"radarr", "sonarr", "lidarr", "readarr"}
ArrTypes  == {c.type : c \in Configs}

\* The order of the coordinator's lists; those that have to be empty are left
\* out, since listing them does nothing.
TypeOrder == <<"radarr", "sonarr", "lidarr", "readarr">>

FirstOf(types) ==
    LET turns == {i \in DOMAIN TypeOrder : TypeOrder[i] \in types}
    IN  TypeOrder[CHOOSE i \in turns : \A j \in turns : i <= j]

\* Status.Connected is true or false, or the object is being deleted or gone.
ProwStates == {"connected", "unreachable", "deleting", "gone"}

\* Lidarr's reconciler leaves registration to the coordinator.
ShouldRegisterWithProwlarr(c) == c.type # "lidarr"

\* The key of the service that a configuration is about.
OwnKey(c) == <<c.type, c.name>>
Keys      == {OwnKey(c) : c \in Configs}

ASSUME ConfigsAssumption == \A c \in Configs : c.type \in Types
ASSUME SpecsAssumption ==
    Specs \subseteq [ref : Prowlarrs \cup {NoRef}, auto : BOOLEAN]
ASSUME OffersAssumption ==
    Offers \subseteq [state : ProwStates, push : SUBSET Configs]
ASSUME KeysAssumption ==
    /\ NoKey \notin Keys /\ NoRef \notin Prowlarrs
    /\ SecretKey \in [Types \cup {c.name : c \in Configs} -> Keys \cup {NoKey}]
ASSUME BoundsAssumption ==
    MaxEdits \in Nat /\ MaxDrifts \in Nat /\ MaxFaults \in Nat

\* Applications in Prowlarr: nebularr-<type>-<name> is the reconciler's,
\* nebularr-pull-<name>-<type> the coordinator's.
AppNames == {"arr", "pull"} \X Configs

VARIABLES
    obj, cache,  \* configurations in the API server and in the cache
    fresh,       \* configurations of which the cache holds the stored version
    arrQueue, arrTimer,  \* work queue and timers of the reconcilers
    coQueue, coTimer,    \* work queue and timers of the coordinator
    prow,        \* ProwlarrConfigs, as cached: [state, push]
    arr,         \* the worker of each *arr controller: [pc, cur, copy, fresh]
    co,          \* the coordinator's worker
    copies,      \* its copies of the configurations it has listed
    copyFresh,   \* those that are still the stored version
    apps,        \* in each Prowlarr: application -> API key it holds
    touched,     \* applications users removed since they were registered
    edits, drifts, faults

queues == <<arrQueue, arrTimer, coQueue, coTimer>>
coVars == <<co, copies, copyFresh>>
bounds == <<edits, drifts, faults>>
vars   == <<obj, cache, fresh, queues, prow, arr, coVars, apps, touched, bounds>>

NoRecord == [registered |-> FALSE, prowlarr |-> NoRef]
Records  == [registered : BOOLEAN, prowlarr : Prowlarrs \cup {NoRef}]

\* arrGen stands for all that the reconciler keeps in the status.
Objects ==
    [exists : BOOLEAN, gen : Nat, spec : Specs \cup {[ref |-> NoRef, auto |-> FALSE]},
     deleting : BOOLEAN, fin : BOOLEAN, arrGen : Nat, reg : Records]

NoObject ==
    [exists |-> FALSE, gen |-> 0, spec |-> [ref |-> NoRef, auto |-> FALSE],
     deleting |-> FALSE, fin |-> FALSE, arrGen |-> 0, reg |-> NoRecord]

NoConfig == [type |-> "none", name |-> "none"]
IdleArr  == [pc |-> "idle", cur |-> NoConfig, copy |-> NoObject, fresh |-> FALSE,
             ok |-> TRUE]
IdleCo   == [pc |-> "idle", p |-> NoRef, push |-> {}, types |-> {},
             items |-> {}, cur |-> NoConfig, errs |-> FALSE]

Init ==
    /\ obj = [c \in Configs |-> NoObject] /\ cache = obj /\ fresh = Configs
    /\ arrQueue = {} /\ arrTimer = {} /\ coQueue = Prowlarrs /\ coTimer = {}
    /\ prow = [p \in Prowlarrs |-> [state |-> "connected", push |-> {}]]
    /\ arr = [t \in ArrTypes |-> IdleArr] /\ co = IdleCo
    /\ copies = obj /\ copyFresh = {}
    /\ apps = [p \in Prowlarrs |-> [a \in AppNames |-> NoKey]]
    /\ touched = {} /\ edits = 0 /\ drifts = 0 /\ faults = 0

(***************************************************************************)
(* Writes of a configuration, by whomever, outdate everybody's copies.     *)
(***************************************************************************)
Store(c, o) ==
    /\ obj' = [obj EXCEPT ![c] = o]
    /\ fresh' = fresh \ {c}
    /\ copyFresh' = copyFresh \ {c}

NoStore == UNCHANGED <<obj, fresh, copyFresh>>

ArrOutdated(c) == [arr EXCEPT ![c.type].fresh = @ /\ arr[c.type].cur # c]

UserEdit == edits < MaxEdits /\ edits' = edits + 1

UserStores(c, o) ==
    /\ UserEdit
    /\ Store(c, o)
    /\ arr' = ArrOutdated(c)
    /\ UNCHANGED <<cache, queues, prow, co, copies, apps, touched, drifts, faults>>

UserCreates(c, s) ==
    /\ ~obj[c].exists
    /\ UserStores(c, [NoObject EXCEPT !.exists = TRUE, !.gen = 1, !.spec = s])

UserEdits(c, s) ==
    /\ obj[c].exists /\ obj[c].spec # s
    /\ UserStores(c, [obj[c] EXCEPT !.spec = s, !.gen = obj[c].gen + 1])

UserDeletes(c) ==
    /\ obj[c].exists /\ ~obj[c].deleting
    /\ UserStores(c, IF obj[c].fin THEN [obj[c] EXCEPT !.deleting = TRUE]
                     ELSE NoObject)

\* A ProwlarrConfig is edited, deleted or made again, or its own controller
\* finds Prowlarr reachable or not; either way the coordinator is told.  One
\* that is being deleted can only go.
ProwlarrChanges(p, to) ==
    /\ UserEdit
    /\ prow[p] # to
    /\ prow[p].state = "deleting" => to.state = "gone"
    /\ prow' = [prow EXCEPT ![p] = to]
    /\ coQueue' = coQueue \cup {p}
    /\ UNCHANGED <<obj, cache, fresh, arrQueue, arrTimer, coTimer, arr, coVars,
                   apps, touched, drifts, faults>>

UserRemovesApp(p, a) ==
    /\ drifts < MaxDrifts /\ drifts' = drifts + 1
    /\ apps[p][a] # NoKey
    /\ apps' = [apps EXCEPT ![p][a] = NoKey]
    /\ touched' = touched \cup {<<p, a>>}
    /\ UNCHANGED <<obj, cache, fresh, queues, prow, arr, coVars, edits, faults>>

(***************************************************************************)
(* Informer and timers.  The coordinator's map function is run on the old  *)
(* and on the new object.                                                  *)
(***************************************************************************)
CacheSync(c) ==
    /\ c \notin fresh
    /\ cache' = [cache EXCEPT ![c] = obj[c]] /\ fresh' = fresh \cup {c}
    /\ arrQueue' = arrQueue \cup {c}
    /\ coQueue' = coQueue \cup ({cache[c].spec.ref, obj[c].spec.ref} \ {NoRef})
    /\ UNCHANGED <<obj, arrTimer, coTimer, prow, arr, coVars, apps, touched, bounds>>

ArrTimerFires(c) ==
    /\ c \in arrTimer
    /\ arrTimer' = arrTimer \ {c} /\ arrQueue' = arrQueue \cup {c}
    /\ UNCHANGED <<obj, cache, fresh, coQueue, coTimer, prow, arr, coVars, apps,
                   touched, bounds>>

CoTimerFires(p) ==
    /\ p \in coTimer
    /\ coTimer' = coTimer \ {p} /\ coQueue' = coQueue \cup {p}
    /\ UNCHANGED <<obj, cache, fresh, arrQueue, arrTimer, prow, arr, coVars, apps,
                   touched, bounds>>

Reads  == {"ok", "lost"}
Writes == {"ok", "lost", "late"}  \* late: done, but the caller sees an error

Outcome(out) ==
    /\ out # "ok" => faults < MaxFaults
    /\ faults' = IF out = "ok" THEN faults ELSE faults + 1

\* RegistrationService.Register finds the application by name and updates or
\* creates it; Unregister finds and deletes it.
Register(p, a, key, out) ==
    /\ apps' = IF out = "lost" THEN apps ELSE [apps EXCEPT ![p][a] = key]
    /\ touched' = IF out = "lost" THEN touched ELSE touched \ {<<p, a>>}

Unregister(p, a, out) ==
    /\ apps' = IF out = "lost" THEN apps ELSE [apps EXCEPT ![p][a] = NoKey]
    /\ UNCHANGED touched

(***************************************************************************)
(* The reconcilers of the *arr configurations.                             *)
(***************************************************************************)
\* Wrong variant: takes the cached copy for the stored version.
ArrFetchTrusting(c) ==
    /\ arr[c.type].pc = "idle" /\ c \in arrQueue /\ cache[c].exists
    /\ arrQueue' = arrQueue \ {c} /\ arrTimer' = arrTimer \ {c}
    /\ arr' = [arr EXCEPT ![c.type] =
                 [pc |-> IF cache[c].deleting THEN "unregister" ELSE "addFinalizer",
                  cur |-> c, copy |-> cache[c], fresh |-> TRUE, ok |-> TRUE]]
    /\ UNCHANGED <<obj, cache, fresh, coQueue, coTimer, prow, coVars, apps, touched,
                   bounds>>

ArrFetch(c) ==
    /\ arr[c.type].pc = "idle" /\ c \in arrQueue
    /\ arrQueue' = arrQueue \ {c} /\ arrTimer' = arrTimer \ {c}
    /\ arr' = [arr EXCEPT ![c.type] =
                 IF ~cache[c].exists THEN IdleArr
                 ELSE [pc |-> CASE cache[c].deleting -> "unregister"
                                [] ~cache[c].deleting /\ ~cache[c].fin -> "addFinalizer"
                                [] OTHER -> "sync",
                       cur |-> c, copy |-> cache[c], fresh |-> c \in fresh, ok |-> TRUE]]
    /\ UNCHANGED <<obj, cache, fresh, coQueue, coTimer, prow, coVars, apps, touched,
                   bounds>>

\* The end of a pass: what the work queue is told.
ArrEnds(t, result) ==
    /\ arr' = [arr EXCEPT ![t] = IdleArr]
    /\ arrQueue' = IF result = "requeue" THEN arrQueue \cup {arr[t].cur} ELSE arrQueue
    /\ arrTimer' = IF result = "after" THEN arrTimer \cup {arr[t].cur} ELSE arrTimer
    /\ UNCHANGED <<coQueue, coTimer>>

ArrAddFinalizer(t, out) ==
    /\ arr[t].pc = "addFinalizer"
    /\ Outcome(out)
    /\ IF arr[t].fresh /\ out # "lost"
         THEN Store(arr[t].cur, [obj[arr[t].cur] EXCEPT !.fin = TRUE])
         ELSE NoStore
    /\ ArrEnds(t, "requeue")
    /\ UNCHANGED <<cache, prow, co, copies, apps, touched, edits, drifts>>

\* Everything before the registration (ArrReconcile); any of it may fail,
\* which ends the pass with an error in the status.
ArrSync(t, out) ==
    /\ arr[t].pc = "sync"
    /\ Outcome(out)
    /\ arr' = [arr EXCEPT ![t].pc = IF out = "ok" THEN "register" ELSE "status",
                          ![t].ok = out = "ok"]
    /\ UNCHANGED <<obj, cache, fresh, queues, prow, coVars, apps, touched, edits, drifts>>

HandleProwlarrRegistration(t, out) ==
    LET c == arr[t].cur
        ref == arr[t].copy.spec.ref
    IN  /\ arr[t].pc = "register"
        /\ Outcome(out)
        /\ IF /\ ShouldRegisterWithProwlarr(c)
              /\ ref # NoRef /\ arr[t].copy.spec.auto
              /\ prow[ref].state # "gone"
             THEN Register(ref, <<"arr", c>>, OwnKey(c), out)
             ELSE UNCHANGED <<apps, touched>>
        /\ arr' = [arr EXCEPT ![t].pc = "status"]  \* a failure is not fatal
        /\ UNCHANGED <<obj, cache, fresh, queues, prow, coVars, edits, drifts>>

\* Status().Update sends the whole status of the pass's copy, the
\* coordinator's record included.  A write that changes nothing is none, but a
\* time stamp may have moved.
ArrUpdateStatus(t, out) ==
    LET c == arr[t].cur
        new == [obj[c] EXCEPT !.arrGen = arr[t].copy.gen, !.reg = arr[t].copy.reg]
        written == arr[t].fresh /\ out # "lost"
    IN  /\ arr[t].pc = "status"
        /\ Outcome(out)
        /\ \/ written /\ Store(c, new)
           \/ (~written \/ new = obj[c]) /\ NoStore
        /\ ArrEnds(t, IF written /\ out = "ok" /\ arr[t].ok THEN "after" ELSE "requeue")
        /\ UNCHANGED <<cache, prow, co, copies, apps, touched, edits, drifts>>

\* Wrong variant: unregisters only what is still to be registered.
HandleProwlarrUnregistrationIfAuto(t, out) ==
    LET spec == arr[t].copy.spec
    IN  /\ arr[t].pc = "unregister"
        /\ Outcome(out)
        /\ IF spec.ref # NoRef /\ spec.auto /\ prow[spec.ref].state # "gone"
             THEN Unregister(spec.ref, <<"arr", arr[t].cur>>, out)
             ELSE UNCHANGED <<apps, touched>>
        /\ arr' = [arr EXCEPT ![t].pc = "removeFinalizer", ![t].ok = out # "lost"]
        /\ UNCHANGED <<obj, cache, fresh, queues, prow, coVars, edits, drifts>>

\* spec.autoRegister is not looked at, and nothing here stops the deletion.
HandleProwlarrUnregistration(t, out) ==
    LET ref == arr[t].copy.spec.ref
    IN  /\ arr[t].pc = "unregister"
        /\ Outcome(out)
        /\ IF ref # NoRef /\ prow[ref].state # "gone"
             THEN Unregister(ref, <<"arr", arr[t].cur>>, out)
             ELSE UNCHANGED <<apps, touched>>
        /\ arr' = [arr EXCEPT ![t].pc = "removeFinalizer", ![t].ok = out # "lost"
                              /\ (ref = NoRef \/ prow[ref].state # "gone")]
        /\ UNCHANGED <<obj, cache, fresh, queues, prow, coVars, edits, drifts>>

ArrRemoveFinalizer(t, out) ==
    LET c == arr[t].cur
        written == arr[t].fresh /\ out # "lost"
    IN  /\ arr[t].pc = "removeFinalizer"
        /\ Outcome(out)
        /\ IF written THEN Store(c, NoObject) ELSE NoStore
        /\ ArrEnds(t, IF written /\ out = "ok" THEN "done" ELSE "requeue")
        /\ UNCHANGED <<cache, prow, co, copies, apps, touched, edits, drifts>>

(***************************************************************************)
(* The coordinator.                                                        *)
(***************************************************************************)
CoFetch(p, out) ==
    /\ co.pc = "idle" /\ p \in coQueue
    /\ Outcome(out)
    /\ co' = IF out = "ok" /\ prow[p].state = "connected"
               THEN [IdleCo EXCEPT !.pc = "list", !.p = p, !.push = prow[p].push,
                                   !.types = ArrTypes]
               ELSE IdleCo
    /\ coQueue' = IF out = "ok" THEN coQueue \ {p} ELSE coQueue
    /\ coTimer' = IF out = "ok" /\ prow[p].state = "unreachable"
                    THEN coTimer \cup {p} ELSE coTimer \ {p}
    /\ UNCHANGED <<obj, cache, fresh, arrQueue, arrTimer, prow, arr, copies, copyFresh,
                   apps, touched, edits, drifts>>

\* One type's configurations are listed from the cache, those being deleted
\* included; a type whose listing fails is left out without an error.
CoList(out) ==
    LET items == {c \in Configs : c.type = FirstOf(co.types) /\ cache[c].exists}
    IN  /\ co.pc = "list" /\ co.types # {}
        /\ Outcome(out)
        /\ co' = [co EXCEPT !.types = @ \ {FirstOf(@)},
                            !.items = IF out = "ok" THEN items ELSE {},
                            !.pc = IF out = "ok" /\ items # {} THEN "process" ELSE "list"]
        /\ copies' = [c \in Configs |-> IF out = "ok" /\ c \in items THEN cache[c]
                                        ELSE NoObject]
        /\ copyFresh' = IF out = "ok" THEN items \cap fresh ELSE {}
        /\ UNCHANGED <<obj, cache, fresh, queues, prow, arr, apps, touched, edits, drifts>>

\* The key comes from the Secret of the type or else from that of the name;
\* a Secret that cannot be read is one that is not there.
ResolveSecretValue(c, out) ==
    IF out # "typeUnread" /\ out # "unread" /\ SecretKey[c.type] # NoKey
      THEN SecretKey[c.type]
    ELSE IF out # "unread" THEN SecretKey[c.name]
    ELSE NoKey

\* Wrong variant: trusts a record that says "registered".
VerdictOnce(c, key) ==
    LET spec == copies[c].spec
    IN  CASE copies[c].reg = [registered |-> TRUE, prowlarr |-> co.p] -> "other"
          [] spec.ref = NoRef -> "noRef"
          [] spec.ref \notin {NoRef, co.p} -> "other"
          [] OTHER -> IF spec.auto /\ key # NoKey THEN "register" ELSE "manual"

\* processAppConfig up to the call to Prowlarr.
Verdict(c, key) ==
    LET spec == copies[c].spec
    IN  CASE spec.ref = NoRef -> "noRef"
          [] spec.ref \notin {NoRef, co.p} -> "other"
          [] spec.ref = co.p /\ c \in co.push -> "conflict"
          [] spec.ref = co.p /\ c \notin co.push /\ ~spec.auto -> "manual"
          [] OTHER -> IF key = NoKey THEN "noKey" ELSE "register"

\* Wrong variant: the record is made before the call and not corrected.
RecordOptimistic(c, verdict, registered) ==
    IF verdict \in {"other", "noRef"} THEN copies[c].reg
    ELSE [registered |-> verdict = "register", prowlarr |-> co.p]

\* Wrong variant: the record follows the reference without a registration.
RecordFollowing(c, verdict, registered) ==
    IF verdict = "other" THEN [copies[c].reg EXCEPT !.prowlarr = copies[c].spec.ref]
    ELSE IF verdict = "noRef" THEN NoRecord
    ELSE [registered |-> registered, prowlarr |-> co.p]

\* The record that processAppConfig leaves in its copy.
Record(c, verdict, registered) ==
    CASE verdict = "other" -> copies[c].reg
      [] verdict = "noRef" -> IF copies[c].reg = [registered |-> TRUE, prowlarr |-> co.p]
                                THEN NoRecord ELSE copies[c].reg
      [] OTHER -> [registered |-> registered, prowlarr |-> co.p]

ProcessAppConfig(c, out) ==
    LET key == ResolveSecretValue(c, out)
        verdict == Verdict(c, key)
        registered == verdict = "register" /\ out \notin {"lost", "late"}
    IN  /\ co.pc = "process" /\ c \in co.items
        /\ Outcome(out)
        /\ IF verdict = "register"
             THEN Register(co.p, <<"pull", c>>, key, out)
             ELSE UNCHANGED <<apps, touched>>
        /\ copies' = [copies EXCEPT ![c].reg = Record(c, verdict, registered)]
        /\ co' = [co EXCEPT !.pc = "status", !.cur = c, !.items = @ \ {c},
                            !.errs = @ \/ verdict \in {"conflict", "noKey"}
                                       \/ (verdict = "register" /\ ~registered)]
        /\ UNCHANGED <<obj, cache, fresh, copyFresh, queues, prow, arr, edits, drifts>>

\* Wrong variant: writes without the resource version.
CoUpdateStatusUnconditionally(out) ==
    LET c == co.cur
    IN  /\ co.pc = "status" /\ out = "ok"
        /\ Outcome(out)
        /\ IF obj[c].exists
             THEN Store(c, [obj[c] EXCEPT !.arrGen = copies[c].arrGen,
                                          !.reg = copies[c].reg])
             ELSE NoStore
        /\ arr' = ArrOutdated(c)
        /\ copies' = [copies EXCEPT ![c] = NoObject]
        /\ co' = [co EXCEPT !.cur = NoConfig,
                            !.pc = IF co.items = {} THEN "list" ELSE "process"]
        /\ UNCHANGED <<cache, queues, prow, apps, touched, edits, drifts>>

\* The status is sent whatever processAppConfig did, and a refusal is only
\* logged.
CoUpdateStatus(out) ==
    LET c == co.cur
        new == [obj[c] EXCEPT !.arrGen = copies[c].arrGen, !.reg = copies[c].reg]
    IN  /\ co.pc = "status"
        /\ Outcome(out)
        /\ \/ /\ c \in copyFresh /\ out # "lost"
              /\ new # obj[c] \/ copies[c].reg.registered
              /\ Store(c, new) /\ arr' = ArrOutdated(c)
           \/ /\ c \notin copyFresh \/ out = "lost" \/ new = obj[c]
              /\ NoStore /\ UNCHANGED arr
        /\ copies' = [copies EXCEPT ![c] = NoObject]
        /\ co' = [co EXCEPT !.cur = NoConfig,
                            !.pc = IF co.items = {} THEN "list" ELSE "process"]
        /\ UNCHANGED <<cache, queues, prow, apps, touched, edits, drifts>>

CoDone ==
    /\ co.pc = "list" /\ co.types = {}
    /\ co' = IdleCo /\ copyFresh' = {}
    /\ coQueue' = IF co.errs THEN coQueue \cup {co.p} ELSE coQueue
    /\ coTimer' = IF co.errs THEN coTimer ELSE coTimer \cup {co.p}
    /\ UNCHANGED <<obj, cache, fresh, arrQueue, arrTimer, prow, arr, copies, apps, touched,
                   bounds>>

(***************************************************************************)
(* The system.                                                             *)
(***************************************************************************)
User ==
    \/ \E c \in Configs : \/ \E s \in Specs : UserCreates(c, s) \/ UserEdits(c, s)
                          \/ UserDeletes(c)
    \/ \E p \in Prowlarrs :
          \/ \E to \in Offers : ProwlarrChanges(p, to)
          \/ \E a \in AppNames : UserRemovesApp(p, a)

ArrStep(t, out) ==
    \/ ArrAddFinalizer(t, out)
    \/ HandleProwlarrRegistration(t, out)
    \/ ArrUpdateStatus(t, out)
    \/ HandleProwlarrUnregistration(t, out)
    \/ ArrRemoveFinalizer(t, out)

ArrWorker(t) ==
    \/ \E c \in Configs : c.type = t /\ ArrFetch(c)
    \/ \E out \in Reads : ArrSync(t, out)
    \/ \E out \in Writes : ArrStep(t, out)

CoWorker ==
    \/ \E out \in Reads : \/ \E p \in Prowlarrs : CoFetch(p, out)
                          \/ CoList(out)
    \/ \E c \in Configs, out \in Writes \cup {"typeUnread", "unread"} :
          ProcessAppConfig(c, out)
    \/ \E out \in Writes : CoUpdateStatus(out)
    \/ CoDone

\* The operator is restarted: what it held in memory is gone, and the caches
\* are filled and everything is queued again.
Restart ==
    /\ faults < MaxFaults /\ faults' = faults + 1
    /\ cache' = obj /\ fresh' = Configs
    /\ arrQueue' = {c \in Configs : obj[c].exists} /\ arrTimer' = {}
    /\ coQueue' = Prowlarrs /\ coTimer' = {}
    /\ arr' = [t \in ArrTypes |-> IdleArr]
    /\ co' = IdleCo /\ copies' = [c \in Configs |-> NoObject] /\ copyFresh' = {}
    /\ UNCHANGED <<obj, prow, apps, touched, edits, drifts>>

Next ==
    \/ User
    \/ \E c \in Configs : CacheSync(c) \/ ArrTimerFires(c)
    \/ \E p \in Prowlarrs : CoTimerFires(p)
    \/ \E t \in ArrTypes : ArrWorker(t)
    \/ CoWorker
    \/ Restart

\* Informers, timers and workers keep going; users owe nothing, and calls fail
\* finitely often.  The work queue hands out its keys in order of arrival, so
\* no key is passed over for ever.
Fairness ==
    /\ \A c \in Configs : /\ WF_vars(CacheSync(c)) /\ WF_vars(ArrTimerFires(c))
                          /\ SF_vars(ArrFetch(c))
    /\ \A p \in Prowlarrs : /\ WF_vars(CoTimerFires(p))
                            /\ SF_vars(\E out \in Reads : CoFetch(p, out))
    /\ \A t \in ArrTypes : WF_vars(ArrWorker(t))
    /\ WF_vars(CoWorker)

Spec == Init /\ [][Next]_vars
FairSpec == Spec /\ Fairness

(***************************************************************************)
(* Properties.                                                             *)
(***************************************************************************)
ArrPasses ==
    [pc : {"idle", "addFinalizer", "sync", "register", "status", "unregister",
           "removeFinalizer"},
     cur : Configs \cup {NoConfig}, copy : Objects, fresh : BOOLEAN, ok : BOOLEAN]

CoPasses ==
    [pc : {"idle", "list", "process", "status"}, p : Prowlarrs \cup {NoRef},
     push : SUBSET Configs, types : SUBSET ArrTypes, items : SUBSET Configs,
     cur : Configs \cup {NoConfig}, errs : BOOLEAN]

\* Every variable stays in its domain; no copy is called fresh unless it is
\* the stored version.
TypeOK ==
    /\ obj \in [Configs -> Objects] /\ cache \in [Configs -> Objects]
    /\ \A c \in fresh : cache[c] = obj[c]
    /\ fresh \subseteq Configs /\ copyFresh \subseteq Configs
    /\ arrQueue \subseteq Configs /\ arrTimer \subseteq Configs
    /\ coQueue \subseteq Prowlarrs /\ coTimer \subseteq Prowlarrs
    /\ prow \in [Prowlarrs -> [state : ProwStates, push : SUBSET Configs]]
    /\ arr \in [ArrTypes -> ArrPasses]
    /\ \A t \in ArrTypes : arr[t].fresh => arr[t].copy = obj[arr[t].cur]
    /\ co \in CoPasses
    /\ copies \in [Configs -> Objects]
    /\ apps \in [Prowlarrs -> [AppNames -> Keys \cup {NoKey}]]
    /\ touched \subseteq Prowlarrs \X AppNames
    /\ edits \in 0..MaxEdits /\ drifts \in 0..MaxDrifts /\ faults \in 0..MaxFaults

\* Two controllers and the users write one object.  A write of one never takes
\* back what another has written: the record of the coordinator changes alone,
\* and the reconciler's part of the status never goes back.
NoLostUpdate ==
    [][\A c \in Configs :
         obj[c].exists /\ obj'[c].exists =>
            /\ obj'[c].arrGen >= obj[c].arrGen
            /\ obj'[c].reg # obj[c].reg => [obj[c] EXCEPT !.reg = obj'[c].reg] = obj'[c]
      ]_vars

\* A stored record that says "registered with p" is true: Prowlarr p has the
\* coordinator's application, unless a user has removed it.
RegisteredIsTruthful ==
    \A c \in Configs :
        obj[c].reg.registered =>
            \/ apps[obj[c].reg.prowlarr][<<"pull", c>>] # NoKey
            \/ <<obj[c].reg.prowlarr, <<"pull", c>>>> \in touched

\* A configuration that goes after an unregistration that reached Prowlarr
\* leaves no application of its reconciler behind in the Prowlarr that its
\* last specification refers to, whatever users edited in the meantime.
UnregisteredBeforeGone ==
    [][\A c \in Configs :
         /\ obj[c].exists /\ obj[c].fin /\ ~obj'[c].exists
         /\ arr[c.type].ok /\ obj[c].spec.ref # NoRef
         => apps'[obj[c].spec.ref][<<"arr", c>>] = NoKey]_vars

\* A configuration that goes on referring to a connected Prowlarr ends up
\* registered there, with the key that its Secret holds, whatever failed,
\* conflicted or was removed on the way.
Wants(c, p) ==
    /\ obj[c].exists /\ obj[c].spec = [ref |-> p, auto |-> TRUE]
    /\ prow[p].state = "connected" /\ c \notin prow[p].push
    /\ ResolveSecretValue(c, "ok") # NoKey

RegistrationConverges ==
    \A c \in Configs, p \in Prowlarrs :
        <>[]Wants(c, p) => <>[](apps[p][<<"pull", c>>] = ResolveSecretValue(c, "ok"))

=============================================================================
