----------------------------- MODULE AdapterPass -----------------------------
(***************************************************************************)
(* Passes of the Radarr, Sonarr, Lidarr, Readarr and Prowlarr adapters     *)
(* over the services of two configuration objects, as ReconcileHelper and  *)
(* the reconcilers run them: read, compare, ensure the tag, apply one      *)
(* change after the other, apply the direct parts; after the deletion of   *)
(* the object one pass that desires nothing.                               *)
(*                                                                         *)
(* One worker per configuration type runs one pass at a time, so the       *)
(* package-level variables of an adapter (the ids of the managed quality   *)
(* profile and of the naming configuration, Prowlarr's id caches) are      *)
(* shared by the passes over both services and never by two at once.       *)
(*                                                                         *)
(* A scene fixes the application and the kind of resource that is watched; *)
(* a behaviour stays in its scene.  Between any two calls the user changes *)
(* the service; calls are lost or come late; the operator crashes.         *)
(***************************************************************************)
EXTENDS Adapters

CONSTANTS
    Scenes,     \* [app, kind, irs, raw, schema, lists, drifts]; drifts bounds
                \* the changes of a service behind the operator's back
    Services,   \* the services of the configuration objects
    UserNames,  \* names that only users give
    MaxEdits,   \* bound: changes of the desired configuration
    MaxFaults,  \* bound: failed calls and crashes
    Active      \* the service that edits, drifts and faults are about

ASSUME ServicesAssumption == Active \in Services /\ "idle" \notin Services

ASSUME BoundsAssumption == MaxEdits \in Nat /\ MaxFaults \in Nat

\* A scene is about a kind that the adapter manages.  Its IRs hold resources
\* of that kind; the quality profile is named after the configuration object,
\* so that all of them give it one name.
ASSUME ScenesAssumption ==
    \A sc \in Scenes :
        /\ sc.app \in Apps /\ sc.drifts \in Nat
        /\ sc.kind \in DOMAIN AdapterKindRank(sc.app) \cup
                           (IF sc.app \in DirectAppliers THEN DOMAIN DirectOrder ELSE {})
        /\ \A d \in UNION sc.irs : d.kind = sc.kind /\ DOMAIN d = {"kind", "id", "name", "cfg"}
        /\ sc.kind = "QualityProfile" => \A d, e \in UNION sc.irs : d.name = e.name

VARIABLES
    scene,
    svc,       \* service -> its state
    want,      \* service -> the desired IR
    gone,      \* service -> its configuration object is being deleted
    globals,   \* package-level ids of the Sonarr or Lidarr adapter
    caches,    \* service -> id cache of the Prowlarr adapter
    pass,      \* the pass that runs
    settled,   \* service -> its last pass was clean and nothing has changed since
    edits, drifts, faults

vars == <<scene, svc, want, gone, globals, caches, pass, settled, edits, drifts, faults>>

NoPass ==
    [on |-> "idle", phase |-> "idle", desired |-> {}, cleanup |-> FALSE, todo |-> {},
     requests |-> {}, failed |-> FALSE, calm |-> TRUE, settled |-> FALSE]

\* An installed service has its singletons and nothing else.
Installed(sc, first) ==
    [tag |-> FALSE, next |-> first + 1,
     items |-> IF sc.kind \in Singletons
               THEN {[kind |-> sc.kind, id |-> first, name |-> "", ours |-> FALSE, cfg |-> c] :
                        c \in {CHOOSE c \in sc.raw : TRUE}}
               ELSE {}]

Init ==
    /\ scene \in Scenes
    /\ \E first \in [Services -> 1 .. 2] :
           /\ \A s \in Services : first[s] = IF s = Active THEN 1 ELSE 2
           /\ svc = [s \in Services |-> Installed(scene, first[s])]
    /\ want \in [Services -> scene.irs]
    /\ \A s \in Services \ {Active} : want[s] = CHOOSE ir \in scene.irs : ir # {}
    /\ gone = [s \in Services |-> FALSE]
    /\ globals = [profile |-> NoId, naming |-> 1]
    /\ caches = [s \in Services |-> [k \in {} |-> NoId]]
    /\ pass = NoPass
    /\ settled = [s \in Services |-> FALSE]
    /\ edits = 0 /\ drifts = 0 /\ faults = 0

(***************************************************************************)
(* The user.                                                               *)
(***************************************************************************)
Disturb(s) ==
    /\ settled' = [settled EXCEPT ![s] = FALSE]
    /\ pass' = IF pass.on = s THEN [pass EXCEPT !.calm = FALSE] ELSE pass

UserEdits(ir) ==
    /\ edits < MaxEdits /\ ~gone[Active]
    /\ ir # want[Active]
    /\ edits' = edits + 1
    /\ want' = [want EXCEPT ![Active] = ir]
    /\ settled' = [settled EXCEPT ![Active] = FALSE]
    /\ UNCHANGED <<scene, svc, gone, globals, caches, pass, drifts, faults>>

UserDeletes ==
    /\ edits < MaxEdits /\ ~gone[Active]
    /\ edits' = edits + 1
    /\ gone' = [gone EXCEPT ![Active] = TRUE]
    /\ want' = [want EXCEPT ![Active] = {}]
    /\ settled' = [settled EXCEPT ![Active] = FALSE]
    /\ UNCHANGED <<scene, svc, globals, caches, pass, drifts, faults>>

Drift ==
    /\ drifts < scene.drifts
    /\ drifts' = drifts + 1
    /\ Disturb(Active)
    /\ UNCHANGED <<scene, want, gone, globals, caches, edits, faults>>

\* A name with the prefix would make the resource the operator's.  Readarr
\* deletes by name, Radarr also updates by name: a user who takes over a name
\* that such a change is about loses the resource, which is left out here.
UserCreates(n, c) ==
    /\ scene.kind \notin Singletons
    /\ scene.kind \in PrefixKinds => n \in UserNames
    /\ scene.app \in {"radarr", "readarr"} =>
           \A ch \in pass.todo : ch.op # "create" => ch.name # n
    /\ LET q == Request("POST", scene.kind, NoId, n, c, FALSE)
       IN  Accepts(svc[Active], q) /\ svc' = [svc EXCEPT ![Active] = Serve(@, q)]
    /\ Drift

UserWrites(x, c) ==
    /\ x.cfg # c
    /\ svc' = [svc EXCEPT ![Active].items = (@ \ {x}) \cup {[x EXCEPT !.cfg = c]}]
    /\ Drift

UserRemoves(x) ==
    /\ x.kind \notin Singletons
    /\ svc' = [svc EXCEPT ![Active].items = @ \ {x}]
    /\ Drift

(***************************************************************************)
(* A pass.                                                                 *)
(***************************************************************************)
RequestFor(s, ch) == AdapterApply(scene.app, svc[s], scene.schema, caches[s], ch)

DirectRequests(s, desired, kind) == AdapterDirectRequests(scene.app, svc[s], scene.lists, desired, kind)

\* A failed call is a fault.
Outcome(out) ==
    /\ out # "ok" => pass.on = Active /\ faults < MaxFaults
    /\ faults' = faults + (IF out = "ok" THEN 0 ELSE 1)

\* The list calls of one CurrentState and the diff, which makes no call.
Read(s, out) ==
    /\ pass.on = "idle"
    /\ out # "ok" => s = Active /\ faults < MaxFaults
    /\ faults' = faults + (IF out = "ok" THEN 0 ELSE 1)
    /\ LET current == AdapterCurrentState(scene.app, svc[s], scene.schema,
                                          GetOwnershipTagID(svc[s], out # "tagsLost"),
                                          IF out = "listLost" THEN {scene.kind} ELSE {})
           ids     == GlobalsAfter(scene.app, current, globals)
           desired == IF gone[s] THEN {} ELSE want[s]
           plan    == AdapterDiff(scene.app, current, desired, ids, gone[s])
       IN  /\ globals' = ids
           /\ caches'  = [caches EXCEPT ![s] = IF scene.app = "prowlarr"
                                               THEN Prowlarr!cached(@, current) ELSE @]
           /\ pass'    = [NoPass EXCEPT !.on = s, !.desired = desired, !.cleanup = gone[s],
                                        !.todo = plan, !.calm = out = "ok" /\ svc[s].tag,
                                        !.settled = settled[s] /\ out = "ok",
                                        !.phase = IF IsEmpty(plan) THEN "direct" ELSE "tag"]
    /\ settled' = [settled EXCEPT ![s] = FALSE]
    /\ UNCHANGED <<scene, svc, want, gone, edits, drifts>>

\* Apply ensures the tag before its first change; without it the pass fails.
EnsureTag(out) ==
    /\ pass.phase = "tag"
    /\ Outcome(out)
    /\ svc'  = IF out = "lost" THEN svc ELSE [svc EXCEPT ![pass.on] = EnsureOwnershipTag(@)]
    /\ pass' = IF out = "ok" THEN [pass EXCEPT !.phase = "apply"] ELSE NoPass
    /\ UNCHANGED <<scene, want, gone, globals, caches, settled, edits, drifts>>

\* A request is refused by the service, or goes through, or its answer does
\* not arrive ("lost" never reached the service, "late" did).
Send(q, out) ==
    svc' = IF out # "lost" /\ Accepts(svc[pass.on], q)
           THEN [svc EXCEPT ![pass.on] = Serve(@, q)] ELSE svc

Done(q, out) == out = "ok" /\ Accepts(svc[pass.on], q)

ApplyOne(ch, out) ==
    /\ pass.phase = "apply" /\ ch \in ApplyChanges(pass.todo, AdapterKindRank(scene.app))
    /\ Outcome(out)
    /\ LET q == RequestFor(pass.on, ch)
       IN  /\ Send(q, out)
           /\ caches' = [caches EXCEPT ![pass.on] =
                            IF scene.app = "prowlarr"
                            THEN Prowlarr!CacheAfter(svc[pass.on], @, ch, Done(q, out)) ELSE @]
           /\ pass'   = [pass EXCEPT !.todo = @ \ {ch}, !.failed = @ \/ ~Done(q, out)]
    /\ UNCHANGED <<scene, want, gone, globals, settled, edits, drifts>>

\* Radarr, Sonarr and Lidarr have parts that are applied without a comparison; the
\* pass after the deletion of the object does not apply them.
DirectKinds ==
    IF scene.app \in DirectAppliers /\ ~pass.cleanup
    THEN {kind \in ApplyDirect(pass.desired) : kind = scene.kind} ELSE {}

ReadDirect(out) ==
    /\ pass.phase = "direct" \/ (pass.phase = "apply" /\ pass.todo = {})
    /\ DirectKinds # {}
    /\ Outcome(out)
    /\ IF out = "ok"
       THEN /\ svc'  = [svc EXCEPT ![pass.on] = EnsureOwnershipTag(@)]
            /\ pass' = [pass EXCEPT !.phase = "send",
                                    !.requests = UNION {DirectRequests(pass.on, pass.desired, k) :
                                                            k \in DirectKinds}]
       ELSE /\ svc'  = svc
            /\ pass' = [pass EXCEPT !.phase = "send", !.failed = TRUE]
    /\ UNCHANGED <<scene, want, gone, globals, caches, settled, edits, drifts>>

\* Updates and creates go before the deletions of orphans.
SendDirect(q, out) ==
    /\ pass.phase = "send" /\ q \in pass.requests
    /\ q.verb = "DELETE" => \A r \in pass.requests : r.verb = "DELETE"
    /\ Outcome(out)
    /\ Send(q, out)
    /\ pass' = [pass EXCEPT !.requests = @ \ {q}, !.failed = @ \/ ~Done(q, out)]
    /\ UNCHANGED <<scene, want, gone, globals, caches, settled, edits, drifts>>

\* A clean pass: everything was read (before the ownership tag exists an
\* adapter sees nothing), nothing failed, nobody interfered and what it worked
\* towards is still desired.
Finish ==
    /\ \/ pass.phase = "send" /\ pass.requests = {}
       \/ DirectKinds = {} /\ (pass.phase = "direct" \/ (pass.phase = "apply" /\ pass.todo = {}))
    /\ settled' = [settled EXCEPT ![pass.on] =
                      /\ pass.calm /\ ~pass.failed
                      /\ pass.desired = want[pass.on] /\ pass.cleanup = gone[pass.on]]
    /\ pass' = NoPass
    /\ UNCHANGED <<scene, svc, want, gone, globals, caches, edits, drifts, faults>>

\* The process restarts: what the packages remember is gone.
Crash ==
    /\ faults < MaxFaults
    /\ faults' = faults + 1
    /\ globals' = [profile |-> NoId, naming |-> 1]
    /\ caches' = [s \in Services |-> [k \in {} |-> NoId]]
    /\ pass' = NoPass
    /\ UNCHANGED <<scene, svc, want, gone, settled, edits, drifts>>

Reads  == {"ok", "tagsLost", "listLost"}
Writes == {"ok", "lost", "late"}

UserStep ==
    \/ \E ir \in scene.irs : UserEdits(ir)
    \/ UserDeletes
    \/ \E n \in UserNames \cup Names(UNION scene.irs), c \in scene.raw : UserCreates(n, c)
    \/ \E x \in Get(svc[Active], scene.kind) :
           UserRemoves(x) \/ \E c \in scene.raw : UserWrites(x, c)

Next ==
    \/ UserStep
    \/ \E s \in Services, out \in Reads : Read(s, out)
    \/ \E out \in Writes : EnsureTag(out)
    \/ \E ch \in pass.todo, out \in Writes : ApplyOne(ch, out)
    \/ \E out \in {"ok", "lost"} : ReadDirect(out)
    \/ \E q \in pass.requests, out \in Writes : SendDirect(q, out)
    \/ Finish
    \/ Crash

Spec == Init /\ [][Next]_vars

(***************************************************************************)
(* Properties.                                                             *)
(***************************************************************************)

\* Type correctness: ids are those the service has given out, a change names
\* a known operation and the phases are the ones of a pass.
TypeOK ==
    /\ scene \in Scenes
    /\ \A s \in Services :
           /\ svc[s].tag \in BOOLEAN
           /\ \A x \in svc[s].items : x.kind = scene.kind /\ x.id \in 1 .. svc[s].next - 1
           /\ \A k \in DOMAIN caches[s] : caches[s][k] \in 1 .. svc[s].next - 1
    /\ pass.phase \in {"idle", "tag", "apply", "direct", "send"}
    /\ \A ch \in pass.todo : ch.op \in DOMAIN OpRank /\ ch.kind = scene.kind
    /\ edits <= MaxEdits /\ drifts <= scene.drifts /\ faults <= MaxFaults

\* Kinds whose resources read back differently from what was written, so
\* that every pass writes them again: a delay profile reads its ownership tag
\* as a tag of its own, a Radarr or Sonarr format its numbers as text, a proxy
\* loses what its type does not have, an application without categories (its
\* specification names only unknown ones) reads the defaults, a Radarr client
\* loses its category; Radarr's indexers are not compared at all.
Restless(desired) ==
    \/ scene.kind = "DelayProfile" /\ \E d \in desired : d.cfg.tags = ""
    \/ scene.app = "radarr" /\ scene.kind = "Indexer" /\ desired # {}
    \/ scene.app = "radarr" /\ scene.kind = "DownloadClient" /\ \E d \in desired : d.cfg.category # ""
    \/ /\ scene.app \in {"radarr", "sonarr"} /\ scene.kind = "CustomFormat"
       /\ \E d \in desired : d.cfg.source # "" \/ d.cfg.resolution # ""
    \/ /\ scene.kind = "IndexerProxy"
       /\ \E d \in desired : IF d.cfg.type = "flaresolverr" THEN d.cfg.port # "" \/ d.cfg.user # ""
                             ELSE d.cfg.timeout # ""
    \/ scene.kind = "Application" /\ \E d \in desired : d.cfg.categories = ""

\* A pass that follows a clean one, with nothing changed in between, finds
\* nothing to do: what the adapter writes is what it reads and compares.
SettledPlansNothing == pass.settled /\ ~Restless(pass.desired) => pass.todo = {}

\* Fields that no comparison looks at keep what they have: secrets, the user
\* name too but for Prowlarr, and the three naming fields behind `style'.
Uncompared ==
    {"password", "apiKey", "style"} \cup IF scene.app = "prowlarr" THEN {} ELSE {"username"}

\* Kinds whose differences are corrected: profiles, root folders and Readarr's
\* clients and indexers are created and never updated.
Corrected ==
    /\ scene.kind \notin {"QualityProfile", "RootFolder"}
    /\ scene.app = "readarr" => scene.kind = "MetadataProfile"

\* What the adapter sends for a desired resource.
Posted(s, d) ==
    CASE scene.kind = "NamingConfig" -> RequestFor(s, Change("update", d, NoId)).cfg
      [] scene.kind \in DOMAIN DirectOrder ->
             (CHOOSE q \in DirectRequests(s, want[s], scene.kind) : q.name = d.name).cfg
      [] OTHER -> RequestFor(s, Change("create", d, NoId)).cfg

\* After a clean pass the service holds every desired resource, with the
\* desired value in every field that the adapter compares.
CleanMeansDesired ==
    \A s \in Services : settled[s] =>
        \A d \in want[s] : \E x \in Get(svc[s], scene.kind) :
            /\ x.name = d.name
            /\ Corrected => \A f \in DOMAIN Posted(s, d) \ Uncompared :
                                f \in DOMAIN x.cfg => x.cfg[f] = Posted(s, d)[f]

\* After a clean pass for a deleted object none of the operator's resources is
\* left, for the adapters whose Diff works on an empty IR and the kinds it
\* deletes (import lists and the quality profiles of Radarr and Readarr stay).
CleanupLeavesNothing ==
    \A s \in Services :
        /\ settled[s] /\ gone[s]
        /\ scene.app # "prowlarr" /\ scene.kind \in MarkedKinds
        /\ ~(scene.app \in {"radarr", "readarr"} /\ scene.kind = "QualityProfile")
        => \A x \in Get(svc[s], scene.kind) : ~HasTag(x)

(***************************************************************************)
(* The adapters keep the promise of OwnedResources for the marked kinds.   *)
(***************************************************************************)
Marked(s) == IF scene.kind \in MarkedKinds THEN svc[s].items ELSE {}

Ownership ==
    INSTANCE OwnedResources WITH
        owned   <- [s \in Services |-> {x.name : x \in {y \in Marked(s) : HasTag(y)}}],
        foreign <- [s \in Services |-> {x \in Marked(s) : ~HasTag(x)}],
        target  <- [s \in Services |-> IF pass.on = s THEN Names(pass.desired) ELSE {}],
        moves   <- drifts

\* Whatever the interleaving, an operator step writes under a desired name or
\* removes a resource that it owns and that is not desired, and never touches
\* a resource of the user.
TouchesOnlyOwned == Ownership!Spec

=============================================================================
