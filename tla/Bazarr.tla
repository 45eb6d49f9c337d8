------------------------------- MODULE Bazarr -------------------------------
(***************************************************************************)
(* BazarrConfigReconciler: one BazarrConfig is either written as           *)
(* config.yaml to a ConfigMap (file mode) or sent to the API of Bazarr     *)
(* (API mode).                                                             *)
(*                                                                         *)
(* The object, the ConfigMaps, the secrets and the service change between  *)
(* any two steps of a pass; requests are lost before or after they took    *)
(* effect.  An update of an object that has changed since it was read is   *)
(* refused.  A read from a cache that lags behind is a pass that began     *)
(* earlier.                                                                *)
(***************************************************************************)
EXTENDS BazarrGenerator

CONSTANTS
    Specs,        \* name -> BazarrConfigSpec
    SecretSets,   \* name -> secrets
    ServiceKey,   \* the API key that Bazarr accepts
    ForeignProfile,   \* what somebody else puts into Bazarr: a profile as in ApiProfile
    HealthAnswers,    \* what Bazarr may say of its connections to Sonarr and Radarr: pairs
                      \* of "True", "False" and "none"
    EventBound        \* bound on edits of the object, what others do, lost requests and restarts

ASSUME EveryModeIsAdmitted == \A s \in DOMAIN Specs : ValidBazarrConfigSpec(Specs[s])
ASSUME ConfigMapRefIsPointer == \A s \in DOMAIN Specs : \A m, n \in Specs[s].configMapRef : m = n
ASSUME LanguageProfilesIsList == \A s \in DOMAIN Specs : DOMAIN Specs[s].languageProfiles \subseteq Nat

VARIABLES
    obj,      \* [exists, spec, suspended, deleting, finalizer], spec being a name
    status,   \* the stored status
    store,    \* the name of the secrets there are
    cms,      \* ConfigMap name -> None or {[ours, config]}: its owner, the key config.yaml
    svc,      \* Bazarr: profiles, providers, the next profile id
    pass,     \* the running pass
    calm,     \* nobody else touched the object's outputs and secrets between the start
              \* of the pass that stored the status and now
    events

vars == <<obj, status, store, cms, svc, pass, calm, events>>

ConfigMaps == UNION {Specs[s].configMapRef : s \in DOMAIN Specs}
secrets    == SecretSets[store]

\* ready is the condition with its reason, current whether it is of the present
\* generation.  lastReconcile and the version are left out.
NoStatus ==
    [ready |-> "", reason |-> "", current |-> FALSE, mode |-> "", generated |-> FALSE, bazarr |-> FALSE,
     sonarr |-> FALSE, radarr |-> FALSE, profiles |-> FALSE, providers |-> FALSE]

\* stale and cmStale: the object or the ConfigMap has changed since it was read.
NoPass ==
    [phase |-> "idle", spec |-> None, status |-> NoStatus, stale |-> FALSE, config |-> None,
     cm |-> None, cmStale |-> FALSE, listed |-> {}, next |-> 0, calm |-> TRUE]

Init ==
    /\ \E s \in DOMAIN Specs :
           obj = [exists |-> TRUE, spec |-> s, suspended |-> FALSE, deleting |-> FALSE, finalizer |-> FALSE]
    /\ status = NoStatus
    /\ store \in DOMAIN SecretSets
    /\ cms = [n \in ConfigMaps |-> None]
    /\ svc = [profiles |-> {}, providers |-> {}, nextId |-> 1]
    /\ pass = NoPass
    /\ calm = TRUE
    /\ events = 0

(***************************************************************************)
(* The user of the object.                                                 *)
(***************************************************************************)
Event == events < EventBound /\ events' = events + 1

\* A change while a pass runs is one since it read.
Notice(field, value) == IF pass.phase = "idle" THEN pass ELSE [pass EXCEPT ![field] = value]

Edit ==
    /\ obj.exists /\ Event
    /\ status' = [status EXCEPT !.current = FALSE]
    /\ pass' = Notice("stale", TRUE)
    /\ UNCHANGED <<store, cms, svc, calm>>

UserEdits(s) == s # obj.spec /\ obj' = [obj EXCEPT !.spec = s] /\ Edit

UserSuspends == obj' = [obj EXCEPT !.suspended = ~@] /\ Edit

UserDeletes ==
    /\ ~obj.deleting
    /\ obj' = IF obj.finalizer THEN [obj EXCEPT !.deleting = TRUE] ELSE [obj EXCEPT !.exists = FALSE]
    /\ Edit

(***************************************************************************)
(* Others: of the secrets, of the ConfigMaps, in Bazarr.                   *)
(***************************************************************************)
Disturb ==
    /\ Event
    /\ calm' = FALSE
    /\ UNCHANGED <<obj, status>>

SecretsChange(s) ==
    /\ s # store /\ store' = s
    /\ pass' = Notice("calm", FALSE)
    /\ UNCHANGED <<cms, svc>> /\ Disturb

\* Deleted, made anew without an owner, or overwritten.
ConfigMapChanges(n, content) ==
    /\ content # cms[n] /\ cms' = [cms EXCEPT ![n] = content]
    /\ pass' = [Notice("calm", FALSE) EXCEPT !.cmStale = pass.phase # "idle"]
    /\ UNCHANGED <<store, svc>> /\ Disturb

ForeignContents(cm) ==
    {None, {[ours |-> FALSE, config |-> None]}} \cup {{[c EXCEPT !.config = None]} : c \in cm}

ProfileDeleted(p) ==
    /\ svc' = [svc EXCEPT !.profiles = @ \ {p}]
    /\ pass' = Notice("calm", FALSE)
    /\ UNCHANGED <<store, cms>> /\ Disturb

ProfileMade ==
    /\ svc' = [svc EXCEPT !.profiles = @ \cup {[id |-> svc.nextId, by |-> "user", body |-> ForeignProfile]},
                          !.nextId = @ + 1]
    /\ pass' = Notice("calm", FALSE)
    /\ UNCHANGED <<store, cms>> /\ Disturb

\* Kubernetes deletes what belongs to an object that is gone.
CollectGarbage(n) ==
    /\ ~obj.exists /\ \E c \in cms[n] : c.ours
    /\ cms' = [cms EXCEPT ![n] = None]
    /\ UNCHANGED <<obj, status, store, svc, pass, calm, events>>

(***************************************************************************)
(* A pass.                                                                 *)
(***************************************************************************)
At(phase) == pass.phase = phase
ThePass   == CHOOSE s \in pass.spec : TRUE
spec      == Specs[ThePass]

\* A request that fails: "lost" had no effect, "late" had.
Outcome(out) == IF out = "ok" THEN UNCHANGED events ELSE Event

\* Wrong variant: a generation that has a status is not looked at again.
ReconcileOnce ==
    /\ At("idle") /\ obj.exists /\ ~obj.suspended
    /\ obj.deleting \/ ~status.current
    /\ pass' = [NoPass EXCEPT !.spec = {obj.spec}, !.status = [status EXCEPT !.current = TRUE],
                              !.phase = IF obj.deleting THEN "delete"
                                        ELSE IF ~obj.finalizer THEN "finalizer"
                                        ELSE Specs[obj.spec].configMode]
    /\ UNCHANGED <<obj, status, store, cms, svc, calm, events>>

\* A suspended object is left alone, also when it is being deleted.
Reconcile ==
    /\ At("idle") /\ obj.exists /\ ~obj.suspended
    /\ pass' = [NoPass EXCEPT !.spec = {obj.spec}, !.status = [status EXCEPT !.current = TRUE],
                              !.phase = IF obj.deleting THEN "delete"
                                        ELSE IF ~obj.finalizer THEN "finalizer"
                                        ELSE Specs[obj.spec].configMode]
    /\ UNCHANGED <<obj, status, store, cms, svc, calm, events>>

AddFinalizer ==
    /\ At("finalizer")
    /\ obj' = IF pass.stale \/ ~obj.exists THEN obj ELSE [obj EXCEPT !.finalizer = TRUE]
    /\ pass' = NoPass
    /\ UNCHANGED <<status, store, cms, svc, calm, events>>

\* Wrong variant: the condition keeps the reason of the pass before.
FailedSameReason(st, reason) ==
    [pass EXCEPT !.phase = "store", !.status = [st EXCEPT !.ready = "False"]]

\* The rest of a failed pass: the status is stored and the error returned.
Failed(st, reason) ==
    [pass EXCEPT !.phase = "store", !.status = [st EXCEPT !.ready = "False", !.reason = reason]]

\* Status().Update.  A conflict is logged or makes the pass fail; either way it
\* is repeated.
StoreStatus ==
    /\ At("store")
    /\ IF pass.stale \/ ~obj.exists THEN UNCHANGED <<status, calm>>
       ELSE status' = pass.status /\ calm' = pass.calm
    /\ pass' = NoPass
    /\ UNCHANGED <<obj, store, cms, svc, events>>

(***************************************************************************)
(* File mode.                                                              *)
(***************************************************************************)
\* The first of the steps before the ConfigMap that fails.
FileFailure(s) ==
    IF Missing(secrets, s.sonarr.apiKeySecretRef) THEN "SonarrSecretResolutionFailed"
    ELSE IF Missing(secrets, s.radarr.apiKeySecretRef) THEN "RadarrSecretResolutionFailed"
    ELSE IF Missing(secrets, ProviderRefs(s.providers)) THEN "ProviderSecretResolutionFailed"
    ELSE IF \E a \in s.authentication : Missing(secrets, a.passwordSecretRef) THEN "AuthSecretResolutionFailed"
    ELSE IF Generate(s, secrets) = None THEN "ConfigGenerationFailed"
    ELSE ""

FileStatus(reason) ==
    [pass.status EXCEPT !.mode = "file", !.sonarr = reason # "SonarrSecretResolutionFailed",
                        !.radarr = IF reason = "SonarrSecretResolutionFailed" THEN @
                                   ELSE reason # "RadarrSecretResolutionFailed"]

Generated(st) ==
    [pass EXCEPT !.phase = "store",
                 !.status = [st EXCEPT !.ready = "True", !.reason = "Ready", !.generated = TRUE,
                                       !.bazarr = FALSE, !.profiles = FALSE, !.providers = FALSE]]

reconcileFileMode ==
    /\ At("file")
    /\ LET reason == FileFailure(spec)
           st     == FileStatus(reason)
       IN  pass' = IF reason # "" THEN Failed(st, reason)
                   ELSE IF spec.configMapRef = None THEN Generated(st)
                   ELSE [pass EXCEPT !.status = st, !.config = Generate(spec, secrets), !.phase = "getConfigMap"]
    /\ UNCHANGED <<obj, status, store, cms, svc, calm, events>>

\* ensureConfigMap: the Get,
GetConfigMap(out) ==
    /\ At("getConfigMap")
    /\ Outcome(out)
    /\ pass' = IF out # "ok" THEN Failed(pass.status, "ConfigMapUpdateFailed")
               ELSE [pass EXCEPT !.phase = "putConfigMap", !.cmStale = FALSE,
                                 !.cm = UNION {cms[n] : n \in spec.configMapRef}]
    /\ UNCHANGED <<obj, status, store, cms, svc, calm>>

\* What is written: a new ConfigMap is owned; of one that was there the owner
\* stays as it is.
Written(found, config) ==
    IF found = None THEN {[ours |-> TRUE, config |-> config]}
    ELSE {[c EXCEPT !.config = config] : c \in found}

\* and the Create or Update, refused when the ConfigMap is no longer as it was.
PutConfigMap(out) ==
    /\ At("putConfigMap")
    /\ Outcome(out)
    /\ cms' = IF pass.cmStale \/ out = "lost" THEN cms
              ELSE [n \in ConfigMaps |-> IF n \in spec.configMapRef THEN Written(pass.cm, pass.config)
                                         ELSE cms[n]]
    /\ pass' = IF pass.cmStale \/ out # "ok" THEN Failed(pass.status, "ConfigMapUpdateFailed")
               ELSE Generated(pass.status)
    /\ UNCHANGED <<obj, status, store, svc, calm>>

(***************************************************************************)
(* API mode.  Requests with another key than ServiceKey are refused.       *)
(***************************************************************************)
ApiMode == [pass.status EXCEPT !.mode = "api"]

reconcileAPIMode(out) ==
    /\ At("api")
    /\ LET c  == CHOOSE x \in spec.connection : TRUE
       IN  IF spec.connection = None
           THEN pass' = Failed(ApiMode, "ConnectionMissing") /\ out = "ok"
           ELSE IF Missing(secrets, c.apiKeySecretRef)
           THEN pass' = Failed([ApiMode EXCEPT !.bazarr = FALSE], "BazarrSecretResolutionFailed") /\ out = "ok"
           ELSE IF Value(secrets, c.apiKeySecretRef) # ServiceKey \/ out # "ok"
           THEN pass' = Failed([ApiMode EXCEPT !.bazarr = FALSE], "BazarrConnectionFailed")
           ELSE pass' = [pass EXCEPT !.phase = "health", !.status = [ApiMode EXCEPT !.bazarr = TRUE]]
    /\ Outcome(out)
    /\ UNCHANGED <<obj, status, store, cms, svc, calm>>

\* What Bazarr says of its connections, when it says anything.
GetHealth(sonarr, radarr) ==
    /\ At("health")
    /\ pass' = [pass EXCEPT !.phase = "list",
                            !.status.sonarr = CASE sonarr = "none" -> @ [] OTHER -> sonarr = "True",
                            !.status.radarr = CASE radarr = "none" -> @ [] OTHER -> radarr = "True"]
    /\ UNCHANGED <<obj, status, store, cms, svc, calm, events>>

GetLanguageProfiles(out) ==
    /\ At("list")
    /\ Outcome(out)
    /\ pass' = IF out # "ok" THEN Failed([pass.status EXCEPT !.profiles = FALSE], "LanguageProfileSyncFailed")
               ELSE [pass EXCEPT !.phase = "profiles", !.listed = svc.profiles, !.next = 1]
    /\ UNCHANGED <<obj, status, store, cms, svc, calm>>

\* Wrong variant: every profile is made.
ExistingNone(listed, name) == {}

\* The profile that a desired one updates: the last in the list with its name.
Existing(listed, name) ==
    LET same == {p \in listed : p.body.name = name}
    IN  {p \in same : \A q \in same : q.id <= p.id}

UpdateLanguageProfile(p, body) ==
    [svc EXCEPT !.profiles = {IF q.id = p.id THEN [q EXCEPT !.body = body] ELSE q : q \in @}]

CreateLanguageProfile(body) ==
    [svc EXCEPT !.profiles = @ \cup {[id |-> svc.nextId, by |-> "operator", body |-> body]}, !.nextId = @ + 1]

\* One profile after the other; a failure is logged and the next one follows.
\* An update of a profile that is no longer there is refused.
syncLanguageProfiles(out) ==
    /\ At("profiles") /\ pass.next \in DOMAIN spec.languageProfiles
    /\ Outcome(out)
    /\ LET body  == ApiProfile(spec.languageProfiles[pass.next])
           found == Existing(pass.listed, body.name)
       IN  svc' = IF out = "lost" THEN svc
                  ELSE IF found = {} THEN CreateLanguageProfile(body)
                  ELSE UpdateLanguageProfile(CHOOSE p \in found : TRUE, body)
    /\ pass' = [pass EXCEPT !.next = @ + 1]
    /\ UNCHANGED <<obj, status, store, cms, calm>>

\* Bazarr's providers after a POST: those in the list are replaced.
UpdateProviders(list) ==
    LET posted == {list[i] : i \in DOMAIN list}
    IN  [svc EXCEPT !.providers = {p \in @ : \A q \in posted : q.name # p.name} \cup posted]

ProfilesDone == At("profiles") /\ pass.next \notin DOMAIN spec.languageProfiles

SyncedStatus ==
    [pass.status EXCEPT !.ready = "True", !.reason = "Ready", !.profiles = TRUE, !.providers = TRUE,
                        !.generated = FALSE]

\* Without providers nothing is sent.
syncProviders(out) ==
    /\ ProfilesDone
    /\ LET st     == [pass.status EXCEPT !.profiles = TRUE]
           failed == Failed([st EXCEPT !.providers = FALSE], "ProviderSyncFailed")
       IN  IF spec.providers = <<>>
           THEN /\ out = "ok" /\ UNCHANGED svc
                /\ pass' = [pass EXCEPT !.phase = "store", !.status = SyncedStatus]
           ELSE IF Missing(secrets, ProviderRefs(spec.providers))
           THEN out = "ok" /\ UNCHANGED svc /\ pass' = failed
           ELSE /\ svc' = IF out = "lost" THEN svc ELSE UpdateProviders(ApiProviders(spec.providers, secrets))
                /\ pass' = IF out # "ok" THEN failed
                           ELSE [pass EXCEPT !.phase = "store", !.status = SyncedStatus]
    /\ Outcome(out)
    /\ UNCHANGED <<obj, status, store, cms, calm>>

(***************************************************************************)
(* Deletion.                                                               *)
(***************************************************************************)
\* Wrong variant: the owner is not looked at.
OwnedAny(cm) == cm # None

Owned(cm) == \E c \in cm : c.ours

\* The Get; one that fails is taken for a ConfigMap that is not there.
reconcileDelete(out) ==
    /\ At("delete")
    /\ Outcome(out)
    /\ LET cm == UNION {cms[n] : n \in spec.configMapRef}
       IN  pass' = [pass EXCEPT !.cm = cm, !.cmStale = FALSE,
                                !.phase = IF out = "ok" /\ Owned(cm) THEN "drop" ELSE "unfinalize"]
    /\ UNCHANGED <<obj, status, store, cms, svc, calm>>

\* The Delete is by name; when it fails the pass goes on.
DropConfigMap(out) ==
    /\ At("drop")
    /\ Outcome(out)
    /\ cms' = IF out = "lost" THEN cms
              ELSE [n \in ConfigMaps |-> IF n \in spec.configMapRef THEN None ELSE cms[n]]
    /\ pass' = [pass EXCEPT !.phase = "unfinalize"]
    /\ UNCHANGED <<obj, status, store, svc, calm>>

RemoveFinalizer ==
    /\ At("unfinalize")
    /\ obj' = IF pass.stale THEN obj ELSE [obj EXCEPT !.exists = FALSE, !.finalizer = FALSE]
    /\ pass' = NoPass
    /\ UNCHANGED <<status, store, cms, svc, calm, events>>

\* The operator stops and starts again.
Restart ==
    /\ ~At("idle") /\ Event
    /\ pass' = NoPass
    /\ UNCHANGED <<obj, status, store, cms, svc, calm>>

Reads  == {"ok", "lost"}
Writes == {"ok", "lost", "late"}

UserStep ==
    \/ \E s \in DOMAIN Specs : UserEdits(s)
    \/ UserSuspends
    \/ UserDeletes
    \/ \E s \in DOMAIN SecretSets : SecretsChange(s)
    \/ \E n \in ConfigMaps : \E c \in ForeignContents(cms[n]) : ConfigMapChanges(n, c)
    \/ \E p \in svc.profiles : ProfileDeleted(p)
    \/ ProfileMade

PassStep ==
    \/ Reconcile
    \/ AddFinalizer
    \/ StoreStatus
    \/ reconcileFileMode
    \/ \E out \in Reads : GetConfigMap(out)
    \/ \E out \in Writes : PutConfigMap(out)
    \/ \E out \in Reads : reconcileAPIMode(out)
    \/ \E h \in HealthAnswers : GetHealth(h[1], h[2])
    \/ \E out \in Reads : GetLanguageProfiles(out)
    \/ \E out \in Writes : syncLanguageProfiles(out)
    \/ \E out \in Writes : syncProviders(out)
    \/ \E out \in Reads : reconcileDelete(out)
    \/ \E out \in Writes : DropConfigMap(out)
    \/ RemoveFinalizer

Collect == \E n \in ConfigMaps : CollectGarbage(n)

Next == UserStep \/ PassStep \/ Collect \/ Restart

\* A pass that ends is followed by another one: after an error by the retry of
\* the queue, after success by RequeueAfter, after a suspension by the event
\* that ends it.
Spec == Init /\ [][Next]_vars /\ WF_vars(PassStep) /\ WF_vars(Collect)

(***************************************************************************)
(* Properties.                                                             *)
(***************************************************************************)

Phases ==
    {"idle", "finalizer", "file", "getConfigMap", "putConfigMap", "api", "health", "list", "profiles", "store",
     "delete", "drop", "unfinalize"}

Objects ==
    [exists : BOOLEAN, spec : DOMAIN Specs, suspended : BOOLEAN, deleting : BOOLEAN, finalizer : BOOLEAN]

Reasons ==
    {"", "Ready", "SonarrSecretResolutionFailed", "RadarrSecretResolutionFailed", "ProviderSecretResolutionFailed",
     "AuthSecretResolutionFailed", "ConfigGenerationFailed", "ConfigMapUpdateFailed", "ConnectionMissing",
     "BazarrSecretResolutionFailed", "BazarrConnectionFailed", "LanguageProfileSyncFailed", "ProviderSyncFailed"}

\* The condition is True with the reason Ready and never otherwise.
Statuses ==
    {st \in [ready : {"", "True", "False"}, reason : Reasons, current : BOOLEAN, mode : {"", "file", "api"},
             generated : BOOLEAN, bazarr : BOOLEAN, sonarr : BOOLEAN, radarr : BOOLEAN, profiles : BOOLEAN,
             providers : BOOLEAN] :
        st.ready = "True" <=> st.reason = "Ready"}

\* Type correctness: the phases of a pass, which is over one specification, the
\* condition with a reason that fits it, stored and under way, one profile per
\* id, at most one ConfigMap per name, and an object that waits for its deletion
\* has the finalizer.
TypeOK ==
    /\ obj \in Objects /\ status \in Statuses /\ store \in DOMAIN SecretSets
    /\ obj.exists /\ obj.deleting => obj.finalizer
    /\ DOMAIN pass = DOMAIN NoPass /\ pass.phase \in Phases /\ pass.status \in Statuses
    /\ {pass.stale, pass.cmStale, pass.calm, calm} \subseteq BOOLEAN
    /\ ~At("idle") => \E s \in DOMAIN Specs : pass.spec = {s}
    /\ DOMAIN svc = {"profiles", "providers", "nextId"} /\ svc.nextId \in Nat
    /\ \A p \in svc.profiles : p.id \in Nat /\ p.id < svc.nextId
    /\ \A p, q \in svc.profiles : p.id = q.id => p = q
    /\ DOMAIN cms = ConfigMaps
    /\ \A n \in ConfigMaps : \A c, d \in cms[n] : c = d

DefaultPort == [http |-> 80, https |-> 443]

\* The value is what the secret of the reference holds.
Is(value, refs) == ~Missing(secrets, refs) /\ value = Value(secrets, refs)

\* What config.yaml has to say, whatever the generator does: where Sonarr and
\* Radarr are and with which key, defaults that are among the profiles marked as
\* such, every provider enabled with its credentials, no password in clear.
Says(config, s) ==
    LET Reaches(part, conn) ==
            /\ part.at.port = IF conn.url.port = 0 THEN DefaultPort[conn.url.scheme] ELSE conn.url.port
            /\ \A r \in conn.apiKeySecretRef : Is(part.apikey, {r})
        Marked(id, mark) ==
            (\E i \in DOMAIN s.languageProfiles : s.languageProfiles[i][mark]) =>
                \E i \in DOMAIN config.languages :
                    config.languages[i].profileId = id /\ s.languageProfiles[i][mark]
    IN  /\ Reaches(config.sonarr, s.sonarr) /\ Reaches(config.radarr, s.radarr)
        /\ Marked(config.general.serieDefaultProfile, "defaultForSeries")
        /\ Marked(config.general.movieDefaultProfile, "defaultForMovies")
        /\ \A i \in DOMAIN s.languageProfiles :
               /\ config.languages[i].name = s.languageProfiles[i].name
               /\ \A j \in DOMAIN s.languageProfiles[i].languages :
                      config.languages[i].items[j].language = s.languageProfiles[i].languages[j].code
        /\ \A i \in DOMAIN s.providers :
               /\ \E j \in DOMAIN config.general.enabledProviders :
                      config.general.enabledProviders[j] = s.providers[i].name
               /\ \A r \in s.providers[i].passwordSecretRef :
                      /\ s.providers[i].name \in DOMAIN config.providers
                      /\ Is(config.providers[s.providers[i].name].password, {r})
        /\ \A a \in s.authentication : \A r \in a.passwordSecretRef :
               \A c \in config.auth : c.password # "" /\ ~Is(c.password, {r})

HoldsFile(s) == \A n \in s.configMapRef : \E c \in cms[n] : \E config \in c.config : Says(config, s)

HoldsProviders(s) ==
    \A i \in DOMAIN s.providers : \E p \in svc.providers :
        p.name = s.providers[i].name /\ Is(p.settings.apikey, s.providers[i].apiKeySecretRef)

HoldsProfiles(s) ==
    \A i \in DOMAIN s.languageProfiles : \E p \in svc.profiles : p.body = ApiProfile(s.languageProfiles[i])

\* All that a mode asks for is there and right.
Reachable(s) ==
    IF s.configMode = "file"
    THEN /\ ~Missing(secrets, s.sonarr.apiKeySecretRef \cup s.radarr.apiKeySecretRef \cup ProviderRefs(s.providers))
         /\ \A a \in s.authentication : ~Missing(secrets, a.passwordSecretRef)
         /\ Parses(s.sonarr.url) /\ Parses(s.radarr.url)
    ELSE /\ s.connection # None /\ ~Missing(secrets, ProviderRefs(s.providers))
         /\ \A c \in s.connection :
                ~Missing(secrets, c.apiKeySecretRef) /\ Value(secrets, c.apiKeySecretRef) = ServiceKey

\* A Ready condition of the present generation tells the truth while nobody else
\* interferes: the ConfigMap says what the specification of that generation
\* says, or the providers are in Bazarr.  Edits during a pass, lost requests and
\* changes of the ConfigMap between its Get and its Update do not break it.
ReadyIsTrue ==
    status.ready = "True" /\ status.current /\ calm /\ obj.exists =>
        LET s == Specs[obj.spec]
        IN  Reachable(s) /\ IF s.configMode = "file" THEN HoldsFile(s) ELSE HoldsProviders(s)

\* A specification names a profile twice; the API server admits it.
NamedTwice(name) ==
    \E s \in DOMAIN Specs : \E i, j \in DOMAIN Specs[s].languageProfiles :
        i # j /\ Specs[s].languageProfiles[i].name = name /\ Specs[s].languageProfiles[j].name = name

\* The operator makes at most one profile of a name, also when the answer to the
\* request that made it was lost, or the operator was stopped after it, unless a
\* specification has the name twice.
NoDuplicateProfiles ==
    \A p, q \in svc.profiles :
        p.by = "operator" /\ q.by = "operator" /\ p.body.name = q.body.name => p = q \/ NamedTwice(p.body.name)

OperatorStep == pass'.phase # pass.phase \/ pass'.next # pass.next

\* Every profile stays, or the specification of the pass names it; a ConfigMap
\* stays another's, or the pass took it for its own.
KeepsOthers ==
    /\ \A p \in svc.profiles :
           \/ p \in svc'.profiles
           \/ \E s \in pass.spec : \E i \in DOMAIN Specs[s].languageProfiles :
                  Specs[s].languageProfiles[i].name = p.body.name
    /\ \A n \in ConfigMaps : \A c \in cms[n] : c.ours \/ pass.cmStale \/ \E d \in cms'[n] : ~d.ours

\* A step of the operator leaves alone what is not its own.  "We don't delete
\* profiles not in the spec": a profile stays that the specification of the pass
\* does not name.  A ConfigMap that was there before the operator never becomes
\* the operator's own and is not deleted, unless it took the place of the
\* operator's own between the Get and the Delete of one pass.
OthersKept == [][OperatorStep => KeepsOthers]_vars

Managed == obj.exists /\ ~obj.deleting /\ ~obj.suspended

\* When edits and faults have come to an end, the ConfigMap or Bazarr comes to
\* hold the specification: a profile whose failure was only logged is made or
\* updated by a later pass, a ConfigMap that others changed is written again.
SpecReached ==
    <>[](Managed /\ Reachable(Specs[obj.spec])) =>
        <>[](/\ status.ready = "True" /\ status.current
             /\ IF Specs[obj.spec].configMode = "file" THEN HoldsFile(Specs[obj.spec])
                ELSE HoldsProviders(Specs[obj.spec]) /\ HoldsProfiles(Specs[obj.spec]))

\* A specification that cannot be applied does not stay Ready.
FailureIsReported ==
    <>[](Managed /\ ~Reachable(Specs[obj.spec])) => <>[](status.ready = "False" /\ status.current)

\* A deleted object does not stay, unless it is suspended, and neither do the
\* ConfigMaps it owned.
DeletionFinishes ==
    /\ []<>(obj.exists /\ obj.deleting => obj.suspended)
    /\ []<>(~obj.exists => \A n \in ConfigMaps : ~Owned(cms[n]))

\* What every object comes to when the events stop: the specification holds, or
\* its failure shows, or the deleted object is gone.
Settles == SpecReached /\ FailureIsReported /\ DeletionFinishes

=============================================================================
