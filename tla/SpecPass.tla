------------------------------ MODULE SpecPass ------------------------------
(***************************************************************************)
(* From a stored configuration to the service: the reconciler of one       *)
(* configuration object (GenericArrReconciler and ProwlarrConfigReconciler *)
(* with ReconcileHelper) resolves the secrets that the specification       *)
(* refers to one Get at a time, discovers what the service supports,       *)
(* compiles, and hands the result to the adapter.  AdapterPass starts from *)
(* compiled configurations and one kind of resource; here whole            *)
(* specifications go through the whole chain.                              *)
(*                                                                         *)
(* Between any two steps the user edits, suspends or deletes the object    *)
(* and changes secrets; calls are lost and the operator restarts.          *)
(* Registration with Prowlarr is the subject of ProwlarrCoordinator,       *)
(* conflicts of object updates that of ArrReconcile.                       *)
(***************************************************************************)
EXTENDS Adapters, Compiler

CONSTANTS
    Scenes,     \* application -> [specs, secretSets, schema, lists, types, installed, events];
                \* specs and secretSets map names to the values of those names, the latter
                \* [names, data]: the secrets that exist, and <<secret, key>> -> value;
                \* events is the bound on edits, changes of the secrets, lost calls and restarts
    Config      \* the name of the configuration object

VARIABLES
    app,
    obj,       \* [exists, spec, suspended, deleting, finalizer], spec being a name
    store,     \* the name of the secrets there are
    svc,
    globals, cache,   \* what the adapter's package remembers
    pass,
    ready,     \* reason of the Ready condition of the stored status
    events

vars == <<app, obj, store, svc, globals, cache, pass, ready, events>>

scene    == Scenes[app]
Data(n)  == scene.secretSets[n].data
secrets  == Data(store)
existing == scene.secretSets[store].names

\* The parts of a specification are read through the adapter of its kind.
SpecOf(name) == scene.specs[name]

\* stores is a history: the states that the secrets had during the Gets.
NoPass ==
    [phase |-> "idle", cleanup |-> FALSE, spec |-> None, refs |-> {}, resolved |-> <<>>, desired |-> {},
     todo |-> {}, kinds |-> {}, requests |-> {}, stores |-> {}]

Init ==
    /\ app \in DOMAIN Scenes
    /\ \E s \in DOMAIN scene.specs :
           obj = [exists |-> TRUE, spec |-> s, suspended |-> FALSE, deleting |-> FALSE, finalizer |-> FALSE]
    /\ store \in DOMAIN scene.secretSets
    /\ svc = [tag |-> FALSE, items |-> scene.installed, next |-> 10]
    /\ globals = [profile |-> NoId, naming |-> 1]
    /\ cache = <<>>
    /\ pass = NoPass
    /\ ready = ""
    /\ events = 0

(***************************************************************************)
(* The user.                                                               *)
(***************************************************************************)
Event == events < scene.events /\ events' = events + 1

Edit ==
    /\ Event /\ obj.exists
    /\ UNCHANGED <<app, store, svc, globals, cache, pass, ready>>

UserEdits(s) == s # obj.spec /\ obj' = [obj EXCEPT !.spec = s] /\ Edit

UserSuspends == obj' = [obj EXCEPT !.suspended = ~@] /\ Edit

\* Without a finalizer the object is gone at once.
UserDeletes ==
    /\ ~obj.deleting
    /\ obj' = IF obj.finalizer THEN [obj EXCEPT !.deleting = TRUE] ELSE [obj EXCEPT !.exists = FALSE]
    /\ Edit

SecretsChange(s) ==
    /\ Event /\ s # store
    /\ store' = s
    /\ pass' = IF pass.phase = "resolve" THEN [pass EXCEPT !.stores = @ \cup {s}] ELSE pass
    /\ UNCHANGED <<app, obj, svc, globals, cache, ready>>

(***************************************************************************)
(* The secrets of a specification.  A reference is [rank, name, keys]: the *)
(* groups are resolved in the order of their ranks, the keys of one        *)
(* reference by one Get each.  A list takes all keys of its secret, and    *)
(* its reference names none.                                               *)
(***************************************************************************)
Ref(rank, name, keys) == [rank |-> rank, name |-> name, keys |-> keys]
AllKeys == <<>>

ConnectionSecrets(s) ==
    {Ref(2, r.name, <<r.key>>) : r \in s.connection.apiKeySecretRef}

PairRefs(rank, parts) ==
    UNION {{Ref(rank, r.name, <<r.usernameKey, r.passwordKey>>) : r \in p.credentialsSecretRef} : p \in parts}

KeyRefs(rank, parts) ==
    UNION {{Ref(rank, r.name, <<r.key>>) : r \in p.apiKeySecretRef} : p \in parts}

DownloadClientSecrets(s) == PairRefs(4, s.downloadClients)

\* Also with a reference to Prowlarr, when no direct indexer is used.
IndexerSecrets(s) == UNION {KeyRefs(6, i.direct) : i \in s.indexers}

ImportListSecrets(s) ==
    UNION {{Ref(8, r.name, AllKeys) : r \in l.settingsSecretRef} : l \in s.importLists}

AuthenticationSecrets(s) ==
    UNION {{Ref(10, r.name, <<r.key>>) : r \in a.passwordSecretRef} : a \in s.authentication}

ProwlarrIndexerSecrets(s) == KeyRefs(6, s.indexers)
ProxySecrets(s)           == PairRefs(8, s.proxies)
ApplicationSecrets(s)     == KeyRefs(10, s.applications)

SecretsOf(a, s) ==
    ConnectionSecrets(s) \cup DownloadClientSecrets(s) \cup
    (IF a = "prowlarr"
     THEN ProwlarrIndexerSecrets(s) \cup ProxySecrets(s) \cup ApplicationSecrets(s)
     ELSE IndexerSecrets(s) \cup ImportListSecrets(s) \cup AuthenticationSecrets(s))

\* Wrong variant: a key that is not there is taken for an empty one.
ResolveSecretValueLenient(data, name, key) ==
    IF <<name, key>> \in DOMAIN data THEN {data[<<name, key>>]} ELSE {""}

\* The value, none when the secret or the key is not there.
ResolveSecretValue(data, name, key) ==
    IF <<name, key>> \in DOMAIN data THEN {data[<<name, key>>]} ELSE {}

\* Every key of a secret.
SecretData(name) == {e \in DOMAIN secrets : e[1] = name}

\* The next Get of a reference succeeds: a list asks only for the secret.
Gettable(r) ==
    IF r.keys = AllKeys THEN r.name \in existing
    ELSE ResolveSecretValue(secrets, r.name, Head(r.keys)) # {}

\* What it brings.
Fetched(r) ==
    LET key   == Head(r.keys)
        found == ResolveSecretValue(secrets, r.name, key)
        entry == IF r.rank = 2 THEN ConnectionKey ELSE <<r.name, key>>
    IN  IF r.keys = AllKeys THEN [e \in SecretData(r.name) |-> secrets[e]]
        ELSE [e \in {entry : v \in found} |-> CHOOSE v \in found : TRUE]

\* The specifications are those the API server admits; a secret has a name.
ASSUME ScenesAssumption ==
    /\ DOMAIN Scenes \subseteq Apps
    /\ \A a \in DOMAIN Scenes :
           /\ \A n \in DOMAIN Scenes[a].specs :
                  /\ ValidSpec(a, Scenes[a].specs[n])
                  /\ \A r \in SecretsOf(a, Scenes[a].specs[n]) : r.name # ""
           /\ \A n \in DOMAIN Scenes[a].secretSets :
                  LET set == Scenes[a].secretSets[n]
                  IN  \A e \in DOMAIN set.data :
                          e = <<e[1], e[2]>> /\ e[1] \in set.names /\ set.data[e] \in STRING
           /\ \A x \in Scenes[a].installed : x.id \in 1 .. 9

\* A service comes with resources that have ids of their own, among them the
\* settings that are only updated, where the operator updates any; it knows the
\* two types of indexers that the compiler asks for.
ASSUME ServicesAssumption ==
    \A a \in DOMAIN Scenes :
        /\ \A x \in Scenes[a].installed : DOMAIN x = {"kind", "id", "name", "cfg", "ours"}
        /\ \A x, y \in Scenes[a].installed : x.kind = y.kind /\ x.id = y.id => x = y
        /\ a \in DirectAppliers => \A k \in Singletons : \E x \in Scenes[a].installed : x.kind = k
        /\ a # "prowlarr" => {"Newznab", "Torznab"} \subseteq Scenes[a].types.indexers

(***************************************************************************)
(* A pass.                                                                 *)
(***************************************************************************)
Gone(o) == [o EXCEPT !.exists = FALSE, !.finalizer = FALSE]

\* Wrong variant: a clean-up that ends early keeps the finalizer.
StopKeeping(reason) ==
    /\ pass' = NoPass
    /\ obj' = IF pass.cleanup /\ pass.phase # "resolve" THEN Gone(obj) ELSE obj
    /\ ready' = IF pass.cleanup THEN ready ELSE reason

\* Wrong variant: an error is returned before the status is stored.
StopSilent(reason) ==
    /\ pass' = NoPass
    /\ obj' = IF pass.cleanup THEN Gone(obj) ELSE obj
    /\ ready' = IF pass.cleanup \/ reason # "Ready" THEN ready ELSE reason

\* The end of a pass: the status is stored; after a clean-up, however it
\* ended, the finalizer is removed.
Stop(reason) ==
    /\ pass' = NoPass
    /\ obj' = IF pass.cleanup THEN Gone(obj) ELSE obj
    /\ ready' = IF pass.cleanup THEN ready ELSE reason

\* A call whose answer does not arrive is a fault: "lost" did not reach the
\* service, "late" did.
Outcome(out) == IF out = "ok" THEN UNCHANGED events ELSE Event

AddFinalizer ==
    /\ pass.phase = "idle" /\ obj.exists /\ ~obj.suspended /\ ~obj.deleting /\ ~obj.finalizer
    /\ obj' = [obj EXCEPT !.finalizer = TRUE]
    /\ UNCHANGED <<app, store, svc, globals, cache, pass, ready, events>>

\* A suspended object is left alone, also when it is being deleted.
Reconcile ==
    /\ pass.phase = "idle" /\ obj.exists /\ ~obj.suspended /\ obj.finalizer
    /\ pass' = [NoPass EXCEPT !.phase = "resolve", !.cleanup = obj.deleting, !.spec = {obj.spec}, !.stores = {store},
                              !.refs = IF obj.deleting THEN ConnectionSecrets(SpecOf(obj.spec))
                                       ELSE SecretsOf(app, SpecOf(obj.spec))]
    /\ UNCHANGED <<app, obj, store, svc, globals, cache, ready, events>>

\* One Get.  A reference whose first key has been read goes on before others.
Resolve(r) ==
    /\ pass.phase = "resolve" /\ r \in pass.refs
    /\ \A other \in pass.refs : r.rank <= other.rank
    /\ LET got  == Fetched(r)
           more == IF Len(r.keys) > 1 THEN {[r EXCEPT !.rank = @ - 1, !.keys = Tail(@)]} ELSE {}
       IN  IF Gettable(r)
           THEN /\ pass' = [pass EXCEPT !.refs = (@ \ {r}) \cup more,
                                        !.resolved = [e \in DOMAIN got \cup DOMAIN @ |->
                                                         IF e \in DOMAIN got THEN got[e] ELSE @[e]]]
                /\ UNCHANGED <<obj, ready>>
           ELSE Stop("SecretResolutionFailed")
    /\ UNCHANGED <<app, store, svc, globals, cache, events>>

\* The schemas of clients and of indexers; one that does not arrive leaves
\* its list empty.  The resolutions are fixed.
Discover(lost) ==
    [resolutions  |-> {"2160p", "1080p", "720p", "480p"},
     clientTypes  |-> IF lost = "clients" THEN {} ELSE scene.types.clients,
     indexerTypes |-> IF lost = "indexers" THEN {} ELSE scene.types.indexers]

CompileConfig(lost) ==
    /\ pass.phase = "resolve" /\ pass.refs = {} /\ ~pass.cleanup
    /\ Outcome(IF lost = "none" THEN "ok" ELSE "lost")
    /\ pass' = [pass EXCEPT !.phase = "connect",
                            !.desired = UNION {Compile(app, SpecOf(s), Config, pass.resolved, Discover(lost)) : s \in pass.spec}]
    /\ UNCHANGED <<app, obj, store, svc, globals, cache, ready>>

Connect(out) ==
    /\ pass.phase = "connect"
    /\ Outcome(out)
    /\ IF out = "ok" THEN pass' = [pass EXCEPT !.phase = "read"] /\ UNCHANGED <<obj, ready>>
       ELSE Stop("ConnectionFailed")
    /\ UNCHANGED <<app, store, svc, globals, cache>>

\* CurrentState and Diff.  The list of the tags or of one kind does not arrive:
\* CurrentState goes on as if it were empty.  An empty plan goes on to what is
\* applied directly; a clean-up has nothing of that kind.
Read(lost) ==
    /\ pass.phase = "read" \/ (pass.phase = "resolve" /\ pass.refs = {} /\ pass.cleanup)
    /\ Outcome(IF lost = "none" THEN "ok" ELSE "lost")
    /\ LET current == AdapterCurrentState(app, svc, scene.schema,
                                          GetOwnershipTagID(svc, lost # "tags"), {lost})
           ids     == GlobalsAfter(app, current, globals)
           plan    == AdapterDiff(app, current, pass.desired, ids, pass.cleanup)
       IN  /\ globals' = ids
           /\ cache'   = IF app = "prowlarr" THEN Prowlarr!cached(cache, current) ELSE cache
           /\ pass'    = [pass EXCEPT !.phase = IF IsEmpty(plan) THEN "direct" ELSE "tag", !.todo = plan,
                                      !.kinds = IF app \in DirectAppliers /\ ~pass.cleanup
                                                THEN ApplyDirect(pass.desired) ELSE {}]
    /\ UNCHANGED <<app, obj, store, svc, ready>>

\* Without the tag Apply has no result: the error branch of ReconcileConfig
\* panics, and the status is not stored.
EnsureTag(out) ==
    /\ pass.phase = "tag"
    /\ Outcome(out)
    /\ svc' = IF out = "lost" THEN svc ELSE EnsureOwnershipTag(svc)
    /\ IF out = "ok" THEN pass' = [pass EXCEPT !.phase = "apply"] /\ UNCHANGED <<obj, ready>>
       ELSE Stop(ready)
    /\ UNCHANGED <<app, store, globals, cache>>

\* The service refuses clients of a type that it does not have.
Served(q) ==
    /\ Accepts(svc, q)
    /\ q.kind = "DownloadClient" /\ q.verb \in {"POST", "PUT"} /\ app # "prowlarr"
           => q.cfg.impl \in scene.types.clients

Send(q, out) == svc' = IF out # "lost" /\ Served(q) THEN Serve(svc, q) ELSE svc

ApplyOne(ch, out) ==
    /\ pass.phase = "apply" /\ ch \in ApplyChanges(pass.todo, AdapterKindRank(app))
    /\ Outcome(out)
    /\ LET q == AdapterApply(app, svc, scene.schema, cache, ch)
       IN  /\ Send(q, out)
           /\ cache' = IF app = "prowlarr"
                       THEN Prowlarr!CacheAfter(svc, cache, ch, out = "ok" /\ Served(q)) ELSE cache
           /\ pass'  = [pass EXCEPT !.todo = @ \ {ch},
                                    !.phase = IF pass.todo = {ch} THEN "direct" ELSE @]
    /\ UNCHANGED <<app, obj, store, globals, ready>>

\* One kind after the other; a failure is logged and the next kind follows.
ReadDirect(kind, out) ==
    /\ pass.phase = "direct" /\ pass.requests = {} /\ kind \in pass.kinds
    /\ \A k \in pass.kinds : DirectOrder[kind] <= DirectOrder[k]
    /\ Outcome(out)
    /\ svc'  = IF out = "ok" THEN EnsureOwnershipTag(svc) ELSE svc
    /\ pass' = [pass EXCEPT !.kinds = @ \ {kind},
                            !.requests = IF out = "ok"
                                         THEN AdapterDirectRequests(app, svc, scene.lists,
                                                                    pass.desired, kind)
                                         ELSE {}]
    /\ UNCHANGED <<app, obj, store, globals, cache, ready>>

SendDirect(q, out) ==
    /\ pass.phase = "direct" /\ q \in pass.requests
    /\ q.verb = "DELETE" => \A r \in pass.requests : r.verb = "DELETE"
    /\ Outcome(out)
    /\ Send(q, out)
    /\ pass' = [pass EXCEPT !.requests = @ \ {q}]
    /\ UNCHANGED <<app, obj, store, globals, cache, ready>>

\* Ready does not depend on changes that failed.
Finish ==
    /\ pass.phase = "direct" /\ pass.kinds = {} /\ pass.requests = {}
    /\ Stop("Ready")
    /\ UNCHANGED <<app, store, svc, globals, cache, events>>

Restart ==
    /\ Event
    /\ globals' = [profile |-> NoId, naming |-> 1]
    /\ cache' = <<>>
    /\ pass' = NoPass
    /\ UNCHANGED <<app, obj, store, svc, ready>>

Reads  == {"ok", "lost"}
Writes == {"ok", "lost", "late"}

UserStep ==
    \/ \E s \in DOMAIN scene.specs : UserEdits(s)
    \/ UserSuspends
    \/ UserDeletes
    \/ \E s \in DOMAIN scene.secretSets : SecretsChange(s)

PassStep ==
    \/ AddFinalizer
    \/ Reconcile
    \/ \E r \in pass.refs : Resolve(r)
    \/ \E lost \in {"none", "clients", "indexers"} : CompileConfig(lost)
    \/ \E out \in Reads : Connect(out)
    \/ \E lost \in {"none", "tags"} \cup DOMAIN AdapterKindRank(app) : Read(lost)
    \/ \E out \in Writes : EnsureTag(out)
    \/ \E ch \in pass.todo, out \in Writes : ApplyOne(ch, out)
    \/ \E kind \in pass.kinds, out \in Reads : ReadDirect(kind, out)
    \/ \E q \in pass.requests, out \in Writes : SendDirect(q, out)
    \/ Finish

Next == UserStep \/ PassStep \/ Restart

\* Every pass ends with a requeue, of an object that still exists.
Fairness == WF_vars(PassStep)

Spec == Init /\ [][Next]_vars /\ Fairness

(***************************************************************************)
(* Properties.                                                             *)
(***************************************************************************)

\* Type correctness: the stored specification is one the API server admits,
\* resources have ids that the service gave out, the phases are those of a pass,
\* and changes are left to do only while Apply has not gone through its plan.
TypeOK ==
    /\ app \in DOMAIN Scenes
    /\ ValidSpec(app, SpecOf(obj.spec))
    /\ obj.deleting => obj.finalizer \/ ~obj.exists
    /\ \A x \in svc.items : x.id \in 1 .. svc.next - 1
    /\ \A e \in DOMAIN pass.resolved : pass.resolved[e] \in STRING
    /\ pass.phase \in {"idle", "resolve", "connect", "read", "tag", "apply", "direct"}
    /\ pass.todo # {} => pass.phase \in {"tag", "apply"}
    /\ pass.stores \subseteq DOMAIN scene.secretSets
    /\ ready \in {"", "Ready", "SecretResolutionFailed", "ConnectionFailed"}

\* Every secret that the specification refers to is there.
Complete(s) ==
    \A r \in SecretsOf(app, s) :
        IF r.keys = AllKeys THEN r.name \in existing
        ELSE \A i \in DOMAIN r.keys : <<r.name, r.keys[i]>> \in DOMAIN secrets

Supported(c) == app = "prowlarr" \/ PascalImplementation[Implementation(c)] \in scene.types.clients

\* With a reference to Prowlarr the direct indexers are not used.
UsedIndexers(s) ==
    IF app = "prowlarr" THEN s.indexers
    ELSE UNION {x.direct : x \in {y \in s.indexers : y.prowlarrRef = None}}

\* The names of clients and indexers that a specification calls for.
CalledFor(s) ==
    [DownloadClient |-> {Owned(Config, c.name) : c \in {d \in s.downloadClients : Supported(d)}},
     Indexer |-> {Owned(Config, i.name) : i \in UsedIndexers(s)}]

\* No step of a pass takes a client or an indexer that its specification calls
\* for out of the service, whatever list or schema did not arrive.
KeepsDeclared ==
    [][~pass.cleanup =>
           \A x \in svc.items : x.kind \in {"DownloadClient", "Indexer"} /\ HasTag(x) =>
               \/ \E y \in svc'.items : y.kind = x.kind /\ y.id = x.id
               \/ \E s \in pass.spec : x.name \notin CalledFor(SpecOf(s))[x.kind]]_vars

\* The values that a key of a secret had while the pass resolved secrets.
SecretValues(name, key) ==
    {Data(n)[<<name, key>>] : n \in {m \in pass.stores : <<name, key>> \in DOMAIN Data(m)}}

FromPair(ref, user, password) ==
    \E r \in ref : /\ user \in SecretValues(r.name, r.usernameKey)
                   /\ password \in SecretValues(r.name, r.passwordKey)

FromKey(ref, value) == \E r \in ref : value \in SecretValues(r.name, r.key)

FromSecret(ref, key, value) == \E r \in ref : value \in SecretValues(r.name, key)

\* Settings are those given in clear and those of the secret; every key that
\* the secret had all the time is among them, with a value of the secret.
FromSettings(ref, given, settings) ==
    /\ \A k \in DOMAIN settings :
           (k \in DOMAIN given /\ settings[k] = given[k]) \/ FromSecret(ref, k, settings[k])
    /\ \A r \in ref, n \in pass.stores : \A e \in DOMAIN Data(n) :
           e[1] = r.name /\ (\A m \in pass.stores : e \in DOMAIN Data(m)) =>
               e[2] \in DOMAIN settings /\ FromSecret(ref, e[2], settings[e[2]])

\* Whatever carries credentials in an IR is something of the specification,
\* with values of the secrets that it refers to.
FoundedClients(s, desired) ==
    \A d \in Of(desired, "DownloadClient") : \E c \in s.downloadClients :
        /\ d.name = Owned(Config, c.name)
        /\ c.credentialsSecretRef # None =>
               IF app = "prowlarr" THEN FromPair(c.credentialsSecretRef, d.cfg.user, d.cfg.cred)
               ELSE FromPair(c.credentialsSecretRef, d.cfg.cred[1], d.cfg.cred[2])

FoundedIndexers(s, desired) ==
    \A d \in Of(desired, "Indexer") : \E i \in UsedIndexers(s) :
        /\ d.name = Owned(Config, i.name)
        /\ i.apiKeySecretRef # None => FromKey(i.apiKeySecretRef, d.cfg.key)

FoundedProwlarr(s, desired) ==
    /\ \A d \in Of(desired, "IndexerProxy") : \E p \in s.proxies :
           /\ d.name = Owned(Config, p.name)
           /\ p.credentialsSecretRef # None => FromPair(p.credentialsSecretRef, d.cfg.user, d.cfg.cred)
    /\ \A d \in Of(desired, "Application") : \E a \in s.applications :
           /\ d.name = Owned(Config, a.name)
           /\ a.apiKeySecretRef # None => FromKey(a.apiKeySecretRef, d.cfg.key)

FoundedArr(s, desired) ==
    /\ \A d \in Of(desired, "ImportList") : \E l \in s.importLists :
           /\ d.name = UserName(l.name)
           /\ FromSettings(l.settingsSecretRef, l.settings, d.cfg.settings)
    /\ \A d \in Of(desired, "Authentication") : \E a \in s.authentication :
           a.passwordSecretRef # None => FromKey(a.passwordSecretRef, d.cfg.password)
    /\ \A d \in Of(desired, "Notification") : \E n \in s.notifications :
           /\ d.name = Owned(Config, n.name)
           /\ d.cfg.url = n.url \/ FromSecret(n.settingsSecretRef, "url", d.cfg.url)

Founded(s, desired) ==
    /\ FoundedClients(s, desired) /\ FoundedIndexers(s, desired)
    /\ IF app = "prowlarr" THEN FoundedProwlarr(s, desired) ELSE FoundedArr(s, desired)

\* What a pass works towards comes from its specification, and every user name,
\* password, key and secret setting in it that the specification refers to is
\* one that the very key of the secret had while this pass resolved secrets,
\* though they change and disappear between the Gets.  A missing secret never
\* becomes an empty credential in the service, and an old user name goes with a
\* new password only if the secret changed between the Gets of this very pass.
CredentialsFromSecrets == \A s \in pass.spec : Founded(SpecOf(s), pass.desired)

DefaultPort == [http |-> 80, https |-> 443]

\* Where a client is to be reached.
Endpoint(url) ==
    Address(url.host, IF url.port = 0 THEN DefaultPort[url.scheme] ELSE url.port, url.scheme = "https")

Has(kind, name, Good(_)) == \E x \in Get(svc, kind) : x.name = name /\ Good(x.cfg)

\* The clients and indexers of the operator are those of the specification, at
\* the addresses it gives.  Readarr's are not updated.
HoldsClients(s) ==
    /\ \A c \in s.downloadClients : Supported(c) =>
           Has("DownloadClient", Owned(Config, c.name),
               LAMBDA cfg : app = "readarr" \/ cfg.host = Endpoint(c.url))
    /\ \A kind \in {"DownloadClient", "Indexer"} :
           {x.name : x \in Tagged(svc, kind)} = CalledFor(s)[kind]

\* The current password is the service's, the other direct parts are applied.
HoldsDirect(s) ==
    app \in DirectAppliers =>
        /\ \A l \in s.importLists : Has("ImportList", UserName(l.name), LAMBDA cfg : cfg.type = l.type)
        /\ \A m \in s.mediaManagement :
               Has("MediaManagement", <<>>, LAMBDA cfg : cfg.managed = m.managed)
        /\ \A a \in s.authentication :
               Has("Authentication", <<>>,
                   LAMBDA cfg : \A r \in a.passwordSecretRef : cfg.password = Resolved(secrets, <<r.name, r.key>>))

HoldsArr(s) ==
    /\ \A p \in s.rootFolders :
           Has("RootFolder", UserName(IF app = "lidarr" THEN p.path ELSE p), LAMBDA cfg : TRUE)
    /\ app # "readarr" =>
           /\ \A n \in s.naming : Has("NamingConfig", <<>>, LAMBDA cfg : cfg.format = n.preset)
           /\ \A n \in s.notifications :
                  Has("Notification", Owned(Config, n.name), LAMBDA cfg : cfg.on = n.on)
           /\ \A m \in s.remotePathMappings :
                  Has("RemotePathMapping", <<m.host, m.remotePath>>,
                      LAMBDA cfg : cfg.localPath = m.localPath)
    \* Radarr may lose its profile for good, see the README.
    /\ app # "radarr" /\ s.quality # None => Has("QualityProfile", ProfileName(Config), LAMBDA cfg : TRUE)

HoldsProwlarr(s) ==
    /\ {x.name : x \in Tagged(svc, "IndexerProxy")} = {Owned(Config, p.name) : p \in s.proxies}
    /\ {x.name : x \in Tagged(svc, "Application")} = {Owned(Config, a.name) : a \in s.applications}
    /\ \A a \in s.applications :
           Has("Application", Owned(Config, a.name), LAMBDA cfg : cfg.baseUrl = a.url)

Holds(s) ==
    /\ HoldsClients(s) /\ HoldsDirect(s)
    /\ IF app = "prowlarr" THEN HoldsProwlarr(s) ELSE HoldsArr(s)

Managed == obj.exists /\ ~obj.deleting /\ ~obj.suspended

\* Once edits, secrets and calls have calmed down, with all secrets there, the
\* service comes to hold what the specification says, and the object is Ready.
SpecReached == <>[](Managed /\ Complete(SpecOf(obj.spec))) => <>[](Holds(SpecOf(obj.spec)) /\ ready = "Ready")

\* A secret that stays missing shows in the status and stays there.
MissingSecretIsReported ==
    <>[](Managed /\ ~Complete(SpecOf(obj.spec))) => <>[](ready = "SecretResolutionFailed")

\* Once the surroundings keep still, the service holds the specification or the
\* status says what is missing.
Settles == SpecReached /\ MissingSecretIsReported

\* An object that is deleted, and not suspended, goes away, also when its
\* secrets are gone before it.
DeletionFinishes == [](obj.deleting /\ [](~obj.suspended) => <>(~obj.exists))

=============================================================================
