---------------------------- MODULE DownloadStack ----------------------------
(***************************************************************************)
(* One DownloadStackConfig, the controller that reconciles it, the Secret  *)
(* with the environment of the Gluetun (VPN) container, the Deployment     *)
(* whose pods read that Secret when they start, and the download clients   *)
(* that the controller configures over their RPC interfaces.               *)
(*                                                                         *)
(* API server, informer cache, work queue and faults are as in             *)
(* ArrReconcile.  The Secret is read from a cache of its own: a stale copy *)
(* makes CreateOrUpdate fail.  Connected flags and versions in the status  *)
(* are left out, nothing depends on them.                                  *)
(***************************************************************************)
EXTENDS Integers, Sequences

CONSTANTS
    Regions,    \* server selections of the VPN
    Secrets,    \* credentials a user may store
    Limits,     \* values of a client's settings; 0 is "unlimited" or "off"
    NoValue,    \* a setting, a section or a key that is not there
    Specs,      \* the specs users write
    MaxEdits,   \* bound: writes of the object and of credentials
    MaxDrifts,  \* bound: changes of clients and of the generated Secret
    MaxFaults   \* bound: failed calls and crashes

\* reconcileNormal visits the clients in this order.
ClientOrder ==
    <<"Transmission", "QBittorrent", "Deluge", "RTorrent", "SABnzbd", "NZBGet">>
ClientNames == {ClientOrder[i] : i \in 1..Len(ClientOrder)}

\* Two settings stand for the many of each client: a number (a speed limit)
\* and a switch (a pointer to bool in the spec, a plain bool for SABnzbd).
Settings == {"limit", "flag"}

SpecType ==
    [vpn : {"openvpn", "wireguard"}, cred : BOOLEAN,
     region : Regions \cup {NoValue}, restart : BOOLEAN, suspend : BOOLEAN,
     clients : SUBSET ClientNames,
     want : [ClientNames -> [Settings -> Limits \cup {NoValue}]]]

ASSUME SpecsAssumption == Specs \subseteq SpecType
ASSUME ValuesAssumption ==
    /\ 0 \in Limits /\ Limits \subseteq Nat
    /\ NoValue \notin Limits /\ NoValue \notin Regions \cup Secrets
ASSUME BoundsAssumption ==
    MaxEdits \in Nat /\ MaxDrifts \in Nat /\ MaxFaults \in Nat

(***************************************************************************)
(* The environment of the Gluetun container.                               *)
(***************************************************************************)
EnvKeys == {"VPN_TYPE", "WIREGUARD_PRIVATE_KEY", "OPENVPN_USER", "SERVER_REGIONS"}
Envs    == [EnvKeys -> {"openvpn", "wireguard"} \cup Regions \cup Secrets
                          \cup {NoValue}]
NoEnv   == [k \in EnvKeys |-> NoValue]

\* Only what the spec has gets a key: credentials under the name that the
\* type of VPN asks for, the server selection if there is one.
GenerateGluetunEnv(spec, credential) ==
    LET secret == IF spec.cred THEN credential ELSE NoValue
        user   == IF spec.vpn = "openvpn" THEN secret ELSE NoValue
        key    == IF spec.vpn = "wireguard" THEN secret ELSE NoValue
    IN  [NoEnv EXCEPT !["VPN_TYPE"] = spec.vpn, !["OPENVPN_USER"] = user,
                      !["WIREGUARD_PRIVATE_KEY"] = key,
                      !["SERVER_REGIONS"] = spec.region]

\* The API server merges StringData into the data that is there.
StringData(data, env) ==
    [k \in EnvKeys |-> IF env[k] # NoValue THEN env[k] ELSE data[k]]

Covers(data, env) == \A k \in EnvKeys : env[k] # NoValue => data[k] = env[k]

(***************************************************************************)
(* The settings of the clients.                                            *)
(***************************************************************************)

\* Which values each client is sent.  Transmission gets whatever a section
\* holds; the others no zero, except for switches, which are pointers or sent
\* without a test, but not by SABnzbd.
Transmission(setting, value) == value # NoValue
QBittorrent(setting, value)  == value # NoValue /\ (value = 0 => setting = "flag")
Deluge(setting, value)       == value # NoValue /\ (value = 0 => setting = "flag")
RTorrent(setting, value)     == value # NoValue /\ (value = 0 => setting = "flag")
SABnzbd(setting, value)      == value \notin {NoValue, 0}
NZBGet(setting, value)       == value # NoValue /\ (value = 0 => setting = "flag")

Sent(client, setting, value) ==
    CASE client = "Transmission" -> Transmission(setting, value)
      [] client = "QBittorrent"  -> QBittorrent(setting, value)
      [] client = "Deluge"       -> Deluge(setting, value)
      [] client = "RTorrent"     -> RTorrent(setting, value)
      [] client = "SABnzbd"      -> SABnzbd(setting, value)
      [] client = "NZBGet"       -> NZBGet(setting, value)

ToSync(spec, client) ==
    {s \in Settings : Sent(client, s, spec.want[client][s])}

\* These get all settings in one call, the others one call per setting.
BulkClients == {"Transmission", "QBittorrent", "Deluge"}

NextCall(client, left) ==
    IF client \in BulkClients \/ "limit" \notin left THEN left ELSE {"limit"}

VARIABLES
    \* Kubernetes
    obj, cache, cacheFresh, queued, timer,
    secret,      \* the generated Secret: [exists, data, orphan]
    secretDirty, \* the informer has not seen the Secret's last change
    rollout,     \* the Deployment's pods are to be replaced
    pods,        \* the environment the running pods were started with
    vpnCred,     \* the user's Secret with the VPN credentials
    noCreds,     \* clients whose credentials Secret is missing
    \* the worker
    pc, work, workFresh,
    env,         \* the environment this pass generated
    pending,     \* clients this pass has not finished
    left,        \* settings of the current client not written yet
    \* the clients
    conf,
    \* bookkeeping
    touched,     \* what the user changed since this pass began
    edits, drifts, faults

objVars    == <<obj, cache, cacheFresh, queued, timer>>
podVars    == <<rollout, pods>>
credVars   == <<vpnCred, noCreds>>
workerVars == <<pc, work, workFresh, env, pending, left>>
bounds     == <<edits, drifts, faults>>
vars == <<objVars, secret, secretDirty, podVars, credVars, workerVars, conf,
          touched, bounds>>

Statuses ==
    [ready : {"Unknown", "True", "False"}, readyGen : Nat, hash : Envs]

EmptyStatus == [ready |-> "Unknown", readyGen |-> 0, hash |-> NoEnv]

NoSpec ==
    [vpn |-> "openvpn", cred |-> FALSE, region |-> NoValue, restart |-> FALSE,
     suspend |-> FALSE, clients |-> {},
     want |-> [c \in ClientNames |-> [s \in Settings |-> NoValue]]]

Objects ==
    [exists : BOOLEAN, gen : Nat, spec : Specs \cup {NoSpec},
     deleting : BOOLEAN, fin : BOOLEAN, status : Statuses]

NoObject ==
    [exists |-> FALSE, gen |-> 0, spec |-> NoSpec, deleting |-> FALSE,
     fin |-> FALSE, status |-> EmptyStatus]

NoSecret == [exists |-> FALSE, data |-> NoEnv, orphan |-> FALSE]

\* The Deployment is the user's; its pods wait for the Secret.
Init ==
    /\ obj = NoObject /\ cache = NoObject /\ cacheFresh = TRUE
    /\ queued = FALSE /\ timer = FALSE
    /\ secret = NoSecret /\ secretDirty = FALSE
    /\ rollout = TRUE /\ pods = NoEnv
    /\ vpnCred \in Secrets /\ noCreds = {}
    /\ pc = "idle" /\ work = NoObject /\ workFresh = FALSE
    /\ env = NoEnv /\ pending = {} /\ left = {}
    /\ conf = [c \in ClientNames |-> [s \in Settings |-> 0]]
    /\ touched = {}
    /\ edits = 0 /\ drifts = 0 /\ faults = 0

(***************************************************************************)
(* The user.                                                               *)
(***************************************************************************)
Store(o) == obj' = o /\ cacheFresh' = FALSE /\ workFresh' = FALSE

UserEdit ==
    /\ edits < MaxEdits
    /\ edits' = edits + 1
    /\ UNCHANGED <<cache, queued, timer, secretDirty, podVars, pc, work, env,
                   pending, left, conf, touched, drifts, faults>>

UserCreates(s) ==
    /\ ~obj.exists
    /\ Store([NoObject EXCEPT !.exists = TRUE, !.gen = 1, !.spec = s])
    /\ UserEdit
    /\ UNCHANGED <<secret, credVars>>

UserEdits(s) ==
    /\ obj.exists /\ obj.spec # s
    /\ Store([obj EXCEPT !.spec = s, !.gen = @ + 1])
    /\ UserEdit
    /\ UNCHANGED <<secret, credVars>>

\* A dropped object leaves its Secret to the garbage collector.
Orphaned == [secret EXCEPT !.orphan = @ \/ secret.exists]

UserDeletes ==
    /\ obj.exists /\ ~obj.deleting
    /\ IF obj.fin
       THEN Store([obj EXCEPT !.deleting = TRUE]) /\ UNCHANGED secret
       ELSE Store(NoObject) /\ secret' = Orphaned
    /\ UserEdit
    /\ UNCHANGED credVars

\* The controller does not watch the user's own Secrets.
UserSetsCredentials(v) ==
    /\ vpnCred' = v /\ v # vpnCred
    /\ UserEdit
    /\ UNCHANGED <<obj, cacheFresh, workFresh, secret, noCreds>>

UserTogglesClientSecret(c) ==
    /\ c \in obj.spec.clients
    /\ noCreds' = IF c \in noCreds THEN noCreds \ {c} ELSE noCreds \cup {c}
    /\ UserEdit
    /\ UNCHANGED <<obj, cacheFresh, workFresh, secret, vpnCred>>

UserDrift(what) ==
    /\ drifts < MaxDrifts
    /\ drifts' = drifts + 1
    /\ touched' = IF pc = "idle" THEN touched ELSE touched \cup {what}
    /\ UNCHANGED <<objVars, podVars, credVars, workerVars, edits, faults>>

UserSets(c, s, v) ==
    /\ c \in obj.spec.clients /\ conf[c][s] # v
    /\ conf' = [conf EXCEPT ![c][s] = v]
    /\ UserDrift(<<c, s>>)
    /\ UNCHANGED <<secret, secretDirty>>

UserRemovesSecret ==
    /\ secret.exists
    /\ secret' = NoSecret /\ secretDirty' = TRUE
    /\ UserDrift(<<"Secret", "data">>)
    /\ UNCHANGED conf

(***************************************************************************)
(* Informers, timer, garbage collector, Deployment controller, crash.      *)
(***************************************************************************)
CacheSync ==
    /\ ~cacheFresh
    /\ cache' = obj /\ cacheFresh' = TRUE
    /\ queued' = TRUE
    /\ UNCHANGED <<obj, timer, secret, secretDirty, podVars, credVars,
                   workerVars, conf, touched, bounds>>

\* Owns(Secret): a change of the Secret enqueues its owner.
SecretSync ==
    /\ secretDirty
    /\ secretDirty' = FALSE /\ queued' = TRUE
    /\ UNCHANGED <<obj, cache, cacheFresh, timer, secret, podVars, credVars,
                   workerVars, conf, touched, bounds>>

TimerFires ==
    /\ timer
    /\ timer' = FALSE /\ queued' = TRUE
    /\ UNCHANGED <<obj, cache, cacheFresh, secret, secretDirty, podVars,
                   credVars, workerVars, conf, touched, bounds>>

CollectGarbage ==
    /\ secret.orphan
    /\ secret' = NoSecret /\ secretDirty' = TRUE
    /\ UNCHANGED <<objVars, podVars, credVars, workerVars, conf, touched, bounds>>

\* New pods read the Secret; without it they wait.
RollOut ==
    /\ rollout /\ secret.exists
    /\ rollout' = FALSE /\ pods' = secret.data
    /\ UNCHANGED <<objVars, secret, secretDirty, credVars, workerVars, conf,
                   touched, bounds>>

EndPass ==
    /\ pc' = "idle" /\ work' = NoObject /\ workFresh' = FALSE
    /\ env' = NoEnv /\ pending' = {} /\ left' = {} /\ touched' = {}

Crash ==
    /\ faults < MaxFaults
    /\ faults' = faults + 1
    /\ EndPass
    /\ cache' = obj /\ cacheFresh' = TRUE /\ secretDirty' = FALSE
    /\ queued' = obj.exists /\ timer' = FALSE
    /\ UNCHANGED <<obj, secret, podVars, credVars, conf, edits, drifts>>

(***************************************************************************)
(* Reconcile.                                                              *)
(***************************************************************************)
Reads  == {"ok", "lost"}
Writes == {"ok", "lost", "late"}

Outcome(out) ==
    /\ out # "ok" => faults < MaxFaults
    /\ faults' = IF out = "ok" THEN faults ELSE faults + 1

Goto(label) == pc' = label

Fetch ==
    /\ pc = "idle" /\ queued
    /\ queued' = FALSE
    /\ IF ~cache.exists \/ cache.spec.suspend
       THEN UNCHANGED <<pc, work, workFresh>>
       ELSE /\ work' = cache /\ workFresh' = cacheFresh
            /\ Goto(IF cache.deleting THEN "removeFinalizer"
                    ELSE IF ~cache.fin THEN "addFinalizer" ELSE "resolve")
    /\ UNCHANGED <<obj, cache, cacheFresh, timer, secret, secretDirty, podVars,
                   credVars, env, pending, left, conf, touched, bounds>>

AddFinalizer(out) ==
    /\ pc = "addFinalizer"
    /\ Outcome(out)
    /\ IF workFresh /\ out # "lost"
       THEN obj' = [obj EXCEPT !.fin = TRUE] /\ cacheFresh' = FALSE
       ELSE UNCHANGED <<obj, cacheFresh>>
    /\ EndPass
    /\ queued' = TRUE
    /\ UNCHANGED <<cache, timer, secret, secretDirty, podVars, credVars, conf,
                   edits, drifts>>

\* Ready=False; the status is stored and the error returned.
Fail ==
    /\ Goto("errStatus")
    /\ work' = [work EXCEPT !.status.ready = "False", !.status.readyGen = work.gen]

ResolveCredentials(out) ==
    /\ pc = "resolve"
    /\ Outcome(out)
    /\ out # "ok" => work.spec.cred
    /\ IF work.spec.cred /\ (vpnCred = NoValue \/ out # "ok")
       THEN Fail /\ UNCHANGED env
       ELSE /\ Goto("secret")
            /\ env' = GenerateGluetunEnv(work.spec, vpnCred)
            /\ UNCHANGED work
    /\ UNCHANGED <<objVars, secret, secretDirty, podVars, credVars, workFresh,
                   pending, left, conf, touched, edits, drifts>>

\* The clients of the spec; having none is an error.
StartClients == pending' = work.spec.clients

\* The clients get their turns in the order of the code.
Turns   == {i \in DOMAIN ClientOrder : ClientOrder[i] \in pending}
Current == ClientOrder[CHOOSE i \in Turns : \A j \in Turns : i <= j]

\* Wrong variant: notes the hash before the Secret has been written.
CreateOrUpdateHashFirst(out) ==
    LET accepted == ~secretDirty
    IN  /\ pc = "secret"
        /\ Outcome(out)
        /\ secret' = IF accepted /\ out # "lost"
                     THEN [exists |-> TRUE, orphan |-> FALSE,
                           data |-> StringData(secret.data, env)]
                     ELSE secret
        /\ secretDirty' = (secretDirty \/ secret' # secret)
        /\ work' = [work EXCEPT !.status.hash = env]
        /\ IF accepted /\ out = "ok"
           THEN Goto(IF env # work.status.hash /\ work.spec.restart
                     THEN "restart" ELSE "clients")
           ELSE Goto("errStatus")
        /\ UNCHANGED <<objVars, podVars, credVars, workFresh, env, pending,
                       left, conf, touched, edits, drifts>>

\* CreateOrUpdate fails on a stale copy.  A Secret of an earlier object of this
\* name is adopted: SetControllerReference compares the owner's kind and name.
CreateOrUpdateSecret(out) ==
    LET accepted == ~secretDirty
    IN  /\ pc = "secret"
        /\ Outcome(out)
        /\ secret' = IF accepted /\ out # "lost"
                     THEN [exists |-> TRUE, orphan |-> FALSE,
                           data |-> StringData(secret.data, env)]
                     ELSE secret
        /\ secretDirty' = (secretDirty \/ secret' # secret)
        /\ IF accepted /\ out = "ok"
           THEN /\ work' = [work EXCEPT !.status.hash = env]
                /\ Goto(IF env # work.status.hash /\ work.spec.restart
                        THEN "restart" ELSE "clients")
           ELSE Fail
        /\ UNCHANGED <<objVars, podVars, credVars, workFresh, env, pending,
                       left, conf, touched, edits, drifts>>

\* An error is logged; the hash stays in the status that will be stored.
RestartDeployment(out) ==
    /\ pc = "restart"
    /\ Outcome(out)
    /\ rollout' = (rollout \/ out # "lost")
    /\ Goto("clients")
    /\ UNCHANGED <<objVars, secret, secretDirty, pods, credVars, work,
                   workFresh, env, pending, left, conf, touched, edits, drifts>>

ChooseClients ==
    /\ pc = "clients"
    /\ IF work.spec.clients = {}
       THEN Fail /\ UNCHANGED pending
       ELSE StartClients /\ Goto("connect") /\ UNCHANGED work
    /\ UNCHANGED <<objVars, secret, secretDirty, podVars, credVars, workFresh,
                   env, left, conf, touched, bounds>>

Succeed ==
    /\ Goto("status")
    /\ work' = [work EXCEPT !.status.ready = "True", !.status.readyGen = work.gen]

\* Wrong variant: does not notice that this was the last client.
ProceedAlways ==
    /\ pending' = pending \ {Current}
    /\ Goto("connect") /\ UNCHANGED work

\* The current client is done: the next one, or success.
Proceed ==
    /\ pending' = pending \ {Current}
    /\ IF pending' = {}
       THEN Succeed
       ELSE Goto("connect") /\ UNCHANGED work

\* Each client's credentials are resolved anew in every pass.
CredentialsMissing(client) == client \in noCreds

\* Credentials, TestConnection; the version is only for display.
ConnectClient(out) ==
    LET client == Current
    IN  /\ pc = "connect"
        /\ Outcome(out)
        /\ IF CredentialsMissing(client) \/ out # "ok"
           THEN Fail /\ UNCHANGED <<pending, left>>
           ELSE /\ left' = ToSync(work.spec, client)
                /\ IF left' = {} THEN Proceed
                   ELSE Goto("sync") /\ UNCHANGED <<work, pending>>
        /\ UNCHANGED <<objVars, secret, secretDirty, podVars, credVars,
                       workFresh, env, conf, touched, edits, drifts>>

\* What a client holds after a call that writes some settings of the spec.
Configured(client, call) ==
    [conf EXCEPT ![client] =
        [s \in Settings |-> IF s \in call THEN work.spec.want[client][s]
                            ELSE conf[client][s]]]

\* Wrong variant: a failed setting is skipped.
SyncClientSkipping(out) ==
    LET client == Current
        call   == NextCall(client, left)
    IN  /\ pc = "sync"
        /\ Outcome(out)
        /\ conf' = IF out = "lost" THEN conf ELSE Configured(client, call)
        /\ touched' = touched \ ({client} \X call)
        /\ left' = left \ call
        /\ IF left' = {} THEN Proceed ELSE UNCHANGED <<pc, work, pending>>
        /\ UNCHANGED <<objVars, secret, secretDirty, podVars, credVars,
                       workFresh, env, edits, drifts>>

\* The first error ends the pass.
SyncClient(out) ==
    LET client == Current
        call   == NextCall(client, left)
    IN  /\ pc = "sync"
        /\ Outcome(out)
        /\ conf' = IF out = "lost" THEN conf ELSE Configured(client, call)
        /\ touched' = touched \ ({client} \X call)
        /\ left' = left \ call
        /\ IF out # "ok" THEN Fail /\ UNCHANGED pending
           ELSE IF left' = {} THEN Proceed
           ELSE UNCHANGED <<pc, work, pending>>
        /\ UNCHANGED <<objVars, secret, secretDirty, podVars, credVars,
                       workFresh, env, edits, drifts>>

\* The time stamp of a success may make the stored object differ even when
\* all the rest is as before.
WriteStatus(out) ==
    /\ Outcome(out)
    /\ IF workFresh /\ out # "lost"
       THEN /\ obj' = [obj EXCEPT !.status = work.status]
            /\ cacheFresh' \in {FALSE, cacheFresh /\ obj.status = work.status}
       ELSE UNCHANGED <<obj, cacheFresh>>

\* Wrong variant: returns an empty Result, so that nothing comes back later.
UpdateStatusAndForget(out) ==
    /\ pc = "status"
    /\ WriteStatus(out)
    /\ EndPass
    /\ IF workFresh /\ out = "ok" THEN UNCHANGED queued ELSE queued' = TRUE
    /\ UNCHANGED <<cache, timer, secret, secretDirty, podVars, credVars, conf,
                   edits, drifts>>

UpdateStatus(out) ==
    /\ pc = "status"
    /\ WriteStatus(out)
    /\ EndPass
    /\ IF workFresh /\ out = "ok"
       THEN timer' = TRUE /\ UNCHANGED queued
       ELSE queued' = TRUE /\ UNCHANGED timer
    /\ UNCHANGED <<cache, secret, secretDirty, podVars, credVars, conf, edits,
                   drifts>>

\* Wrong variant: returns the error without storing the status.
ReturnError(out) ==
    /\ pc = "errStatus"
    /\ out = "ok"
    /\ EndPass
    /\ queued' = TRUE
    /\ UNCHANGED <<obj, cacheFresh, cache, timer, secret, secretDirty, podVars,
                   credVars, conf, bounds>>

\* A returned error requeues the object, the RequeueAfter beside it does not
\* count.
UpdateErrorStatus(out) ==
    /\ pc = "errStatus"
    /\ WriteStatus(out)
    /\ EndPass
    /\ queued' = TRUE
    /\ UNCHANGED <<cache, timer, secret, secretDirty, podVars, credVars, conf,
                   edits, drifts>>

\* Wrong variant: swallows the error of the update.
RemoveFinalizerOnce(out) ==
    /\ pc = "removeFinalizer"
    /\ Outcome(out)
    /\ IF workFresh /\ out # "lost"
       THEN obj' = NoObject /\ cacheFresh' = FALSE /\ secret' = Orphaned
       ELSE UNCHANGED <<obj, cacheFresh, secret>>
    /\ EndPass
    /\ UNCHANGED <<cache, queued, timer, secretDirty, podVars, credVars, conf,
                   edits, drifts>>

\* reconcileDelete leaves the clients as they are.
RemoveFinalizer(out) ==
    /\ pc = "removeFinalizer"
    /\ Outcome(out)
    /\ IF workFresh /\ out # "lost"
       THEN obj' = NoObject /\ cacheFresh' = FALSE /\ secret' = Orphaned
       ELSE UNCHANGED <<obj, cacheFresh, secret>>
    /\ EndPass
    /\ IF workFresh /\ out = "ok" THEN UNCHANGED queued ELSE queued' = TRUE
    /\ UNCHANGED <<cache, timer, secretDirty, podVars, credVars, conf, edits,
                   drifts>>

(***************************************************************************)
(* The specification.                                                      *)
(***************************************************************************)
User ==
    \/ \E s \in Specs : UserCreates(s) \/ UserEdits(s)
    \/ UserDeletes
    \/ \E v \in Secrets \cup {NoValue} : UserSetsCredentials(v)
    \/ \E c \in ClientNames :
          \/ UserTogglesClientSecret(c)
          \/ \E s \in Settings, v \in Limits : UserSets(c, s, v)
    \/ UserRemovesSecret

Worker ==
    \/ Fetch \/ ChooseClients
    \/ \E out \in Reads : ResolveCredentials(out) \/ ConnectClient(out)
    \/ \E out \in Writes :
          \/ AddFinalizer(out) \/ CreateOrUpdateSecret(out)
          \/ RestartDeployment(out) \/ SyncClient(out) \/ UpdateStatus(out)
          \/ UpdateErrorStatus(out) \/ RemoveFinalizer(out)

Next ==
    \/ User \/ CacheSync \/ SecretSync \/ TimerFires \/ CollectGarbage
    \/ RollOut \/ Crash \/ Worker

\* Informers, timers, the worker and Kubernetes' own controllers keep running;
\* users owe nothing, and calls fail only finitely often.
Fairness ==
    /\ WF_vars(CacheSync) /\ WF_vars(SecretSync) /\ WF_vars(TimerFires)
    /\ WF_vars(CollectGarbage) /\ WF_vars(RollOut) /\ WF_vars(Worker)

Spec == Init /\ [][Next]_vars /\ Fairness

(***************************************************************************)
(* Properties.                                                             *)
(***************************************************************************)

\* Every variable holds a value of its type.
TypeOK ==
    /\ obj \in Objects /\ cache \in Objects /\ work \in Objects
    /\ cacheFresh \in BOOLEAN /\ workFresh \in BOOLEAN
    /\ queued \in BOOLEAN /\ timer \in BOOLEAN
    /\ secret \in [exists : BOOLEAN, data : Envs, orphan : BOOLEAN]
    /\ secretDirty \in BOOLEAN /\ rollout \in BOOLEAN /\ pods \in Envs
    /\ vpnCred \in Secrets \cup {NoValue} /\ noCreds \subseteq ClientNames
    /\ pc \in {"idle", "addFinalizer", "resolve", "secret", "restart",
               "clients", "connect", "sync", "status", "errStatus",
               "removeFinalizer"}
    /\ env \in Envs /\ pending \subseteq ClientNames /\ left \subseteq Settings
    /\ pc \in {"connect", "sync"} => pending # {}
    /\ conf \in [ClientNames -> [Settings -> Limits]]
    /\ touched \subseteq (ClientNames \X Settings) \cup {<<"Secret", "data">>}
    /\ edits \in 0..MaxEdits /\ drifts \in 0..MaxDrifts
    /\ faults \in 0..MaxFaults

\* When a pass is about to report Ready=True, each client of the spec it read
\* holds every setting the spec sends and the Secret holds the environment
\* generated for it, unless the user changed that very thing during the pass:
\* no failed or half-done client, in any order of the six, is overlooked.
ReadyMeansConfigured ==
    pc = "status" =>
        /\ Covers(secret.data, env) \/ <<"Secret", "data">> \in touched
        /\ \A c \in work.spec.clients : \A s \in ToSync(work.spec, c) :
              \/ conf[c][s] = work.spec.want[c][s]
              \/ <<c, s>> \in touched

\* A hash enters the stored status only once the Secret holds what it is the
\* hash of, on error paths too: a crash or a failed write in between never
\* makes the next pass believe that the Secret is up to date.
HashDescribesSecret ==
    [][obj.exists /\ obj'.exists /\ obj'.status.hash # obj.status.hash =>
         \/ Covers(secret.data, obj'.status.hash)
         \/ <<"Secret", "data">> \in touched]_vars

Active == obj.exists /\ ~obj.deleting /\ ~obj.spec.suspend

Resolvable ==
    /\ obj.spec.cred => vpnCred # NoValue
    /\ obj.spec.clients # {} /\ obj.spec.clients \cap noCreds = {}

\* Once users and faults pause, an object that is neither suspended nor being
\* deleted, whose credentials exist and which has a client, becomes Ready, its
\* Secret carries the VPN settings and its clients the settings sent to them,
\* whatever was lost, half done or changed behind the controller's back.
Converges ==
    <>[](Active /\ Resolvable =>
           /\ obj.status.ready = "True" /\ obj.status.readyGen = obj.gen
           /\ Covers(secret.data, GenerateGluetunEnv(obj.spec, vpnCred))
           /\ \A c \in obj.spec.clients : \A s \in ToSync(obj.spec, c) :
                 conf[c][s] = obj.spec.want[c][s])

\* The pods are not restarted for ever: even while a client cannot be
\* configured, the hash of a change that was rolled out gets stored.
RestartsCease == <>[](pc # "restart")

\* An object marked for deletion goes away, and its Secret with it, unless
\* somebody suspends it or makes a new object of the same name.
DeletionCompletes ==
    obj.deleting /\ ~obj.spec.suspend ~>
        \/ ~obj.exists /\ ~secret.exists
        \/ obj.exists /\ (obj.spec.suspend \/ ~obj.deleting)

=============================================================================
