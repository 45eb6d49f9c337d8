# A TLA+ model of the Nebularr operator

Nebularr is a Kubernetes operator that configures media services (Radarr,
Sonarr, Lidarr, Readarr, Prowlarr, Bazarr) and the download clients behind them
from custom resources.  This directory holds TLA+ modules that model it, TLC
configurations that check them on small instances, and TLAPS proofs.

## 1. The system

| Part | State it keeps | Operations | Talks to |
|---|---|---|---|
| Generic *arr reconciler (`controller/generic_arr_reconciler.go`, `reconciler.go`) | none between passes; the object's finalizer and status | `Reconcile`, `reconcileNormal`, `reconcileDelete`, `ReconcileConfig`, `CleanupManagedResources`, `ApplyDirectConfig` | API server, adapters, Prowlarr registration |
| Adapters (`adapters/radarr`, `sonarr`, `lidarr`, `readarr`, `prowlarr`) | none; the service's resources, the ownership tag `nebularr-managed` | `Connect`, `Discover`, `CurrentState`, `Diff`, `Apply`, `ApplyDirect` | the service's REST API |
| Shared adapter code (`adapters/diff.go`, `adapters/shared`) | none | diffs by name, apply loops, tag handling | |
| Compiler and presets (`compiler`, `presets`) | none | spec -> IR, feature pruning, preset expansion | |
| Prowlarr coordinator (`controller/prowlarr_coordinator_controller.go`) and registration (`adapters/prowlarr`) | registration part of every *arr object's status; applications in Prowlarr | `Reconcile`, `processAppConfig`, `Register`, `Unregister` | API server, Prowlarr |
| ProwlarrConfig controller | finalizer, status | same skeleton as the generic reconciler | API server, Prowlarr adapter |
| DownloadStack controller (`controller/downloadstackconfig_controller.go`, `adapters/downloadstack`) | Gluetun secret and its hash in the status, settings of six download clients | `reconcileNormal`, one function per client, `restartDeployment` | API server, clients' RPC APIs |
| Bazarr controller (`controller/bazarrconfig_controller.go`, `adapters/bazarr`) | ConfigMap (file mode) or Bazarr's settings (API mode) | `reconcileFileMode`, `reconcileAPIMode` | API server, Bazarr |
| Discovery (`discovery/apikey.go`), metrics, mock, generated clients | | reading API keys, counters, test doubles | |

What makes it hard: the worker reads objects from a cache that lags behind the
API server; users edit, suspend and delete objects and change the services
behind the operator's back while a pass is under way; a pass is dozens of
calls, each of which can fail, or time out after it took effect; the process
can crash between any two of them; errors are mostly logged and swallowed, so a
pass goes on with a partial view; two controllers write the status of one
object.  A component is correct when it ends up with what the spec asks for,
takes away what it made and nothing else, and says in the status what is so.
`PROJECT.json` lists the hazards line by line.

What makes each part correct:

* *Generic reconciler*: the finalizer is stored before the first effect; a
  status is about the stored generation; `Synced=True` is true; drift and
  failures are repaired in the end; a deletion ends, and one without failures
  leaves nothing behind.
* *Adapters*: only what carries the tag is changed or removed; every desired
  resource is planned whenever it is missing or different.
* *Coordinator*: two writers of one status do not undo each other; the record
  of a registration is true; what refers to a Prowlarr gets registered, once,
  with its own key; what is deleted is unregistered.
* *DownloadStack*: `Ready=True` means that every setting was written; the hash in
  the status describes the Secret; pods run what the Secret holds; restarts stop.
* *ProwlarrConfig, Bazarr*: as the generic reconciler; what others made in
  Bazarr, and their ConfigMaps, stay; no profile is made twice.
* *Compiler, presets, secrets*: nothing that is declared gets lost because a list
  did not arrive; a missing secret never becomes an empty credential.
* *RPC clients*: a session that expires in the middle of a pass costs nothing; a
  pass that reports success brought every value to the client, in the client's
  unit; every pass ends.

## 2. Modules

| Module | Models |
|---|---|
| `RadarrAdapter` | the Radarr adapter on abstract resources |
| `ArrReconcile` (extends it) | one *arr object, its cache, work queue and worker, the service, users, faults, crashes |
| `ArrReconcileProofs` | theorems about `ArrReconcile`: types, finalizer and status; ownership and deletion; `Synced` |
| `SpecPassProofs`, `DownloadStackProofs`, `ClientSessionProofs`, `ProwlarrCoordinatorProofs`, `BazarrProofs` | theorems about the module of that name |
| `AdapterShared` | `adapters/diff.go` and `adapters/shared`: diffs, apply order, tag, authentication, the requests that a service serves |
| `RadarrResources`, `SonarrAdapter`, `LidarrAdapter`, `ReadarrAdapter`, `ProwlarrAdapter` | the five adapters with the payloads of every kind of resource |
| `Adapters` | the registry: the five behind one interface |
| `AdapterPass` | passes over two services of one application, request by request, and the deletion |
| `AdapterPlanProofs` | what each adapter lists, plans and requests, for any state of a service; used by the next and by `SpecPassProofs` |
| `AdapterPassProofs` | theorems about `AdapterPass` |
| `OwnedResources` | abstract specification: what the operator may do to a service; `AdapterPass` refines it |
| `ApiTypes`, `Presets`, `Compiler` | stored types with their defaults and validation, presets with overrides, spec to IR with pruning |
| `SpecPass` | one object of any of the five types from its stored spec through secrets, discovery, compilation and adapter to the service; the ProwlarrConfig reconciler is one of the five |
| `DownloadStack` | one DownloadStackConfig, Secret, Deployment, six clients |
| `DownloadSettings`, `ClientSession` | what each section of a client's spec sends, and the session protocols of the clients |
| `ProwlarrCoordinator` | *arr reconcilers and coordinator on shared objects, applications in Prowlarr |
| `BazarrGenerator`, `Bazarr` | config.yaml and API payloads; the BazarrConfig reconciler in both modes |
| `MC*` | finite instances |

The machines look at the same system at different scales.  `ArrReconcile` has the
API server, the cache and the status in full and little of the payloads, so that
it can be proved about.  `AdapterPass` has the payloads, one kind at a time, and
the adapter's memory between passes.  `SpecPass` has whole specifications and
secrets.  `DownloadStack` takes a call to a client as one step with three
outcomes; `ClientSession` opens that step.

Plan: of the safety properties, the three named in section 5 are left to TLC; they
need conditions on specifications (values that a schema accepts, no provider listed
twice) that the API server does not enforce.

## 3. How the modules correspond to the code

`PROJECT.json` maps each definition to its lines; a helper whose lines are already
those of the definition that uses it is not repeated there.  Common to all
modules:

* **API server.**  An object is a record: existence, generation, spec, deletion
  mark, finalizer and the part of the status that matters.  A write from an
  outdated copy is refused (`workFresh`, `fresh`, `copyFresh`); writing the status
  never changes the spec; deleting marks an object that has a finalizer and
  removes one that has none.
* **Cache and queue.**  `CacheSync` delivers the stored object some time later
  and queues it; `TimerFires` stands for `RequeueAfter`.  A returned error queues
  the object at once, back-off is not counted.
* **Calls.**  Each is one step with an outcome: `ok`, `lost` (nothing done, error
  seen) or `late` (done, error seen: the timeout that races an answer).  The
  budget `MaxFaults` is shared with crashes.
* **Users** edit, suspend and delete objects and change the services at any
  point of a pass, `MaxEdits` and `MaxDrifts` times.

**RadarrAdapter.**  The service maps a resource (kind and name) to what it
holds: there or not, tagged or not, and a value of three parts: `main` is
written and compared, `hidden` is written and not compared (credentials),
`dropped` is compared and never comes back as desired (a category under a wrong
name).
`CurrentState`, `Diff`, `Apply` and `ApplyDirect` keep each kind's way of listing,
comparing and finding.  Delay profiles carry no tags and are the operator's by
position; the list calls of one `CurrentState` are one step, in which any subset
may have failed, as the code swallows those errors.  That Radarr refuses a second
resource of one name, and fills in what a payload leaves out, is external.

**ArrReconcile.**  `pc` is the place in `Reconcile`: `addFinalizer`, `prepare`
(secrets, adapter, discovery, compilation), `connect`, read, tag, apply one change
after the other, direct apply, registration, status; and the path of
`reconcileDelete`.  A panic is a step that ends in the recovery of
controller-runtime.  Health reporting reads only and is left out; the
coordinator's writes of the same status are the subject of
`ProwlarrCoordinator`.

**DownloadStack.**  `ResolveCredentials`, `CreateOrUpdateSecret` (a cache of its
own, so a conflict is possible; `StringData` is merged by the API server; a Secret that
an earlier object of the same name left behind is taken over, as the owner is told by
its name),
`RestartDeployment`, then for each client in the order of the code `ConnectClient`
and `SyncClient`, and the status.  Two settings stand for the many: a limit and a
switch; which values are sent is an operator for each client.  The hash stands
for what it hashes.  `Connected` and version fields are left out: nothing reads
them.  `RollOut` starts pods with the Secret of that moment.

**ProwlarrCoordinator.**  Each *arr controller has a worker, the coordinator has
one.  `ArrSync` stands for all that `ArrReconcile` has before the registration.
The coordinator lists a type, and for every object calls `ProcessAppConfig` and
sends the status from its copy; `Verdict` and `Record` are the cases of
`processAppConfig`.  An application is represented by the key it holds, under the
name that each of the two gives it.  ProwlarrConfigs are read as cached, and
their state is changed by one action for users and their controller; one that is being
deleted is skipped by the coordinator and still used by the reconcilers.  Time
stamps in a status make a write that changes nothing else either a write or none.
The objects of a list and the types that are still to come are sets, of which the
first in the order of the code (`FirstOf`) is taken; a type without objects is skipped.

**Adapters.**  A resource is its kind, id, name, configuration and whether it
carries the ownership tag; a name made of several texts is the tuple of its parts.
Each adapter has its `CurrentState`, its diffs, its table of what a change becomes
(`POST`, `PUT`, `DELETE`, or nothing) and its `ApplyDirect`.  Enough of a payload is
kept to tell apart what is compared, what is written without being compared and
what is lost on the way: the category under the wrong name, a quality group, the
score of a format.  What a service does with a request (`Accepts`, `Serve`) is
external.

**AdapterPass.**  `Read` is `CurrentState` with any lists missing, as errors of lists
are swallowed; then `EnsureTag`, `ApplyOne` for each change, `ReadDirect` and
`SendDirect`.  The ids that a package remembers between passes (`globals`,
`caches`) are shared by two services of one application.  A pass after the
deletion desires nothing.  The abstract `OwnedResources` sees of this the names
that carry the tag, everybody else's resources and the names that the pass
desires.  It says nothing of kinds that carry neither tag nor prefix (formats, delay
profiles, mappings, import lists, singletons).  Users do not take over a name that
an update or deletion of the running pass is about where Radarr and Readarr look
resources up by name: there the code does hit the user's resource (section 4).

**Compiler, ApiTypes, Presets.**  An operator per type yields the stored value
from what the user writes, so that defaults, and the zero that `omitempty` turns
into a default, are those of the API server.  `SpecPass` resolves one secret per
step (`Gettable`, `Fetched`), in the order of the code, and goes on with what it has
read even if the secret changes meanwhile.  A list asks for its secret only and takes
the keys that it has, none of them too.  `pass.stores` is a history that no step reads:
the states that the secrets were in from the start of the pass to its last Get, so
that the properties can say which values a credential may have.  `Read` loses the
list of the tags or of any one kind, and goes on as if it were empty, as the code does;
`CompileConfig` loses a schema.

**Bazarr.**  File mode: resolve, generate, Get, Create or Update of the
ConfigMap.  API mode: connect, health, list, one profile per step, providers.  The
status is written at the end from the copy of the pass.  The deletion reads the
ConfigMap, checks its owner and deletes it by name; the garbage collector is an
action of its own.

**ClientSession.**  One request per step.  Transmission's 409 with a new session id
and its bounded repetition, qBittorrent's cookie with one new login after 403,
Deluge's check, login and connection to a daemon, and the three clients without
a session.  While `storm` lasts, any session may expire at any moment without
bound.  A value is written under the client's key and in its unit; `MCExpected`
says by hand what the client is to hold.

Definitions whose comment begins with "Wrong variant" or "A slip" are not part of the model:
they are mistakes that the properties have to notice.

## 4. Runs

| Run | Instance | Shows |
|---|---|---|
| `arr_safety` | a download client (found by name), a notification (found by id), two import lists, a singleton, a Prowlarr reference; 3 edits, 1 drift, 1 fault | types, finalizer before effects, unowned untouched, status about the stored spec, a clean deletion leaves nothing |
| `arr_kinds` | the other kinds of the change set and the default delay profile; 2 edits, 1 drift, 1 fault | `Synced=True` is true |
| `arr_live` | one client with a category and credentials, wanted or not, suspended or not; 3 edits, 1 drift, 1 fault | convergence, deletion completes |
| `adapter_pass` | 48 scenes, every kind of every adapter, two services; 1 edit, 1 fault, 1 drift (2 where a resource has to be removed and made again) | a pass that meets no trouble leaves what it desires, the next one plans nothing, a deletion leaves nothing, and only owned resources are touched (the refinement) |
| `spec_pass` | five applications, a specification and its edit, secrets complete, rotated, without a password, with an empty list secret, gone (each application has those that matter to its parts); any one list or schema lost; 1 event for the larger ones, 2 for the others | nothing declared is taken away, every credential and secret setting is one that the secret had during the Gets of that pass, the spec is reached or the missing secret shows, deletion ends |
| `stack_sync` | five of the six clients, some written in bulk and some call by call, both types of VPN; 2 edits, 1 drift, 1 fault | Ready and hash are true |
| `stack_live` | the sixth client, credentials that change, suspension; 2 edits, 1 drift, 1 fault | convergence, restarts cease, deletion completes |
| `client_rpc` | ten specifications of six clients; sessions expire without bound; 3 other events | success means applied, no failure without a reason, passes end, the spec is reached or the failure shows |
| `coord_move` | one object between two ProwlarrConfigs, or made manual; 3 edits | records are true, unregistered before gone |
| `coord_live` | one object, one ProwlarrConfig in every state; 2 edits, 1 removed application, 1 fault | types, no lost update, records are true, registration in the end |
| `bazarr` | five specifications of both modes, three states of the secrets, a foreign profile and ConfigMap; 2 events | Ready is true, no profile twice, others' things kept, the object settles |

Bounds.  Three writes of the object give create, edit and delete, or edit and
revert; each of the hazards needs at most that many.  Two give create and edit or
create and delete; they are used where the instance is large in other ways.  One
drift and one fault can fall at every point of every pass; a property of a single
pass is not disturbed by more, and the proofs in section 5 hold without bounds.
In `spec_pass`, `bazarr` and `client_rpc` the events share one budget; two are an edit and
a fault in the pass after it, or a fault and a restart in its repetition, and
`client_rpc` needs a third for a password that is changed on one side and then
on the other.  The scenes of `adapter_pass` and `spec_pass` are independent: a
behaviour stays in the scene it begins in.  No symmetry is used: the sets are too
small to gain from it.

Deadlock is checked in `coord_move`, `adapter_pass` and `client_rpc`, where a timer or
the next pass never stops.  Everywhere else the object (in `coord_live` also the
ProwlarrConfig) may be deleted for good, and then nothing is left to do.

Fairness.  Weak fairness of the informers, of the timers, of the workers, of the
garbage collector and of the Deployment controller: goroutines and controllers
that keep running.  In `SpecPass`, `Bazarr` and `ClientSession` it is weak fairness of the
steps of a pass and of the beginning of the next one: every pass ends in a
`RequeueAfter` or in an error, and both queue the object again.  In
`ProwlarrCoordinator` strong fairness of taking a given key from a queue, because
the work queue hands out keys in the order of their arrival.  Nothing is assumed
of users, faults are finitely many by their bound, and the end of a storm of
expiring sessions is not assumed: `PassEnds` holds without it and the other
property has it as its hypothesis.  `RegistrationConverges` is about Prowlarr and not
about the stored record: a reconciler that keeps writing time stamps may refuse
the coordinator's update again and again, and fairness alone does not exclude
that.

One run, `arr_foreign_format`, shows a disagreement between the code and its
documentation (`findings` in `PROJECT.json` quotes the lines): the operator removes a
custom format that the user made.

Further disagreements that the models follow the code in, and that have no run:

| Where | What the code does | What is said of it |
|---|---|---|
| `reconciler.go:195` | stores `Ready=True` after a change failed and `Synced=False` was set | its own message: "Configuration reconciled successfully" |
| `reconciler.go:154` | reads the result that `Apply` returns as nil when the tag cannot be made | `docs/README.md:295`: "Missing features degrade, don't crash" |
| `reconciler.go:204` | leaves tagged import lists behind on deletion | `docs/OPERATIONS.md:581`: "All tagged resources are deleted" |
| `adapters/radarr/apply.go:746` | looks for a lower-case implementation and so writes no category | `common_types.go:211`: "Category for downloads. Defaults to app name" |
| `adapters/diff.go:218` | plans no update when only credentials change | `docs/DESIGN.md:253`: "Drift is corrected" |
| `downloadstackconfig_controller.go:193` | keeps keys in the Secret that the spec no longer yields, as `StringData` is merged | `docs/DOWNLOADSTACK.md:87`: "The controller generates a Secret with Gluetun environment variables" |
| `downloadstackconfig_controller.go:485` | skips zero, so that a limit cannot be lifted | `downloadstackconfig_types.go:430`: "DownloadLimit in KiB/s (0 = unlimited)" |
| `downloadstackconfig_controller.go:1303` | is triggered again by its own status update | `common_types.go:366`: "Interval between reconciliations." |
| `prowlarr_coordinator_controller.go:285` | registers Radarr, Sonarr and Readarr a second time, under another name | `config_interfaces.go:219`: the coordinator is used for Lidarr "to avoid duplicates" |
| `prowlarr_coordinator_controller.go:208` | records a removed reference as unregistered and leaves the application | `common_types.go:382`: "Registered indicates whether this app is registered with Prowlarr." |
| `prowlarr_coordinator_controller.go:264` | takes one Secret per type for all configurations of that type | `docs/OPERATIONS.md:790`: "Controller gets Radarr connection info (URL, API key)" |
| `adapters/diff.go:10` | matches quality profiles by their presence: once a custom format made `CurrentState` report one, a profile that was removed is never created again | `docs/DESIGN.md:253`: "Drift is corrected" |
| `adapters/diff.go:38` | never updates a quality profile, so that new scores of formats take no effect | the same |
| `downloadstackconfig_controller.go:207` | compares with the hash of the last stored status and not with what the pods run: after a pass whose status was not stored, pods may keep an intermediate environment | `downloadstackconfig_types.go:1288`: "RestartOnGluetunChange triggers Deployment restart when Gluetun config changes" |
| `generic_arr_reconciler.go:286` | removes only its own application; the coordinator's `nebularr-pull-...` stays | `generic_arr_reconciler.go:284`: "Unregister from Prowlarr if prowlarrRef was set" |
| `downloadstackconfig_types.go:1290` (also 120, 660) | drops an explicit `false` or 0 (`omitempty`) from what Go clients send, and the default takes its place | `downloadstackconfig_types.go:659`: "default=-1" is for a field left out |
| `adapters/prowlarr/adapter.go:143` | plans nothing for the empty configuration of a deletion | `docs/OPERATIONS.md:581`: "All tagged resources are deleted" |
| `bazarrconfig_controller.go:386` | logs a failed profile and stores `LanguageProfilesSynced=true` | `bazarrconfig_types.go:206`: "LanguageProfilesSynced indicates if language profiles are synced" |
| `bazarrconfig_types.go:218` | never sets `LastAppliedHash` | "LastAppliedHash is the hash of the last applied spec." |
| `bazarrconfig_types.go:54` | sends no default profiles in API mode | "DefaultForSeries makes this the default profile for series." |
| `adapters/downloadstack/sabnzbd_client.go:336` | sends a value without the name of the setting, and takes an error with status 200 for success | `sabnzbd_client.go:331`: "SetSpeedLimit sets download speed limit" |
| `adapters/downloadstack/nzbget_client.go:372` | saves the configuration and never asks NZBGet to read it again | `nzbget_client.go:494` has `Reload`, which nobody calls |
| `adapters/downloadstack/deluge_client.go:242` | drops every error of `web.connect` | its comment: "Connection might already be established" |
| `common_types.go:1031` | the settings secret of a notification is never resolved | "SettingsSecretRef references a Secret containing sensitive settings." |
| `ir/v1/ir.go:71` | collects what was pruned and reports it to nobody | `docs/TYPES.md:222`: "IR must support \"unrealized\" states for capability pruning" |

Smaller ones: fields of the download clients that nothing reads (the assumption
`UnreadFields` of `MCClientSession` names them); the key `password` that the code
falls back to is never used, as every secret reference has the default key
`apiKey`; a preset that the documentation names and the code does not have becomes
`balanced`; a cutoff in a source that Sonarr's schema does not know (remux) is
refused by Sonarr; indexers, and clients with a category, are written again by
every pass of Radarr; two delay profiles with one order become one; the last
import list and the last provider of Bazarr stay after they were taken out of the
spec; a Bazarr profile of the user with a desired name is taken over, and so is a
resource that takes a name between the read and the change of a Radarr or Readarr
pass (`UnownedUntouched` leaves those out); a ConfigMap that replaces Bazarr's between
the Get and the Delete is deleted (`OthersKept` leaves it out); a pair of credentials
may consist of halves of two versions of its secret and, as credentials are not
compared, stay so until something else of the resource changes; an object whose reference moved or was removed before it is deleted leaves its
registration at the earlier Prowlarr (`UnregisteredBeforeGone` is about the last one); a
suspended object that is deleted keeps its finalizer.

## 5. Proofs

TLAPS checks the theorems below for every value of the constants: every set of
specifications, every set of values, any number of edits, drifts and faults.  A
property of section 4 that has a theorem here is shown there on an instance and
here in general.  Each proof has the same form: the initial states satisfy an
inductive invariant, every action keeps it (one step per action), and the invariant
implies the property.  The properties themselves are seldom inductive, because a
pass decides on what it read earlier; the invariants say what that is still good
for.  TLC checked each invariant on the instance of its run before it was proved.

**ArrReconcile.**
* `TypeCorrect`: `TypeOK`, with `FreshCopies`: a copy of the worker or of the informer that
  passes for the stored version differs from it at most in the status.  It rests on
  `GuardInv`, as the copies meet the stored object where a write is accepted.
* `FinalizerGuard`: the stored object has its finalizer whenever the worker may
  change a service.  The worker acts on a copy of a cache, so `GuardInv` adds what
  an old copy still says about the stored object: one seen with finalizer and
  without deletion mark goes on existing until a worker on the delete path lets it
  go, and while a worker is there no such object is stored or cached.
* `StatusAboutStoredSpec`: from `StatusInv`, which says what a pass has decided
  before it writes.
* `UnownedStay`: `OwnInv` says that a change other than a creation was planned for
  a resource that carried the tag and still does, unless a user replaced it, that
  no resource is planned for twice, and that nothing is owned before the tag exists.
* `CleanDeletion`: `CleanupInv` says that from the read of a deletion on, all that
  is still the operator's is on the list of deletions unless a call failed.
* `SyncedIsTrue`: `Synced=True` is claimed when the change set is worked off and
  stored several calls later.  `SyncInv` says that from the diff on a resource that
  nobody touched is as desired or still planned for, unless some change failed, that
  every planned change brings its resource to what is desired, and that the direct
  writes in between are for other kinds.  The lemmas `WantedIsCovered`,
  `UnwantedIsCovered` and `DiffCovers` say that `Diff` leaves nothing out.

**AdapterPass.**
* `TypeCorrect`: `TypeOK`.
* `PassesTouchOnlyOwned`: `AdapterPass` implements `OwnedResources`.  A pass plans on what it
  read, and users, the other service's pass (which shares the package's ids and
  caches) and lost or late requests change the services before the plan is worked off.
  `IInv` says what stays true meanwhile.  Of a service (`HeldOK`): ids are never
  reused, names are unique, and a cached id leads to nothing or to a resource of the
  operator with the name it is cached for.  Of each change that is still to be made
  (`ChangeOK`): it is a creation under a desired name, or it leads, by its id, by its
  name or through the cache as the adapter in question does it (`Aimed`), to nothing or to
  a resource of the operator, which is desired where it is updated and not desired
  where it is deleted.  `PlanOK` shows, adapter by adapter, that `CurrentState` and `Diff`
  produce such changes; `RequestSound` that `Apply` turns such a change into a request
  within these limits; `ChangeFollows` that steps of others leave it such a change;
  `FairEffect` that the service makes of the request what the abstract step allows.
* `CleanupIsComplete`: `CleanupLeavesNothing`.  `CleanupPlans` shows that with the tag and the
  list at hand the plan of a deletion has a deletion for every resource of the operator,
  carrying its id where ids are carried; for the profiles of Sonarr and Lidarr that id
  comes from a variable of the package.  `PassOwes` says that until something fails or
  somebody interferes, what is still owned is still planned for.

**SpecPass.**
* `CredentialsAreReal`: every user name, password, key and secret setting that a pass
  works towards, for any of the five applications, is a value that the very key of the
  secret had between the start of this pass and its last Get.  It covers all that
  carries credentials in an IR: clients, indexers, proxies, applications, the
  authentication, import lists and notifications.  A list also has every key that its
  secret kept all the time.  User name and password are two Gets, so that halves of two
  versions do occur; the theorem leaves them only to a secret that changed during the
  Gets of the pass itself.  Secrets change and vanish between the Gets and before the
  compilation, and the compiler puts an empty text where it finds nothing.  `Owed` says
  that each entry which the specification needs has been read or is still owed by a
  reference that waits (the second key of a pair by what is left of the pair), and that
  the secret of a list waits or was read as a whole at one moment; `ReadIsHad` that
  what was read under an entry is a value the entry had during the Gets; and nothing is
  desired before the compilation, so that a change of the secrets (`SecretsStep`) finds
  nothing to unsettle.  `ArrIsFounded` and `ProwlarrIsFounded` go through the compilers,
  `SettingsAreBacked` through the overlay of settings.
* `DeclaredIsKept`: `KeepsDeclared`.  The adapters delete and update by ids that were read
  at the start of the pass, or cached by an earlier one, and an object is edited and its
  service read incompletely meanwhile.  `KeepInv` is the second invariant.  `Stock`: ids
  are given out once for a kind and the settings that are only updated are there.
  `Remembers`: a cached id leads to nothing or to the client or indexer with the name that
  it is cached under.  `Working`: from compilation on the IR has every client and indexer
  that the specification calls for (`Covers`, which needs that pruning drops only clients
  whose implementation the service lacks, and no indexer), and each change that waits
  leads to what it names and deletes only what is not desired (`Justified`).  For each of
  the adapters `Faithful` says that the request made of such a change writes under the
  name of the resource that it reaches and removes only where the change says so.
  Whatever list is lost, the plan is made of what did arrive.
* `TypeCorrect`: `TypeOK`, from both invariants.

**DownloadStack.**
* `TypeCorrect`, `ReadyIsEarned`, `HashIsEarned`: the hash and the claim are stored at
  the end of the pass, from a copy.  `HashHeld` follows the hash in the copy through the
  pass, error paths included; `ClientsHeld` says of each setting that is sent that it
  is outstanding, done or touched by the user; `Copies` is the argument about old
  copies and finalizers again.

**ClientSession.**
* `TypeCorrect`, `FailuresAreExcused`, `SuccessIsApplied`.  `Troubles` bounds from below
  the troubles that a pass has met by what its client object believes of the
  session and how often it has repeated; so a loop that gives up has met as many as
  it had attempts.  `Brought` says of every call before the present one that its
  values are in the client unless a later one wrote over them.  `SuccessIsApplied` has
  `ExpectedIsSent` as its hypothesis: the expected values are the last ones that the
  calls send.  For the six clients this is checked by TLC (`SentIsExpected`), against
  expectations written by hand.

**ProwlarrCoordinator.**
* `TypeCorrect`, `RecordsAreTrue`, `UpdatesAreKept`, `GoneUnregistered`: two writers share
  each object.  `RecordsTrue` says that a record is true wherever it is kept, in the API
  server, in the cache and in the coordinator's copies however old; `CoHeld` that a
  copy which is not outdated differs from the stored object in the record alone.

**Bazarr.**
* `TypeCorrect` (Ready is True exactly with the reason Ready), `ProfilesAreUnique`,
  `OthersAreKept`: `ListHeld` says that a profile of the
  operator is in the list that the pass got, with the name it has now, or was made by
  this pass for an earlier entry; `MapsHeld` says the same of the ConfigMap that was
  read.

Assumptions on the constants, all evaluated by TLC on the instances: resources are
of the known kinds and values have their three parts (`RadarrAdapter`), specifications
are of the type that the module declares and bounds are numbers (everywhere);
specifications are admitted by the API server (`EveryModeIsAdmitted`, `ScenesAssumption`),
because the code leans on the validation markers; a reference to a ConfigMap is a pointer
and so at most one, profiles are a list (`ConfigMapRefIsPointer`, `LanguageProfilesIsList`);
the calls of a specification are a list (`CallsAreLists`); a reference to a secret names
one, the entries of secrets are pairs of a secret that exists and a key, their values are
texts, and the ids of an installed service are below those
it gives out later (`ScenesAssumption`), one for each resource of a kind; the services
that the operator writes to directly come with their naming, media management and
authentication settings, and the *arr services know the indexer types Newznab and Torznab
(`ServicesAssumption`); a scene of `AdapterPass` is about a kind that its
adapter manages, its IRs hold resources of that kind, and those that are quality profiles
have one name, because the compilers name the profile after the object
(`ScenesAssumption`); a configuration has one of the four types and
keys, references and ProwlarrConfigs are different things (`ProwlarrCoordinator`).

Only model-checked:
* every liveness property: fairness and ENABLED are out of reach of the installed
  provers;
* `SettledPlansNothing` and `CleanMeansDesired` of `AdapterPass`: they are about what becomes
  of every field of a payload on its way to the service and back, which holds of the
  values that the API server admits and the services' schemas know (the scenes) and
  not of every configuration that the theorems above allow;
* `ReadyIsTrue` of `Bazarr`: it holds of the specifications of the run and not of all, as
  of a provider that is listed twice with different keys only one key can be held.

## 6. Not modelled

Generated code (the API clients and deep copies), metrics, API key discovery (one
file is read), the HTTP transport, the mock, process set-up and leader election,
queries that no reconciler calls, and Gluetun's environment beyond what decides
about a restart.  One configuration per service and one replica of the operator are
assumed; a service keeps its URL.  Back-off times, time stamps and log messages are
not told apart.
