---------------------------- MODULE RadarrAdapter ----------------------------
(***************************************************************************)
(* The Radarr adapter (internal/adapters/radarr) as operators: what        *)
(* CurrentState shows of the service, what Diff and the direct apply plan  *)
(* to do about it, in which order Apply works the plan off, and what each  *)
(* call does to the service.                                               *)
(*                                                                         *)
(* The service is a function from resources to entries.  A resource is     *)
(* [kind, name]: the name is what the code identifies it by (the profile's *)
(* or client's name, the folder's path, host|remotePath, the delay         *)
(* profile's order).  An entry says whether the resource exists, which     *)
(* configuration it holds, and whether the operator made it its own: for   *)
(* the kinds that Radarr lets carry tags, `ours' is the ownership tag      *)
(* "nebularr-managed"; for the others nothing in the service records it    *)
(* and `ours' only remembers who created it.                               *)
(***************************************************************************)
EXTENDS Naturals

CONSTANTS
    Resources,  \* the resources of the service under consideration
    Values,     \* configurations a resource can hold
    NoValue,    \* "not in the desired state" / "does not exist"
    Unset       \* what Radarr puts for a field that a payload leaves out

Kinds ==
    {"QualityProfile", "CustomFormat", "DownloadClient", "Indexer",
     "RootFolder", "RemotePathMapping", "NamingConfig", "Notification",
     "DelayProfile", "ImportList", "MediaManagement", "Authentication"}

(***************************************************************************)
(* A configuration is [main, dropped, hidden]: `main' is written and       *)
(* compared; `dropped' is compared but does not come back as desired;      *)
(* `hidden' is written but not compared.                                   *)
(*                                                                         *)
(* Of a download client the category is dropped: the compiler hands over   *)
(* "QBittorrent", buildDownloadClientFields looks for "qbittorrent" and    *)
(* adds no category field.  Its credentials are hidden.  Of a custom       *)
(* format the source and resolution conditions are dropped: they are       *)
(* written as numbers and read back as the digits.                         *)
(***************************************************************************)
Stored(v) == [v EXCEPT !.dropped = Unset]

LossyKinds == {"DownloadClient", "CustomFormat"}

Written(kind, v) == IF kind \in LossyKinds THEN Stored(v) ELSE v

ASSUME ResourcesAssumption ==
    /\ Resources \subseteq [kind : Kinds, name : STRING]
    /\ NoValue \notin Values
    /\ \A v \in Values : Stored(v) \in Values

ASSUME ValuesAssumption ==
    \A v \in Values : DOMAIN v = {"main", "dropped", "hidden"}

Entries == [has : BOOLEAN, val : Values \cup {NoValue}, ours : BOOLEAN]
Gone    == [has |-> FALSE, val |-> NoValue, ours |-> FALSE]
Desired == [Resources -> Values \cup {NoValue}]

\* The empty IR that a deletion diffs against.
Nothing == [r \in Resources |-> NoValue]

OfKind(kind) == {r \in Resources : r.kind = kind}

(***************************************************************************)
(* How each kind is treated.                                               *)
(***************************************************************************)

\* Written outside the change set, straight from the desired state.
DirectKinds == {"ImportList", "MediaManagement", "Authentication"}

\* One instance that always exists: only ever updated.
SingletonKinds == {"NamingConfig", "MediaManagement", "Authentication"}

\* Kinds whose list is filtered by the ownership tag.
TagFilteredKinds == {"DownloadClient", "Indexer", "Notification"}

\* Kinds whose payload carries the ownership tag when they are written.
TaggedPayloadKinds == TagFilteredKinds \cup {"DelayProfile", "ImportList"}

\* Kinds that Apply addresses by the id the diff saw, not by name.
ByIdKinds == {"RemotePathMapping", "Notification", "DelayProfile", "ImportList"}

\* The delay profile of order 1 always exists and is never deleted.
DefaultDelayProfile(r) == r.kind = "DelayProfile" /\ r.name = "1"

\* Kinds that Diff takes away when they are not desired.
DeletableKinds ==
    {"CustomFormat", "DownloadClient", "Indexer", "RemotePathMapping",
     "Notification", "DelayProfile"}

(***************************************************************************)
(* CurrentState.  Each list keeps what the operator recognises as its own: *)
(* by the tag where there is one, by the name prefix (which is part of a   *)
(* resource's name here) for quality profiles, everything for the rest.    *)
(***************************************************************************)
Existing(service, kind) == {r \in OfKind(kind) : service[r].has}
Tagged(service, kind)   == {r \in Existing(service, kind) : service[r].ours}

getManagedDownloadClients(service) == Tagged(service, "DownloadClient")
getManagedIndexers(service)        == Tagged(service, "Indexer")
getManagedNotifications(service)   == Tagged(service, "Notification")
getManagedQualityProfiles(service) == Existing(service, "QualityProfile")
getManagedCustomFormats(service)   == Existing(service, "CustomFormat")
getRootFolders(service)            == Existing(service, "RootFolder")
getRemotePathMappings(service)     == Existing(service, "RemotePathMapping")
getNamingConfig(service)           == Existing(service, "NamingConfig")
getManagedDelayProfiles(service)   == Existing(service, "DelayProfile")

Listed(service) ==
    getManagedQualityProfiles(service) \cup getManagedCustomFormats(service)
        \cup getManagedDownloadClients(service) \cup getManagedIndexers(service)
        \cup getRootFolders(service) \cup getRemotePathMappings(service)
        \cup getNamingConfig(service) \cup getManagedNotifications(service)
        \cup getManagedDelayProfiles(service)

\* Wrong variant: forgets the hasTag filter of the tagged kinds.
CurrentStateUnfiltered(service, tag, blind) ==
    [r \in Resources |->
        IF tag /\ r.kind \notin blind /\ service[r].has
        THEN service[r] ELSE Gone]

\* `tag' says that the ownership tag was found; `blind' holds the kinds whose
\* list call failed: the error is dropped and the kind looks empty.
CurrentState(service, tag, blind) ==
    LET listed == Listed(service)
    IN  [r \in Resources |-> IF tag /\ r.kind \notin blind /\ r \in listed
                             THEN service[r] ELSE Gone]

(***************************************************************************)
(* Diff: the changes of each kind.                                         *)
(***************************************************************************)
Ops ==
    [op : {"create", "update"}, res : Resources, payload : Values]
        \cup [op : {"delete"}, res : Resources, payload : {NoValue}]

Changes(op, resources, desired) ==
    {[op |-> op, res |-> r, payload |-> desired[r]] : r \in resources}

Wanted(kind, desired) == {r \in OfKind(kind) : desired[r] # NoValue}
Seen(kind, current)   == {r \in OfKind(kind) : current[r].has}

\* Two lists matched by name; `equal' are those that need no update.
DiffByName(kind, current, desired, equal) ==
    LET wanted == Wanted(kind, desired)
        seen   == Seen(kind, current)
    IN       Changes("create", wanted \ seen, desired)
        \cup Changes("update", (wanted \cap seen) \ equal, desired)
        \cup Changes("delete", seen \ wanted, desired)

\* Both compared parts agree.
Alike(current, desired) ==
    {r \in Resources : /\ desired[r] # NoValue /\ current[r].has
                       /\ current[r].val.main = desired[r].main
                       /\ current[r].val.dropped = desired[r].dropped}

\* Any managed profile stands for the desired one, and so does any custom
\* format, since it fills current.Quality.Video; profiles are never updated,
\* and never deleted because no profile id is passed.
DiffVideoQualityProfiles(current, desired) ==
    IF Seen("QualityProfile", current) \cup Seen("CustomFormat", current) = {}
    THEN Changes("create", Wanted("QualityProfile", desired), desired)
    ELSE {}

DiffCustomFormats(current, desired) ==
    DiffByName("CustomFormat", current, desired, Alike(current, desired))

diffDownloadClients(current, desired) ==
    DiffByName("DownloadClient", current, desired, Alike(current, desired))

\* Indexers are not compared: a known one is always updated.
diffIndexers(current, desired) ==
    DiffByName("Indexer", current, desired, {})

diffRootFolders(current, desired) ==
    Changes("create", Wanted("RootFolder", desired) \ Seen("RootFolder", current),
            desired)

diffRemotePathMappings(current, desired) ==
    DiffByName("RemotePathMapping", current, desired, Alike(current, desired))

diffNaming(current, desired) ==
    Changes("update", Wanted("NamingConfig", desired) \ Alike(current, desired),
            desired)

diffNotifications(current, desired) ==
    DiffByName("Notification", current, desired, Alike(current, desired))

\* The comparison includes the tags: the stored ones hold the ownership tag,
\* the desired ones do not.  The default profile is not deleted.
diffDelayProfiles(current, desired) ==
    {o \in DiffByName("DelayProfile", current, desired,
                      {r \in Alike(current, desired) : ~current[r].ours}) :
        o.op = "delete" => ~DefaultDelayProfile(o.res)}

Diff(current, desired) ==
    DiffVideoQualityProfiles(current, desired) \cup DiffCustomFormats(current, desired)
        \cup diffDownloadClients(current, desired) \cup diffIndexers(current, desired)
        \cup diffRootFolders(current, desired) \cup diffRemotePathMappings(current, desired)
        \cup diffNaming(current, desired) \cup diffNotifications(current, desired)
        \cup diffDelayProfiles(current, desired)

(***************************************************************************)
(* ApplyDirect: import lists (every desired one is written, orphans that   *)
(* carry the tag are deleted, nothing at all happens when no list is       *)
(* desired), then the media-management and authentication singletons.      *)
(***************************************************************************)
HasDirectWork(desired) ==
    \E kind \in DirectKinds : Wanted(kind, desired) # {}

applyImportLists(service, desired) ==
    LET wanted == Wanted("ImportList", desired)
        exist  == Existing(service, "ImportList")
    IN  IF wanted = {} THEN {}
        ELSE Changes("create", wanted \ exist, desired)
                \cup Changes("update", wanted \cap exist, desired)
                \cup Changes("delete", Tagged(service, "ImportList") \ wanted, desired)

ApplyDirect(service, desired) ==
    applyImportLists(service, desired)
        \cup Changes("update", Wanted("MediaManagement", desired), desired)
        \cup Changes("update", Wanted("Authentication", desired), desired)

(***************************************************************************)
(* The order in which Apply works: all creates, then updates, then deletes,*)
(* each list in the order in which Diff filled it.  Within one kind the    *)
(* order is that of a Go map, so it is left open.  Direct writes come in   *)
(* the order lists, orphaned lists, media management, authentication.      *)
(***************************************************************************)
KindRank ==
    [QualityProfile |-> 1, CustomFormat |-> 2, DownloadClient |-> 3,
     Indexer |-> 4, RootFolder |-> 5, RemotePathMapping |-> 6,
     NamingConfig |-> 7, Notification |-> 8, DelayProfile |-> 9,
     ImportList |-> 0, MediaManagement |-> 2, Authentication |-> 3]

OpRank == [create |-> 0, update |-> 10, delete |-> 20]

Rank(o) ==
    IF o.res.kind \in DirectKinds
    THEN KindRank[o.res.kind] + (IF o.op = "delete" THEN 1 ELSE 0)
    ELSE OpRank[o.op] + KindRank[o.res.kind]

NextOps(todo) == {o \in todo : \A p \in todo : Rank(o) <= Rank(p)}

(***************************************************************************)
(* One call of applyCreate, applyUpdate or applyDelete.  Radarr refuses a  *)
(* second resource of the same name.  `replaced' says that the resource    *)
(* the diff saw is gone (and perhaps another one took its name): the calls *)
(* that look the name up again then meet the other one, the calls that use *)
(* the id the diff saw lead nowhere.                                       *)
(***************************************************************************)
Reached(service, r, replaced) ==
    service[r].has /\ (r.kind \in ByIdKinds => ~replaced)

Accepted(service, o, replaced) ==
    IF o.op = "create" THEN ~service[o.res].has
    ELSE Reached(service, o.res, replaced)

applyCreate(o) ==
    [has |-> TRUE, val |-> Written(o.res.kind, o.payload), ours |-> TRUE]

applyUpdate(o, entry) ==
    [has |-> TRUE, val |-> Written(o.res.kind, o.payload),
     ours |-> entry.ours \/ o.res.kind \in TaggedPayloadKinds]

Effect(service, o) ==
    [service EXCEPT ![o.res] =
        CASE o.op = "create" -> applyCreate(o)
          [] o.op = "update" -> applyUpdate(o, @)
          [] o.op = "delete" -> Gone]

=============================================================================
