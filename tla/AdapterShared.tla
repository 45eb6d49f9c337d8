---------------------------- MODULE AdapterShared ----------------------------
(***************************************************************************)
(* The code that the Sonarr, Lidarr, Readarr and Prowlarr adapters share:  *)
(* internal/adapters (Change, the diffs), internal/adapters/shared (apply  *)
(* loops, tags, authentication, delay profiles, path mappings) and the     *)
(* HTTP client.                                                            *)
(*                                                                         *)
(* A service is [tag, items, next]: whether the ownership tag exists, the  *)
(* resources, and the id it gives out next.  A resource of the service is  *)
(* [kind, id, name, cfg, ours], `ours' being the ownership tag; a resource *)
(* of the IR is [kind, id, name, cfg], with id 0 when it is desired.  An   *)
(* IR is a set of those.  A configuration is a record of the attributes    *)
(* that some comparison or conversion tells apart, "" being the empty      *)
(* value; the service's records use the service's field names, the IR's    *)
(* those of the IR.                                                        *)
(***************************************************************************)
EXTENDS Naturals, FiniteSets

NoId  == 0
NoCfg == [none |-> ""]

\* The value of a field, "" when the list of fields does not have it.
Field(cfg, f) == IF f \in DOMAIN cfg THEN cfg[f] ELSE ""

Of(ir, kind) == {x \in ir : x.kind = kind}
Names(S)     == {x.name : x \in S}
Named(S, n)  == CHOOSE x \in S : x.name = n

\* A list comes back in the order of the ids.
First(S) == CHOOSE x \in S : \A y \in S : x.id <= y.id
Last(S)  == CHOOSE x \in S : \A y \in S : x.id >= y.id

Resource(kind, id, name, cfg) == [kind |-> kind, id |-> id, name |-> name, cfg |-> cfg]

Change(op, x, id) ==
    [op |-> op, kind |-> x.kind, id |-> id, name |-> x.name,
     cfg |-> IF op = "delete" THEN NoCfg ELSE x.cfg]

\* Wrong variant: deletions are not counted.
IsEmptyNoDeletes(changes) == \A ch \in changes : ch.op = "delete"

IsEmpty(changes) == changes = {}
Success(failed)  == failed = 0

(***************************************************************************)
(* The HTTP client.  A request is [verb, kind, id, name, cfg, ours]; what  *)
(* the service does with it is external: a name is unique within its kind, *)
(* ids are not used twice, unknown ids are refused.                        *)
(***************************************************************************)
Request(verb, kind, id, name, cfg, ours) ==
    [verb |-> verb, kind |-> kind, id |-> id, name |-> name, cfg |-> cfg, ours |-> ours]

\* Found nothing to do: the call is not made and counts as done.
NoRequest == Request("none", "", NoId, "", NoCfg, FALSE)
\* The adapter gives up before it calls the service.
BadRequest == Request("bad", "", NoId, "", NoCfg, FALSE)

Post(x, ours)       == Request("POST", x.kind, NoId, x.name, x.cfg, ours)
Put(x, id, ours)    == Request("PUT", x.kind, id, x.name, x.cfg, ours)
Delete(kind, id)    == Request("DELETE", kind, id, "", NoCfg, FALSE)
Get(svc, kind)      == {x \in svc.items : x.kind = kind}

Accepts(svc, q) ==
    CASE q.verb = "none"   -> TRUE
      [] q.verb = "bad"    -> FALSE
      [] q.verb = "POST"   -> q.name \notin Names(Get(svc, q.kind))
      [] q.verb = "PUT"    -> /\ \E x \in Get(svc, q.kind) : x.id = q.id
                              /\ \A x \in Get(svc, q.kind) : x.name = q.name => x.id = q.id
      [] q.verb = "DELETE" -> \E x \in Get(svc, q.kind) : x.id = q.id

Serve(svc, q) ==
    LET rest == {x \in svc.items : ~(x.kind = q.kind /\ x.id = q.id)}
        new(id) == [kind |-> q.kind, id |-> id, name |-> q.name, cfg |-> q.cfg, ours |-> q.ours]
    IN  CASE q.verb = "POST"   -> [svc EXCEPT !.items = @ \cup {new(svc.next)}, !.next = @ + 1]
          [] q.verb = "PUT"    -> [svc EXCEPT !.items = rest \cup {new(q.id)}]
          [] q.verb = "DELETE" -> [svc EXCEPT !.items = rest]
          [] OTHER             -> svc

(***************************************************************************)
(* Ownership tag.  Any failed lookup, also one whose list did not arrive,  *)
(* makes EnsureOwnershipTag post the tag, which leaves one that exists.    *)
(***************************************************************************)
GetOwnershipTagID(svc, listed) == svc.tag /\ listed
EnsureOwnershipTag(svc)        == [svc EXCEPT !.tag = TRUE]
HasTag(x) == x.ours

Tagged(svc, kind) == {x \in Get(svc, kind) : HasTag(x)}

(***************************************************************************)
(* Diffs by name.  Equal(current, desired) decides about the update;       *)
(* WithId says whether the changes carry the id of the current resource.   *)
(***************************************************************************)
DiffByName(kind, current, desired, Equal(_, _), WithId) ==
    LET have == Of(current, kind)
        want == Of(desired, kind)
        id(x) == IF WithId THEN Named(have, x.name).id ELSE NoId
    IN       {Change("create", x, NoId) : x \in {d \in want : d.name \notin Names(have)}}
        \cup {Change("update", x, id(x)) :
                x \in {d \in want : /\ d.name \in Names(have)
                                    /\ ~Equal(Named(have, d.name).cfg, d.cfg)}}
        \cup {Change("delete", x, id(x)) : x \in {c \in have : c.name \notin Names(want)}}

\* Wrong variant: the category is not compared.
DownloadClientsEqualNoCategory(c, d) == c.impl = d.impl /\ c.host = d.host

\* Name, implementation, address and category; credentials are not compared.
DownloadClientsEqual(c, d) ==
    c.impl = d.impl /\ c.host = d.host /\ c.category = d.category

DiffDownloadClientsWithIR(current, desired) ==
    DiffByName("DownloadClient", current, desired, DownloadClientsEqual, TRUE)

\* The API key and the categories are not compared.
IndexersEqual(c, d) == c.url = d.url

DiffIndexersWithIR(current, desired) ==
    DiffByName("Indexer", current, desired, IndexersEqual, TRUE)

\* Profiles are matched by being there at all.  The id for a deletion is
\* handed in by the adapter; the name is that of the current profile.
DiffVideoQualityProfiles(current, desired, profileID) ==
    LET have == Of(current, "QualityProfile")
        want == Of(desired, "QualityProfile")
    IN  IF want = {}
        THEN IF have # {} /\ profileID # NoId
             THEN {Change("delete", First(have), profileID)} ELSE {}
        ELSE IF have = {} THEN {Change("create", x, NoId) : x \in want} ELSE {}

DiffAudioQualityProfiles(current, desired, profileID) ==
    DiffVideoQualityProfiles(current, desired, profileID)

DiffBookQualityProfiles(current, desired) ==
    IF Of(current, "QualityProfile") = {}
    THEN {Change("create", x, NoId) : x \in Of(desired, "QualityProfile")} ELSE {}

\* Create only: a root folder is neither updated nor deleted.
DiffRootFolders(current, desired) ==
    {Change("create", x, NoId) :
        x \in {d \in Of(desired, "RootFolder") : d.name \notin Names(Of(current, "RootFolder"))}}

\* The name is host|remotePath.
DiffRemotePathMappings(current, desired) ==
    DiffByName("RemotePathMapping", current, desired,
               LAMBDA c, d : c.localPath = d.localPath, TRUE)

\* The tags count: one who reads the ownership tag and desires none differs.
DelayProfilesEqual(c, d) == c.delay = d.delay /\ c.tags = d.tags

\* The name is the order; order 1 is the default profile and stays.
DiffDelayProfiles(current, desired) ==
    {ch \in DiffByName("DelayProfile", current, desired, DelayProfilesEqual, TRUE) :
        ch.op = "delete" => ch.name # "1"}

(***************************************************************************)
(* Apply loops.  All creates, then all updates, then all deletes; a change *)
(* that fails is counted and the loop goes on.  `rank' is the position of  *)
(* a kind in the adapter's Diff; within a kind the order is that of a Go   *)
(* map.                                                                    *)
(***************************************************************************)
OpRank == [create |-> 0, update |-> 1, delete |-> 2]

ApplyChanges(todo, rank) ==
    {ch \in todo : \A other \in todo :
        \/ OpRank[ch.op] < OpRank[other.op]
        \/ OpRank[ch.op] = OpRank[other.op] /\ rank[ch.kind] <= rank[other.kind]}

\* Lists, then media management, then authentication; each only if desired.
DirectOrder == [ImportList |-> 1, MediaManagement |-> 2, Authentication |-> 3]

ApplyDirect(desired) ==
    {kind \in DOMAIN DirectOrder : Of(desired, kind) # {}}

(***************************************************************************)
(* Authentication: the host configuration is fetched, the desired fields   *)
(* are laid over it and the whole is put back.  A method the API does not  *)
(* know counts as "None"; a password is sent only when there is one, a     *)
(* user name only with forms.                                              *)
(***************************************************************************)
AuthMethods  == [none |-> "None", forms |-> "Forms", basic |-> "Basic", external |-> "External"]
AuthRequired == [enabled |-> "Enabled", disabledForLocalAddresses |-> "DisabledForLocalAddresses"]

MapAuthMethod(method) ==
    IF method \in DOMAIN AuthMethods THEN AuthMethods[method] ELSE "None"
MapAuthRequired(required) ==
    IF required \in DOMAIN AuthRequired THEN AuthRequired[required] ELSE "Enabled"

\* The name in the IR of a value of the API, itself if there is none.
BackFrom(table, v) ==
    IF \E k \in DOMAIN table : table[k] = v
    THEN CHOOSE k \in DOMAIN table : table[k] = v ELSE v

HostConfigToAuthIR(host) ==
    [method |-> BackFrom(AuthMethods, host.method),
     required |-> BackFrom(AuthRequired, host.required),
     username |-> host.username, password |-> ""]

ApplyAuthentication(svc, d) ==
    LET host == First(Get(svc, "Authentication"))
        keep(new, old) == IF new = "" THEN old ELSE new
    IN  Put([host EXCEPT !.cfg =
                [method   |-> MapAuthMethod(d.cfg.method),
                 required |-> MapAuthRequired(d.cfg.required),
                 username |-> IF d.cfg.method = "forms" THEN keep(d.cfg.username, @.username)
                              ELSE @.username,
                 password |-> keep(d.cfg.password, @.password)]],
            host.id, host.ours)

GetAuthenticationIR(svc) ==
    {Resource(host.kind, host.id, host.name, HostConfigToAuthIR(host.cfg)) :
        host \in Get(svc, "Authentication")}

\* A configuration singleton is fetched, changed and put back under its id.
FetchConfig(svc, kind)  == First(Get(svc, kind))
UpdateConfig(x, cfg)    == Put([x EXCEPT !.cfg = cfg], x.id, x.ours)

(***************************************************************************)
(* Fields that the lists of the service hold, as attributes of the IR.     *)
(***************************************************************************)
ExtractDownloadClientFields(cfg, categoryFields) ==
    LET found == {f \in categoryFields : Field(cfg, f) # ""}
    IN  [impl |-> cfg.impl, host |-> Field(cfg, "host"),
         cred |-> Field(cfg, "username"),
         category |-> IF found = {} THEN "" ELSE Field(cfg, CHOOSE f \in found : TRUE)]

ExtractIndexerFields(cfg) ==
    [url |-> Field(cfg, "baseUrl"), key |-> Field(cfg, "apiKey")]

=============================================================================
