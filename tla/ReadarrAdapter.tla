---------------------------- MODULE ReadarrAdapter ----------------------------
(***************************************************************************)
(* The Readarr adapter (internal/adapters/readarr) on the data of          *)
(* AdapterShared.  It compares download clients and indexers by their name *)
(* only, looks up what it deletes by name at the moment of the deletion,   *)
(* and has no directly applied parts.  Quality and metadata profiles are   *)
(* recognised by the prefix of their name, here `ours'.                    *)
(***************************************************************************)
EXTENDS AdapterShared

(***************************************************************************)
(* Quality profiles.  The definitions of the service are a set of          *)
(* [id, name]; a tier of the IR is [name, formats, allowed]; an item of a  *)
(* profile is [name, allowed, qualities], with one quality and no name of  *)
(* its own when it is not a group.                                         *)
(***************************************************************************)
findQualityByName(qualities, name)   == {q \in qualities : q.name = name}
findQualityIDByName(qualities, name) ==
    LET found == findQualityByName(qualities, name)
    IN  IF found = {} THEN NoId ELSE (CHOOSE q \in found : TRUE).id

\* Formats the service does not know are left out of the group.
tierToQualityItem(tier, qualities) ==
    [name |-> tier.name, allowed |-> tier.allowed, group |-> tier.formats # {},
     qualities |-> IF tier.formats # {}
                   THEN UNION {findQualityByName(qualities, f) : f \in tier.formats}
                   ELSE findQualityByName(qualities, tier.name)]

ProfileFromIR(qualities, p) ==
    [items  |-> {tierToQualityItem(t, qualities) : t \in p.tiers},
     cutoff |-> IF p.cutoff = "" THEN NoId ELSE findQualityIDByName(qualities, p.cutoff)]

\* The service refuses a profile whose cutoff is not an allowed quality.
ValidProfile(p) == \E i \in p.items : i.allowed /\ \E q \in i.qualities : q.id = p.cutoff

createQualityProfile(qualities, d) ==
    LET p == ProfileFromIR(qualities, d.cfg)
    IN  IF ValidProfile(p) THEN Post([d EXCEPT !.cfg = p], TRUE) ELSE BadRequest

updateQualityProfile(qualities, id, d) ==
    LET p == ProfileFromIR(qualities, d.cfg)
    IN  IF ValidProfile(p) THEN Put([d EXCEPT !.cfg = p], id, TRUE) ELSE BadRequest

qualityToFormat(q) == q.name

qualityItemToTier(item) ==
    [name |-> IF item.group THEN item.name
              ELSE IF item.qualities = {} THEN "" ELSE (CHOOSE q \in item.qualities : TRUE).name,
     formats |-> {qualityToFormat(q) : q \in item.qualities}, allowed |-> item.allowed]

\* The tier of the first item that holds the cutoff; a quality of a group is
\* a tier of its own.
findCutoffTier(items, cutoff) ==
    LET hits == UNION {{q \in i.qualities : q.id = cutoff} : i \in items}
    IN  IF hits = {} THEN "" ELSE (CHOOSE q \in hits : TRUE).name

qualityProfileToIR(x) ==
    Resource(x.kind, x.id, x.name,
             [tiers |-> {qualityItemToTier(i) : i \in x.cfg.items},
              cutoff |-> findCutoffTier(x.cfg.items, x.cfg.cutoff)])

getManagedQualityProfiles(svc) ==
    {qualityProfileToIR(x) : x \in Tagged(svc, "QualityProfile")}

diffQualityProfiles(current, desired) == DiffBookQualityProfiles(current, desired)

\* Wrong variant: looks at the first resource only.
DeleteByNameFirst(svc, kind, name) ==
    LET all == Get(svc, kind)
    IN  IF all = {} \/ First(all).name # name THEN NoRequest ELSE Delete(kind, First(all).id)

\* The first resource of the name, whoever made it; none is no error.
DeleteByName(svc, kind, name) ==
    LET found == {x \in Get(svc, kind) : x.name = name}
    IN  IF found = {} THEN NoRequest ELSE Delete(kind, First(found).id)

deleteQualityProfileByName(svc, name) == DeleteByName(svc, "QualityProfile", name)

(***************************************************************************)
(* Metadata profiles: `minPopularity' stands for the six compared fields.  *)
(***************************************************************************)
metadataProfileToIR(x) == Resource(x.kind, x.id, x.name, [minPopularity |-> x.cfg.minPopularity])

getManagedMetadataProfiles(svc) == {metadataProfileToIR(x) : x \in Tagged(svc, "MetadataProfile")}

metadataProfilesEqual(c, d) == c.minPopularity = d.minPopularity

diffMetadataProfiles(current, desired) ==
    DiffByName("MetadataProfile", current, desired, metadataProfilesEqual, TRUE)

createMetadataProfile(d)               == Post(d, TRUE)
updateMetadataProfile(id, d)           == Put(d, id, TRUE)
deleteMetadataProfileByName(svc, name) == DeleteByName(svc, "MetadataProfile", name)

(***************************************************************************)
(* Download clients, indexers, root folders: created and deleted, never    *)
(* updated.                                                                *)
(***************************************************************************)
downloadClientToIR(x) ==
    Resource(x.kind, NoId, x.name, ExtractDownloadClientFields(x.cfg, {"category", "bookCategory"}))

containsTag(x) == HasTag(x)

getManagedDownloadClients(svc) ==
    {downloadClientToIR(x) : x \in {y \in Get(svc, "DownloadClient") : containsTag(y)}}

AlwaysEqual(c, d) == TRUE

diffDownloadClients(current, desired) ==
    DiffByName("DownloadClient", current, desired, AlwaysEqual, FALSE)

createDownloadClient(d) ==
    Post([d EXCEPT !.cfg = [impl |-> @.impl, host |-> @.host, username |-> @.cred,
                            bookCategory |-> @.category]], TRUE)

deleteDownloadClientByName(svc, name) == DeleteByName(svc, "DownloadClient", name)

\* The API key is not read back.
indexerToIR(x) == Resource(x.kind, NoId, x.name, [url |-> Field(x.cfg, "baseUrl"), key |-> ""])

getManagedIndexers(svc) == {indexerToIR(x) : x \in {y \in Get(svc, "Indexer") : containsTag(y)}}

diffIndexers(current, desired) == DiffByName("Indexer", current, desired, AlwaysEqual, FALSE)

createIndexer(d) == Post([d EXCEPT !.cfg = [baseUrl |-> @.url, apiKey |-> @.key]], TRUE)

deleteIndexerByName(svc, name) == DeleteByName(svc, "Indexer", name)

getRootFolders(svc) == {Resource(x.kind, NoId, x.name, NoCfg) : x \in Get(svc, "RootFolder")}

diffRootFolders(current, desired) == DiffRootFolders(current, desired)

createRootFolder(d) == Post(d, FALSE)

(***************************************************************************)
(* The adapter.  `tag': the ownership tag was found; `blind': the kinds    *)
(* whose list call failed.  Of the quality profiles only the first counts, *)
(* which is all that the diff asks of them.                                *)
(***************************************************************************)
CurrentState(svc, tag, blind) ==
    {x \in getManagedQualityProfiles(svc) \cup getManagedMetadataProfiles(svc)
               \cup getManagedDownloadClients(svc) \cup getManagedIndexers(svc)
               \cup getRootFolders(svc) : tag /\ x.kind \notin blind}

Diff(current, desired) ==
    diffQualityProfiles(current, desired) \cup diffMetadataProfiles(current, desired)
        \cup diffDownloadClients(current, desired) \cup diffIndexers(current, desired)
        \cup diffRootFolders(current, desired)

KindRank ==
    [QualityProfile |-> 1, MetadataProfile |-> 2, DownloadClient |-> 3, Indexer |-> 4,
     RootFolder |-> 5]

applyCreate(qualities, ch) ==
    LET d == Resource(ch.kind, NoId, ch.name, ch.cfg)
    IN  CASE ch.kind = "QualityProfile"  -> createQualityProfile(qualities, d)
          [] ch.kind = "MetadataProfile" -> createMetadataProfile(d)
          [] ch.kind = "DownloadClient"  -> createDownloadClient(d)
          [] ch.kind = "Indexer"         -> createIndexer(d)
          [] ch.kind = "RootFolder"      -> createRootFolder(d)

applyUpdate(qualities, ch) ==
    LET d == Resource(ch.kind, NoId, ch.name, ch.cfg)
    IN  IF ch.kind \notin {"QualityProfile", "MetadataProfile"} THEN NoRequest
        ELSE IF ch.id = NoId THEN BadRequest
        ELSE CASE ch.kind = "QualityProfile"  -> updateQualityProfile(qualities, ch.id, d)
               [] ch.kind = "MetadataProfile" -> updateMetadataProfile(ch.id, d)

applyDelete(svc, ch) ==
    CASE ch.kind = "QualityProfile"  -> deleteQualityProfileByName(svc, ch.name)
      [] ch.kind = "MetadataProfile" -> deleteMetadataProfileByName(svc, ch.name)
      [] ch.kind = "DownloadClient"  -> deleteDownloadClientByName(svc, ch.name)
      [] ch.kind = "Indexer"         -> deleteIndexerByName(svc, ch.name)
      [] OTHER                       -> BadRequest

Apply(svc, qualities, ch) ==
    CASE ch.op = "create" -> applyCreate(qualities, ch)
      [] ch.op = "update" -> applyUpdate(qualities, ch)
      [] ch.op = "delete" -> applyDelete(svc, ch)

=============================================================================
