---------------------------- MODULE LidarrAdapter ----------------------------
(***************************************************************************)
(* The Lidarr adapter (internal/adapters/lidarr) on the data of            *)
(* AdapterShared.  Where its code is Sonarr's with another API version the *)
(* definition names Sonarr's; quality profiles, naming, custom formats,    *)
(* root folders and import lists are its own.                              *)
(***************************************************************************)
EXTENDS AdapterShared, Sequences

Sonarr == INSTANCE SonarrAdapter

(***************************************************************************)
(* Quality profiles.  The schema is a sequence of items [id, name, quality,*)
(* allowed]: a group has a name, a single quality has quality # "".  Tiers *)
(* are [tier, allowed].                                                    *)
(***************************************************************************)
groupNameToTier(name) ==
    CASE name = "Lossless"           -> "lossless"
      [] name = "High Quality Lossy" -> "lossy-high"
      [] name = "Mid Quality Lossy"  -> "lossy-mid"
      [] name = "Low Quality Lossy"  -> "lossy-low"
      [] OTHER                       -> ""

qualityNameToTier(name) ==
    CASE name \in {"FLAC 24bit", "ALAC 24bit"}                     -> "lossless-hires"
      [] name \in {"FLAC", "ALAC", "APE", "WavPack", "WAV"}        -> "lossless"
      [] name \in {"MP3-320", "AAC-320", "OGG Vorbis Q10", "OGG Vorbis Q9", "MP3-VBR-V0", "AAC-VBR"} -> "lossy-high"
      [] name \in {"MP3-256", "AAC-256", "OGG Vorbis Q8", "OGG Vorbis Q7", "MP3-VBR-V2"} -> "lossy-mid"
      [] name \in {"MP3-192", "AAC-192", "OGG Vorbis Q6", "WMA", "MP3-160", "MP3-128"} -> "lossy-low"
      [] OTHER                                                     -> ""

\* The names read back are another list than the names written.
qualityToTier(name) ==
    CASE name \in {"FLAC 24bit", "FLAC 24bit Lossless"}            -> "lossless-hires"
      [] name \in {"FLAC", "FLAC Lossless", "ALAC", "APE", "WAV"}  -> "lossless"
      [] name \in {"MP3-320", "AAC-320"}                           -> "lossy-high"
      [] name \in {"MP3-256", "AAC-256"}                           -> "lossy-mid"
      [] name \in {"MP3-128", "AAC-128", "MP3-VBR", "AAC-VBR"}     -> "lossy-low"
      [] OTHER                                                     -> ""

TierOf(item) ==
    IF groupNameToTier(item.name) = "" /\ item.quality # ""
    THEN qualityNameToTier(item.quality) ELSE groupNameToTier(item.name)

\* Every item of the schema is copied with its flag.
copyQualityItem(item) == [id |-> item.id, allowed |-> item.allowed]

Lossless == 1005

\* Wrong variant: the cutoff is taken from a tier that is not allowed, too.
profileFromSchemaAnyCutoff(schema, p) ==
    LET hits == {i \in DOMAIN schema : TierOf(schema[i]) = p.cutoff}
        allowed(i) == IF \E t \in p.tiers : t.tier = TierOf(schema[i])
                      THEN \E t \in p.tiers : t.tier = TierOf(schema[i]) /\ t.allowed
                      ELSE copyQualityItem(schema[i]).allowed
    IN  [items  |-> {schema[i].id : i \in {j \in DOMAIN schema : allowed(j)}},
         cutoff |-> IF hits = {} THEN Lossless
                    ELSE schema[CHOOSE i \in hits : \A j \in hits : i >= j].id]

\* An item of a tier the profile names takes the tier's flag, the others keep
\* the schema's.  The last allowed item of the cutoff tier is the cutoff, the
\* Lossless group if there is none.
profileFromSchema(schema, p) ==
    LET named(i)   == \E t \in p.tiers : t.tier = TierOf(schema[i])
        tierOn(i)  == \E t \in p.tiers : t.tier = TierOf(schema[i]) /\ t.allowed
        allowed(i) == IF named(i) THEN tierOn(i) ELSE copyQualityItem(schema[i]).allowed
        hits       == {i \in DOMAIN schema : tierOn(i) /\ TierOf(schema[i]) = p.cutoff}
    IN  [items  |-> {schema[i].id : i \in {j \in DOMAIN schema : allowed(j)}},
         cutoff |-> IF hits = {} THEN Lossless
                    ELSE schema[CHOOSE i \in hits : \A j \in hits : i >= j].id]

ValidProfile(p) == p.cutoff \in p.items

createQualityProfile(svc, schema, d) ==
    LET p == profileFromSchema(schema, d.cfg)
    IN  IF ValidProfile(p) THEN Post([d EXCEPT !.cfg = p], TRUE) ELSE BadRequest

updateQualityProfile(svc, schema, id, d) ==
    LET p == profileFromSchema(schema, d.cfg)
    IN  IF ValidProfile(p) THEN Put([d EXCEPT !.cfg = p], id, TRUE) ELSE BadRequest

profileToIR(schema, x) ==
    LET on == {i \in DOMAIN schema : schema[i].id \in x.cfg.items /\ schema[i].quality # ""}
    IN  Resource(x.kind, x.id, x.name,
                 [tiers |-> {[tier |-> qualityToTier(schema[i].quality), allowed |-> TRUE] :
                                i \in {j \in on : qualityToTier(schema[j].quality) # ""}}])

getManagedQualityProfiles(svc, schema) ==
    {profileToIR(schema, x) : x \in Tagged(svc, "QualityProfile")}

managedProfileID(listed, before) == Sonarr!managedProfileID(listed, before)

diffQualityProfiles(current, desired, globals) ==
    DiffAudioQualityProfiles(current, desired, globals.profile)

(***************************************************************************)
(* Download clients, indexers, root folders.                               *)
(***************************************************************************)
clientToIR(x) ==
    Resource(x.kind, x.id, x.name, ExtractDownloadClientFields(x.cfg, {"category", "musicCategory"}))

getManagedDownloadClients(svc) == {clientToIR(x) : x \in Tagged(svc, "DownloadClient")}

diffDownloadClients(current, desired) == DiffDownloadClientsWithIR(current, desired)

downloadClientFromIR(d) ==
    [d EXCEPT !.cfg = [impl |-> @.impl, host |-> @.host, username |-> @.cred,
                       musicCategory |-> @.category]]

createDownloadClient(d)     == Post(downloadClientFromIR(d), TRUE)
updateDownloadClient(id, d) == Put(downloadClientFromIR(d), id, TRUE)

indexerToIR(x) == Resource(x.kind, x.id, x.name, ExtractIndexerFields(x.cfg))

getManagedIndexers(svc) == {indexerToIR(x) : x \in Tagged(svc, "Indexer")}

diffIndexers(current, desired) == DiffIndexersWithIR(current, desired)

indexerFromIR(d) == [d EXCEPT !.cfg = [baseUrl |-> @.url, apiKey |-> @.key]]

createIndexer(d)     == Post(indexerFromIR(d), TRUE)
updateIndexer(id, d) == Put(indexerFromIR(d), id, TRUE)

getRootFolders(svc) ==
    {Resource(x.kind, x.id, x.name, [monitor |-> x.cfg.monitor]) : x \in Get(svc, "RootFolder")}

diffRootFolders(current, desired) == DiffRootFolders(current, desired)

\* The folder needs default profiles: the first managed quality profile, else
\* the first of all, else 1.  Since 1 also means "not found yet", a managed
\* profile that has id 1 gives way to the first of all.
DefaultQualityProfile(svc) ==
    LET managed == Tagged(svc, "QualityProfile")
        all     == Get(svc, "QualityProfile")
        id      == IF managed = {} THEN 1 ELSE First(managed).id
    IN  IF id = 1 /\ all # {} THEN First(all).id ELSE id

createRootFolder(svc, d) ==
    Post([d EXCEPT !.cfg = [monitor |-> IF @.monitor = "" THEN "all" ELSE @.monitor,
                            profile |-> DefaultQualityProfile(svc)]], FALSE)

(***************************************************************************)
(* Naming: five of the six fields are compared.                            *)
(***************************************************************************)
getNamingConfig(svc) == Sonarr!getNamingConfig(svc)

namingConfigID(listed, before) == Sonarr!namingConfigID(listed, before)

namingNeedsUpdate(c, d) == c.format # d.format

diffNaming(current, desired, globals) ==
    LET have == Of(current, "NamingConfig")
    IN  {Change("update", d, globals.naming) :
            d \in {n \in Of(desired, "NamingConfig") :
                      have = {} \/ namingNeedsUpdate(First(have).cfg, n.cfg)}}

updateNaming(id, d) == Put(d, id, FALSE)

(***************************************************************************)
(* Custom formats: as Sonarr's, but every condition is written as text.    *)
(***************************************************************************)
buildSpecFields(cfg) == [title |-> cfg.title, source |-> cfg.source, resolution |-> cfg.resolution]

irToCustomFormat(d)                   == [d EXCEPT !.cfg = buildSpecFields(@)]
customFormatToIR(x)                   == Sonarr!customFormatToIR(x)
getAllCustomFormats(svc)              == {customFormatToIR(x) : x \in Get(svc, "CustomFormat")}
customFormatsEqual(c, d)              == Sonarr!customFormatsEqual(c, d)
diffCustomFormats(current, desired) ==
    DiffByName("CustomFormat", current, desired, customFormatsEqual, TRUE)
createCustomFormat(d)                 == Post(irToCustomFormat(d), FALSE)
updateCustomFormat(id, d)             == Put(irToCustomFormat(d), id, FALSE)
deleteCustomFormat(id)                == Delete("CustomFormat", id)

(***************************************************************************)
(* The code of Sonarr once more: path mappings, notifications, delay       *)
(* profiles, authentication.                                               *)
(***************************************************************************)
getRemotePathMappings(svc)               == Sonarr!getRemotePathMappings(svc)
diffRemotePathMappings(current, desired) == Sonarr!diffRemotePathMappings(current, desired)
createRemotePathMapping(d)               == Sonarr!createRemotePathMapping(d)
updateRemotePathMapping(id, d)           == Sonarr!updateRemotePathMapping(id, d)
deleteRemotePathMapping(id)              == Sonarr!deleteRemotePathMapping(id)

notificationToIR(x)                  == Sonarr!notificationToIR(x)
getManagedNotifications(svc)         == {notificationToIR(x) : x \in Tagged(svc, "Notification")}
irToNotification(d)                  == Sonarr!irToNotification(d)
notificationsEqual(c, d)             == Sonarr!notificationsEqual(c, d)
diffNotifications(current, desired) ==
    DiffByName("Notification", current, desired, notificationsEqual, TRUE)
createNotification(d)                == Post(irToNotification(d), TRUE)
updateNotification(id, d)            == Put(irToNotification(d), id, TRUE)
deleteNotification(id)               == Delete("Notification", id)

delayProfileToIR(x)                 == Sonarr!delayProfileToIR(x)
getManagedDelayProfiles(svc)        == {delayProfileToIR(x) : x \in Get(svc, "DelayProfile")}
irToDelayProfile(d)                 == Sonarr!irToDelayProfile(d)
diffDelayProfiles(current, desired) == DiffDelayProfiles(current, desired)
createDelayProfile(d)               == Post(irToDelayProfile(d), TRUE)
updateDelayProfile(id, d)           == Put(irToDelayProfile(d), id, TRUE)
deleteDelayProfile(id)              == Delete("DelayProfile", id)

applyAuthentication(svc, d) == ApplyAuthentication(svc, d)
getAuthenticationIR(svc)    == GetAuthenticationIR(svc)

(***************************************************************************)
(* Import lists: what to monitor is fixed, so it is not read back either.  *)
(***************************************************************************)
findSchemaByType(schemas, type)         == Sonarr!findSchemaByType(schemas, type)
buildImportListFields(settings, schema) == Sonarr!buildImportListFields(settings, schema)

irToImportList(d, schema) ==
    [d EXCEPT !.cfg = [type |-> @.type, shouldMonitor |-> "entireArtist",
                       fields |-> buildImportListFields(@.settings, schema)]]

createImportList(p)     == Post(p, TRUE)
updateImportList(id, p) == Put(p, id, TRUE)
deleteImportList(id)    == Delete("ImportList", id)
getImportLists(svc)     == Get(svc, "ImportList")

importListToIR(x) ==
    Resource(x.kind, x.id, x.name, [type |-> x.cfg.type, monitor |-> "", settings |-> x.cfg.fields])

getManagedImportLists(svc) == {importListToIR(x) : x \in Tagged(svc, "ImportList")}

applyImportLists(svc, schemas, desired) ==
    LET want     == Of(desired, "ImportList")
        have     == getImportLists(svc)
        known(d) == findSchemaByType(schemas, d.cfg.type)
        list(d)  == irToImportList(d, CHOOSE s \in known(d) : TRUE)
        write(d) == IF known(d) = {} THEN BadRequest
                    ELSE IF d.name \in Names(have)
                    THEN updateImportList(Named(have, d.name).id, list(d))
                    ELSE createImportList(list(d))
        orphans  == {x \in have : HasTag(x) /\ x.name \notin Names(want)}
    IN  {write(d) : d \in want} \cup {deleteImportList(x.id) : x \in orphans}

\* Two further fields are overwritten only when the IR has a value for them.
applyMediaManagement(svc, d) ==
    LET c == FetchConfig(svc, "MediaManagement")
    IN  UpdateConfig(c, [c.cfg EXCEPT !.managed = d.cfg.managed,
                                      !.fingerprint = IF d.cfg.fingerprint = "" THEN @
                                                      ELSE d.cfg.fingerprint])

getMediaManagementIR(svc) ==
    {Resource(x.kind, x.id, x.name, [managed |-> x.cfg.managed, fingerprint |-> x.cfg.fingerprint]) :
        x \in Get(svc, "MediaManagement")}

(***************************************************************************)
(* The adapter.                                                            *)
(***************************************************************************)
CurrentState(svc, schema, tag, blind) ==
    {x \in getManagedQualityProfiles(svc, schema) \cup getManagedDownloadClients(svc)
               \cup getManagedIndexers(svc) \cup getRootFolders(svc)
               \cup getRemotePathMappings(svc) \cup getManagedNotifications(svc)
               \cup getNamingConfig(svc) \cup getManagedImportLists(svc)
               \cup getMediaManagementIR(svc) \cup getAuthenticationIR(svc)
               \cup getAllCustomFormats(svc) \cup getManagedDelayProfiles(svc) :
        tag /\ x.kind \notin blind}

Diff(current, desired, globals) ==
    diffQualityProfiles(current, desired, globals) \cup diffDownloadClients(current, desired)
        \cup diffIndexers(current, desired) \cup diffRootFolders(current, desired)
        \cup diffRemotePathMappings(current, desired) \cup diffNotifications(current, desired)
        \cup diffNaming(current, desired, globals) \cup diffCustomFormats(current, desired)
        \cup diffDelayProfiles(current, desired)

KindRank ==
    [QualityProfile |-> 1, DownloadClient |-> 2, Indexer |-> 3, RootFolder |-> 4,
     RemotePathMapping |-> 5, Notification |-> 6, NamingConfig |-> 7,
     CustomFormat |-> 8, DelayProfile |-> 9]

applyCreate(svc, schema, ch) ==
    LET d == Resource(ch.kind, NoId, ch.name, ch.cfg)
    IN  CASE ch.kind = "QualityProfile"    -> createQualityProfile(svc, schema, d)
          [] ch.kind = "DownloadClient"    -> createDownloadClient(d)
          [] ch.kind = "Indexer"           -> createIndexer(d)
          [] ch.kind = "RootFolder"        -> createRootFolder(svc, d)
          [] ch.kind = "RemotePathMapping" -> createRemotePathMapping(d)
          [] ch.kind = "Notification"      -> createNotification(d)
          [] ch.kind = "CustomFormat"      -> createCustomFormat(d)
          [] ch.kind = "DelayProfile"      -> createDelayProfile(d)

applyUpdate(svc, schema, ch) ==
    LET d == Resource(ch.kind, NoId, ch.name, ch.cfg)
    IN  CASE ch.kind = "QualityProfile"    -> updateQualityProfile(svc, schema, ch.id, d)
          [] ch.kind = "DownloadClient"    -> updateDownloadClient(ch.id, d)
          [] ch.kind = "Indexer"           -> updateIndexer(ch.id, d)
          [] ch.kind = "NamingConfig"      -> updateNaming(ch.id, d)
          [] ch.kind = "RemotePathMapping" -> updateRemotePathMapping(ch.id, d)
          [] ch.kind = "Notification"      -> updateNotification(ch.id, d)
          [] ch.kind = "CustomFormat"      -> updateCustomFormat(ch.id, d)
          [] ch.kind = "DelayProfile"      -> updateDelayProfile(ch.id, d)

applyDelete(ch) ==
    IF ch.id = NoId THEN BadRequest ELSE Delete(ch.kind, ch.id)

Apply(svc, schema, ch) ==
    CASE ch.op = "create" -> applyCreate(svc, schema, ch)
      [] ch.op = "update" -> applyUpdate(svc, schema, ch)
      [] ch.op = "delete" -> applyDelete(ch)

DirectRequests(svc, schemas, desired, kind) ==
    CASE kind = "ImportList"      -> applyImportLists(svc, schemas, desired)
      [] kind = "MediaManagement" -> {applyMediaManagement(svc, d) : d \in Of(desired, kind)}
      [] kind = "Authentication"  -> {applyAuthentication(svc, d) : d \in Of(desired, kind)}

=============================================================================
