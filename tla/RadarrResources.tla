--------------------------- MODULE RadarrResources ---------------------------
(***************************************************************************)
(* The Radarr adapter (internal/adapters/radarr) on the data of            *)
(* AdapterShared.  RadarrAdapter follows the same code on abstract         *)
(* resources, as the machine of ArrReconcile needs it; here the payloads   *)
(* are there.  Unlike the other adapters this one keeps no ids between     *)
(* calls: profiles, formats, clients and indexers are looked up by name    *)
(* again for every update and delete, whoever owns the one that is found.  *)
(***************************************************************************)
EXTENDS AdapterShared, Sequences

(***************************************************************************)
(* Quality profiles.  The schema is [items, cutoff]; an item is a quality  *)
(* or a group [id, qualities, group] of qualities [id, source, resolution].*)
(***************************************************************************)
parseResolution(res) ==
    CASE res = "2160p" -> 2160 [] res = "1080p" -> 1080 [] res = "720p" -> 720
      [] res = "480p" -> 480 [] res = "360p" -> 360 [] OTHER -> 0

\* The name is the source with the resolution; a DVD has none.
buildQualityName(res, source) ==
    CASE source \in {"bluray", "remux", "webdl", "webrip", "hdtv"} -> <<source, res>>
      [] source = "dvd" -> <<"dvd", 0>>
      [] OTHER -> <<"", 0>>

\* The names that buildQualityName yields, with the ids of Radarr.
QualityIds ==
    { <<"dvd", 0, 2>>,
      <<"webdl", 480, 8>>, <<"webdl", 720, 5>>, <<"webdl", 1080, 3>>, <<"webdl", 2160, 18>>,
      <<"webrip", 480, 12>>, <<"webrip", 720, 14>>, <<"webrip", 1080, 15>>, <<"webrip", 2160, 17>>,
      <<"hdtv", 720, 4>>, <<"hdtv", 1080, 9>>, <<"hdtv", 2160, 16>>,
      <<"bluray", 480, 20>>, <<"bluray", 720, 6>>, <<"bluray", 1080, 7>>, <<"bluray", 2160, 19>>,
      <<"remux", 1080, 30>>, <<"remux", 2160, 31>> }

qualityNameToID(name) ==
    LET rows == {q \in QualityIds : q[1] = name[1] /\ q[2] = name[2]}
    IN  IF rows = {} THEN 0 ELSE (CHOOSE q \in rows : TRUE)[3]

buildAllowedQualitySet(tiers) ==
    UNION {{qualityNameToID(buildQualityName(parseResolution(t.resolution), s)) : s \in t.sources} :
               t \in {u \in tiers : u.allowed}} \ {0}

\* The first source of the cutoff; the presets give one.
findCutoffQualityID(cutoff) ==
    IF cutoff.sources = {} THEN 0
    ELSE qualityNameToID(buildQualityName(parseResolution(cutoff.resolution),
                                          CHOOSE s \in cutoff.sources : TRUE))

\* A group is allowed when one of its qualities is.
markAllowedQualities(items, allowed) ==
    {items[i].id : i \in {j \in DOMAIN items : \E q \in items[j].qualities : q.id \in allowed}}

\* Scores go to the formats that the service has at this moment.
buildFormatItems(svc, scores) ==
    {[format |-> f.id, score |-> scores[f.name]] :
        f \in {x \in Get(svc, "CustomFormat") : x.name \in DOMAIN scores}}

irToQualityProfile(svc, schema, profile) ==
    LET cutoff == findCutoffQualityID(profile.cutoff)
    IN  [items |-> markAllowedQualities(schema.items, buildAllowedQualitySet(profile.tiers)),
         cutoff |-> IF cutoff > 0 THEN cutoff ELSE schema.cutoff,
         formatItems |-> buildFormatItems(svc, profile.scores)]

\* A profile the service refuses: its cutoff is not an allowed item.
ValidProfile(p) == p.cutoff \in p.items

findIDByName(svc, kind, n) ==
    LET found == {x \in Get(svc, kind) : x.name = n}
    IN  IF found = {} THEN NoId ELSE First(found).id

\* Found by name or not at all.
PutByName(svc, x, ours) ==
    LET id == findIDByName(svc, x.kind, x.name)
    IN  IF id = NoId THEN BadRequest ELSE Put(x, id, ours)

DeleteByName(svc, kind, n) ==
    LET id == findIDByName(svc, kind, n)
    IN  IF id = NoId THEN BadRequest ELSE Delete(kind, id)

createQualityProfile(svc, schema, d) ==
    LET p == irToQualityProfile(svc, schema, d.cfg)
    IN  IF ValidProfile(p) THEN Post([d EXCEPT !.cfg = p], TRUE) ELSE BadRequest

updateQualityProfile(svc, schema, d) ==
    LET p == irToQualityProfile(svc, schema, d.cfg)
    IN  IF ValidProfile(p) THEN PutByName(svc, [d EXCEPT !.cfg = p], TRUE) ELSE BadRequest

deleteQualityProfile(svc, n) == DeleteByName(svc, "QualityProfile", n)

\* Remuxes of Radarr have the source bluray and read back as such.
qualityToSource(q) == q.source
qualityToResolution(q) == q.resolution

\* A group gives one tier for its sources, allowed or not.
qualityItemToTier(item, allowed) ==
    [resolution |-> IF item.group THEN {item.id} ELSE {qualityToResolution(q) : q \in item.qualities},
     sources |-> {qualityToSource(q) : q \in item.qualities}, allowed |-> allowed]

\* The item with the id of the cutoff, or the item that holds the quality.
findCutoffTier(items, cutoff) ==
    {qualityItemToTier(items[i], TRUE) :
        i \in {j \in DOMAIN items : items[j].id = cutoff \/ \E q \in items[j].qualities : q.id = cutoff}}

qualityProfileToIR(schema, x) ==
    Resource(x.kind, x.id, x.name,
             [tiers  |-> {qualityItemToTier(schema.items[i], schema.items[i].id \in x.cfg.items) :
                             i \in DOMAIN schema.items},
              cutoff |-> findCutoffTier(schema.items, x.cfg.cutoff)])

getManagedQualityProfiles(svc, schema) ==
    {qualityProfileToIR(schema, x) : x \in Tagged(svc, "QualityProfile")}

\* A custom format fills current.Quality.Video just as a profile does, so
\* either keeps the profile from being created.  No profile id is passed:
\* profiles are never deleted.
diffQualityProfiles(current, desired) ==
    IF Of(current, "CustomFormat") # {} THEN {}
    ELSE DiffVideoQualityProfiles(current, desired, NoId)

(***************************************************************************)
(* Custom formats: all of the instance; conditions on source and           *)
(* resolution are written as numbers and read back as digits.              *)
(***************************************************************************)
sourceToInt(source) ==
    CASE source = "cam" -> "1" [] source = "telesync" -> "2" [] source = "telecine" -> "3"
      [] source = "workprint" -> "4" [] source = "dvd" -> "5" [] source = "tv" -> "6"
      [] source = "webdl" -> "7" [] source = "webrip" -> "8" [] source = "bluray" -> "9"
      [] OTHER -> "0"

resolutionToInt(res) ==
    CASE res = "r360p" -> "360" [] res = "r480p" -> "480" [] res = "r576p" -> "576"
      [] res = "r720p" -> "720" [] res = "r1080p" -> "1080" [] res = "r2160p" -> "2160"
      [] OTHER -> "0"

buildMinimalFields(cfg) ==
    [title      |-> cfg.title,
     source     |-> IF cfg.source = "" THEN "" ELSE sourceToInt(cfg.source),
     resolution |-> IF cfg.resolution = "" THEN "" ELSE resolutionToInt(cfg.resolution)]

buildMinimalCustomFormat(d) == [d EXCEPT !.cfg = buildMinimalFields(@)]

formatSpecToIR(cfg) ==
    [title |-> Field(cfg, "title"), source |-> Field(cfg, "source"),
     resolution |-> Field(cfg, "resolution")]

customFormatToIR(x) == Resource(x.kind, x.id, x.name, formatSpecToIR(x.cfg))

getManagedCustomFormats(svc) == {customFormatToIR(x) : x \in Get(svc, "CustomFormat")}

FormatSpecsEqual(c, d) ==
    c.title = d.title /\ c.source = d.source /\ c.resolution = d.resolution
CustomFormatsEqual(c, d) == FormatSpecsEqual(c, d)

diffCustomFormats(current, desired) ==
    DiffByName("CustomFormat", current, desired, CustomFormatsEqual, FALSE)

createCustomFormat(d)      == Post(buildMinimalCustomFormat(d), FALSE)
updateCustomFormat(svc, d) == PutByName(svc, buildMinimalCustomFormat(d), FALSE)
deleteCustomFormat(svc, n) == DeleteByName(svc, "CustomFormat", n)

(***************************************************************************)
(* Download clients.  The fields of an implementation are chosen by its    *)
(* name in lower case, which is not the name that the compiler gives: only *)
(* the common fields are sent.                                             *)
(***************************************************************************)
PascalNames ==
    [qbittorrent |-> "QBittorrent", transmission |-> "Transmission", deluge |-> "Deluge",
     rtorrent |-> "RTorrent", sabnzbd |-> "Sabnzbd", nzbget |-> "NzbGet"]

normalizeImplementation(impl) == IF impl \in DOMAIN PascalNames THEN PascalNames[impl] ELSE impl

\* Wrong variant: the address is left out.
buildDownloadClientFieldsNoHost(cfg) ==
    [impl |-> normalizeImplementation(cfg.impl), username |-> cfg.cred]

buildDownloadClientFields(cfg) ==
    LET common == [impl |-> normalizeImplementation(cfg.impl), host |-> cfg.host, username |-> cfg.cred]
    IN  IF cfg.impl \in DOMAIN PascalNames \ {"rtorrent"}
        THEN [f \in DOMAIN common \cup {"movieCategory"} |->
                 IF f = "movieCategory" THEN cfg.category ELSE common[f]]
        ELSE common

irToDownloadClient(d) == [d EXCEPT !.cfg = buildDownloadClientFields(@)]

inferProtocol(impl) ==
    CASE impl \in {"QBittorrent", "Transmission", "Deluge", "RTorrent", "Vuze", "UTorrent",
                   "Aria2", "Flood"} -> "torrent"
      [] impl \in {"Sabnzbd", "NzbGet", "NzbVortex", "Pneumatic", "UsenetBlackhole"} -> "usenet"
      [] OTHER -> ""

downloadClientToIR(x) ==
    Resource(x.kind, x.id, x.name,
             [impl |-> x.cfg.impl, protocol |-> inferProtocol(x.cfg.impl), host |-> Field(x.cfg, "host"),
              cred |-> Field(x.cfg, "username"), category |-> Field(x.cfg, "movieCategory")])

getManagedDownloadClients(svc) == {downloadClientToIR(x) : x \in Tagged(svc, "DownloadClient")}

diffDownloadClients(current, desired) ==
    DiffByName("DownloadClient", current, desired, DownloadClientsEqual, FALSE)

createDownloadClient(d)      == Post(irToDownloadClient(d), TRUE)
updateDownloadClient(svc, d) == PutByName(svc, irToDownloadClient(d), TRUE)
deleteDownloadClient(svc, n) == DeleteByName(svc, "DownloadClient", n)

(***************************************************************************)
(* Indexers are not compared: one that exists is written again.            *)
(***************************************************************************)
buildIndexerFields(cfg) ==
    IF cfg.key = "" THEN [baseUrl |-> cfg.url] ELSE [baseUrl |-> cfg.url, apiKey |-> cfg.key]

irToIndexer(d) == [d EXCEPT !.cfg = buildIndexerFields(@)]

indexerToIR(x) == Resource(x.kind, x.id, x.name, ExtractIndexerFields(x.cfg))

getManagedIndexers(svc) == {indexerToIR(x) : x \in Tagged(svc, "Indexer")}

diffIndexers(current, desired) ==
    DiffByName("Indexer", current, desired, LAMBDA c, d : FALSE, FALSE)

createIndexer(d)      == Post(irToIndexer(d), TRUE)
updateIndexer(svc, d) == PutByName(svc, irToIndexer(d), TRUE)
deleteIndexer(svc, n) == DeleteByName(svc, "Indexer", n)

(***************************************************************************)
(* Root folders, path mappings, naming.                                    *)
(***************************************************************************)
getRootFolders(svc) ==
    {Resource(x.kind, x.id, x.name, NoCfg) : x \in Get(svc, "RootFolder")}

diffRootFolders(current, desired) == DiffRootFolders(current, desired)

createRootFolder(d) == Post(d, FALSE)

remotePathMappingToIR(x) == Resource(x.kind, x.id, x.name, [localPath |-> x.cfg.localPath])
irToRemotePathMapping(d) == [d EXCEPT !.cfg = [localPath |-> @.localPath]]

getRemotePathMappings(svc) == {remotePathMappingToIR(x) : x \in Get(svc, "RemotePathMapping")}

diffRemotePathMappings(current, desired) == DiffRemotePathMappings(current, desired)

createRemotePathMapping(d)     == Post(irToRemotePathMapping(d), FALSE)
updateRemotePathMapping(id, d) == Put(irToRemotePathMapping(d), id, FALSE)
deleteRemotePathMapping(id)    == Delete("RemotePathMapping", id)

\* Two formats of the service count as a space; one of them is written.
colonReplacementToInt(format) ==
    CASE format = "dash" -> "dash" [] format \in {"spaceDash", "spaceDashSpace"} -> "space"
      [] format = "smart" -> "smart" [] OTHER -> "delete"

intToColonReplacement(colon) ==
    CASE colon = "dash" -> "dash" [] colon = "space" -> "spaceDash"
      [] colon = "smart" -> "smart" [] OTHER -> "delete"

getNamingConfig(svc) ==
    {Resource(x.kind, x.id, x.name,
              [format |-> x.cfg.format, style |-> colonReplacementToInt(x.cfg.colon)]) :
        x \in Get(svc, "NamingConfig")}

namingEqual(c, d) == c.format = d.format /\ c.style = d.style

diffNaming(current, desired) ==
    LET have == Of(current, "NamingConfig")
    IN  {Change("update", d, NoId) :
            d \in {n \in Of(desired, "NamingConfig") :
                      have = {} \/ ~namingEqual(First(have).cfg, n.cfg)}}

\* The id is fetched again before the configuration is put.
updateNamingConfig(svc, d) ==
    UpdateConfig(FetchConfig(svc, "NamingConfig"),
                 [format |-> d.cfg.format, colon |-> intToColonReplacement(d.cfg.style)])

(***************************************************************************)
(* Notifications and delay profiles are addressed by the id of the diff.   *)
(***************************************************************************)
notificationToIR(x) ==
    Resource(x.kind, x.id, x.name, [on |-> x.cfg.on, url |-> Field(x.cfg, "url")])

getManagedNotifications(svc) == {notificationToIR(x) : x \in Tagged(svc, "Notification")}

irToNotification(d) == [d EXCEPT !.cfg = [on |-> @.on, url |-> @.url]]

notificationsEqual(c, d) == c.on = d.on /\ c.url = d.url

diffNotifications(current, desired) ==
    DiffByName("Notification", current, desired, notificationsEqual, TRUE)

createNotification(d)     == Post(irToNotification(d), TRUE)
updateNotification(id, d) == Put(irToNotification(d), id, TRUE)
deleteNotification(id)    == Delete("Notification", id)

delayProfileToIR(x) ==
    Resource(x.kind, x.id, x.name,
             [delay |-> x.cfg.delay, tags |-> IF x.ours THEN "owned" ELSE ""])

getManagedDelayProfiles(svc) == {delayProfileToIR(x) : x \in Get(svc, "DelayProfile")}

irToDelayProfile(d) == [d EXCEPT !.cfg = [delay |-> @.delay]]

diffDelayProfiles(current, desired) == DiffDelayProfiles(current, desired)

createDelayProfile(d)     == Post(irToDelayProfile(d), TRUE)
updateDelayProfile(id, d) == Put(irToDelayProfile(d), id, TRUE)
deleteDelayProfile(id)    == Delete("DelayProfile", id)

(***************************************************************************)
(* Import lists: written whenever a list is desired; a monitor type is     *)
(* sent only when there is one.                                            *)
(***************************************************************************)
getImportLists(svc) == Get(svc, "ImportList")

findSchemaByType(schemas, type) == {s \in schemas : s.type = type}

buildImportListFields(settings, schema) ==
    [f \in DOMAIN settings \cap schema.fields |-> settings[f]]

irToImportList(d, schema) ==
    [d EXCEPT !.cfg = [type |-> @.type, monitor |-> @.monitor,
                       fields |-> buildImportListFields(@.settings, schema)]]

importListToIR(x) ==
    Resource(x.kind, x.id, x.name, [type |-> x.cfg.type, monitor |-> Field(x.cfg, "monitor"),
                                    settings |-> x.cfg.fields])

getManagedImportLists(svc) == {importListToIR(x) : x \in {y \in getImportLists(svc) : HasTag(y)}}

createImportList(p)     == Post(p, TRUE)
updateImportList(id, p) == Put(p, id, TRUE)
deleteImportList(id)    == Delete("ImportList", id)

applyImportLists(svc, schemas, desired) ==
    LET want     == Of(desired, "ImportList")
        have     == getImportLists(svc)
        known(d) == findSchemaByType(schemas, d.cfg.type)
        list(d)  == irToImportList(d, CHOOSE s \in known(d) : TRUE)
        write(d) == IF known(d) = {} THEN BadRequest
                    ELSE IF d.name \in Names(have)
                    THEN updateImportList(Named(have, d.name).id, list(d))
                    ELSE createImportList(list(d))
        orphans  == {x \in have : HasTag(x) /\ x.name \notin Names(want)}
    IN  IF want = {} THEN {}
        ELSE {write(d) : d \in want} \cup {deleteImportList(x.id) : x \in orphans}

(***************************************************************************)
(* Media management and authentication.                                    *)
(***************************************************************************)
applyMediaManagement(svc, d) ==
    LET c == FetchConfig(svc, "MediaManagement")
    IN  UpdateConfig(c, [c.cfg EXCEPT !.managed = d.cfg.managed])

mediaManagementConfigToIR(x) == Resource(x.kind, x.id, x.name, [managed |-> x.cfg.managed])
getMediaManagementIR(svc)    == {mediaManagementConfigToIR(x) : x \in Get(svc, "MediaManagement")}

mapAuthMethod(method)     == MapAuthMethod(method)
mapAuthRequired(required) == MapAuthRequired(required)

applyAuthentication(svc, d) ==
    LET host == FetchConfig(svc, "Authentication")
        keep(new, old) == IF new = "" THEN old ELSE new
    IN  UpdateConfig(host,
            [method   |-> mapAuthMethod(d.cfg.method),
             required |-> mapAuthRequired(d.cfg.required),
             username |-> IF d.cfg.method = "forms" THEN keep(d.cfg.username, host.cfg.username)
                          ELSE host.cfg.username,
             password |-> keep(d.cfg.password, host.cfg.password)])

hostConfigToAuthIR(host)  == HostConfigToAuthIR(host)
getAuthenticationIR(svc)  ==
    {Resource(x.kind, x.id, x.name, hostConfigToAuthIR(x.cfg)) : x \in Get(svc, "Authentication")}

(***************************************************************************)
(* The adapter.                                                            *)
(***************************************************************************)
CurrentState(svc, schema, tag, blind) ==
    {x \in getManagedQualityProfiles(svc, schema) \cup getManagedCustomFormats(svc)
               \cup getManagedDownloadClients(svc) \cup getManagedIndexers(svc)
               \cup getRootFolders(svc) \cup getRemotePathMappings(svc)
               \cup getNamingConfig(svc) \cup getManagedImportLists(svc)
               \cup getMediaManagementIR(svc) \cup getAuthenticationIR(svc)
               \cup getManagedNotifications(svc) \cup getManagedDelayProfiles(svc) :
        tag /\ x.kind \notin blind}

Diff(current, desired) ==
    diffQualityProfiles(current, desired) \cup diffCustomFormats(current, desired)
        \cup diffDownloadClients(current, desired) \cup diffIndexers(current, desired)
        \cup diffRootFolders(current, desired) \cup diffRemotePathMappings(current, desired)
        \cup diffNaming(current, desired) \cup diffNotifications(current, desired)
        \cup diffDelayProfiles(current, desired)

KindRank ==
    [QualityProfile |-> 1, CustomFormat |-> 2, DownloadClient |-> 3, Indexer |-> 4,
     RootFolder |-> 5, RemotePathMapping |-> 6, NamingConfig |-> 7,
     Notification |-> 8, DelayProfile |-> 9]

applyCreate(svc, schema, ch) ==
    LET d == Resource(ch.kind, NoId, ch.name, ch.cfg)
    IN  CASE ch.kind = "QualityProfile"    -> createQualityProfile(svc, schema, d)
          [] ch.kind = "CustomFormat"      -> createCustomFormat(d)
          [] ch.kind = "DownloadClient"    -> createDownloadClient(d)
          [] ch.kind = "Indexer"           -> createIndexer(d)
          [] ch.kind = "RootFolder"        -> createRootFolder(d)
          [] ch.kind = "RemotePathMapping" -> createRemotePathMapping(d)
          [] ch.kind = "Notification"      -> createNotification(d)
          [] ch.kind = "DelayProfile"      -> createDelayProfile(d)

applyUpdate(svc, schema, ch) ==
    LET d == Resource(ch.kind, NoId, ch.name, ch.cfg)
    IN  CASE ch.kind = "QualityProfile"    -> updateQualityProfile(svc, schema, d)
          [] ch.kind = "CustomFormat"      -> updateCustomFormat(svc, d)
          [] ch.kind = "DownloadClient"    -> updateDownloadClient(svc, d)
          [] ch.kind = "Indexer"           -> updateIndexer(svc, d)
          [] ch.kind = "RemotePathMapping" -> updateRemotePathMapping(ch.id, d)
          [] ch.kind = "NamingConfig"      -> updateNamingConfig(svc, d)
          [] ch.kind = "Notification"      -> updateNotification(ch.id, d)
          [] ch.kind = "DelayProfile"      -> updateDelayProfile(ch.id, d)

applyDelete(svc, ch) ==
    CASE ch.kind = "QualityProfile"    -> deleteQualityProfile(svc, ch.name)
      [] ch.kind = "CustomFormat"      -> deleteCustomFormat(svc, ch.name)
      [] ch.kind = "DownloadClient"    -> deleteDownloadClient(svc, ch.name)
      [] ch.kind = "Indexer"           -> deleteIndexer(svc, ch.name)
      [] ch.kind = "RemotePathMapping" -> deleteRemotePathMapping(ch.id)
      [] ch.kind = "Notification"      -> deleteNotification(ch.id)
      [] ch.kind = "DelayProfile"      -> deleteDelayProfile(ch.id)

Apply(svc, schema, ch) ==
    CASE ch.op = "create" -> applyCreate(svc, schema, ch)
      [] ch.op = "update" -> applyUpdate(svc, schema, ch)
      [] ch.op = "delete" -> applyDelete(svc, ch)

DirectRequests(svc, schemas, desired, kind) ==
    CASE kind = "ImportList"      -> applyImportLists(svc, schemas, desired)
      [] kind = "MediaManagement" -> {applyMediaManagement(svc, d) : d \in Of(desired, kind)}
      [] kind = "Authentication"  -> {applyAuthentication(svc, d) : d \in Of(desired, kind)}

=============================================================================
