---------------------------- MODULE SonarrAdapter ----------------------------
(***************************************************************************)
(* The Sonarr adapter (internal/adapters/sonarr) on the data of            *)
(* AdapterShared: what it lists, how it compares, which request it makes   *)
(* for a change.  Apply addresses every resource by the id that the diff   *)
(* saw; quality profiles are recognised by the prefix of their name, which *)
(* here is `ours' of the profile.                                          *)
(***************************************************************************)
EXTENDS AdapterShared, Sequences

(***************************************************************************)
(* Quality profiles.  The schema is a sequence of qualities and of groups  *)
(* of qualities; a quality is [id, source, resolution], an item is         *)
(* [id, qualities, group].  Tiers are [resolution, sources, allowed].      *)
(***************************************************************************)
resolutionToString(res) ==
    CASE res = 2160 -> "2160p" [] res = 1080 -> "1080p"
      [] res = 720 -> "720p"   [] res = 480 -> "480p" [] OTHER -> ""

resolveResolution(res) ==
    IF resolutionToString(res) = "" THEN "unknown" ELSE resolutionToString(res)

mapSonarrSource(source) ==
    CASE source \in {"television", "televisionRaw"} -> "hdtv"
      [] source \in {"web", "webdl"}        -> "webdl"
      [] source = "webRip"                  -> "webrip"
      [] source \in {"bluray", "blurayRaw"} -> "bluray"
      [] OTHER                              -> source

\* Resolution and source of every tier that is allowed.
buildAllowedQualitiesMap(tiers) ==
    UNION {{<<t.resolution, s>> : s \in t.sources} : t \in {u \in tiers : u.allowed}}

isQualityAllowed(q, allowed) ==
    <<resolutionToString(q.resolution), mapSonarrSource(q.source)>> \in allowed

\* Wrong variant: any quality of the resolution is taken for the cutoff.
isQualityCutoffByResolution(q, cutoff) == resolutionToString(q.resolution) = cutoff.resolution

isQualityCutoff(q, cutoff) ==
    /\ resolutionToString(q.resolution) = cutoff.resolution
    /\ mapSonarrSource(q.source) \in cutoff.sources

\* A group is allowed when one of its qualities is, and stands for them as
\* the cutoff.  The last match is the cutoff, 1 if there is none.
processSchemaItems(schema, allowed, cutoff) ==
    LET matches == {i \in DOMAIN schema :
                        \E q \in schema[i].qualities : isQualityCutoff(q, cutoff)}
    IN  [items  |-> {schema[i].id : i \in {j \in DOMAIN schema :
                        \E q \in schema[j].qualities : isQualityAllowed(q, allowed)}},
         cutoff |-> IF matches = {} THEN 1
                    ELSE schema[CHOOSE i \in matches : \A j \in matches : i >= j].id]

\* Scores go to the formats that the service has at this moment.
buildFormatItems(svc, scores) ==
    {[format |-> f.id, score |-> scores[f.name]] :
        f \in {x \in Get(svc, "CustomFormat") : x.name \in DOMAIN scores}}

QualityProfileResource(svc, schema, profile) ==
    LET marked == processSchemaItems(schema, buildAllowedQualitiesMap(profile.tiers),
                                     profile.cutoff)
    IN  [items |-> marked.items, cutoff |-> marked.cutoff,
         formatItems |-> buildFormatItems(svc, profile.scores)]

\* A profile the service refuses: its cutoff is not among the allowed items.
ValidProfile(p) == p.cutoff \in p.items

createQualityProfile(svc, schema, d) ==
    LET p == QualityProfileResource(svc, schema, d.cfg)
    IN  IF ValidProfile(p) THEN Post([d EXCEPT !.cfg = p], TRUE) ELSE BadRequest

updateQualityProfile(svc, schema, id, d) ==
    LET p == QualityProfileResource(svc, schema, d.cfg)
    IN  IF ValidProfile(p) THEN Put([d EXCEPT !.cfg = p], id, TRUE) ELSE BadRequest

\* A tier for each single quality that is allowed; groups give none.
profileToIR(schema, x) ==
    LET single == {schema[i] : i \in {j \in DOMAIN schema : ~schema[j].group}}
        tier(q) == [resolution |-> resolveResolution(q.resolution),
                    sources |-> {q.source}, allowed |-> TRUE]
    IN  Resource(x.kind, x.id, x.name,
                 [tiers |-> UNION {{tier(q) : q \in item.qualities} :
                                      item \in {y \in single : y.id \in x.cfg.items}}])

getManagedQualityProfiles(svc, schema) ==
    {profileToIR(schema, x) : x \in Tagged(svc, "QualityProfile")}

\* Wrong variant: the id of the first profile ever seen is kept.
managedProfileIDOnce(listed, before) ==
    IF before # NoId \/ listed = {} THEN before ELSE Last(listed).id

\* The package-level id: the last managed profile of the last list.
managedProfileID(listed, before) == IF listed = {} THEN before ELSE Last(listed).id

\* ir.Quality holds the first of the list.
diffQualityProfiles(current, desired, globals) ==
    DiffVideoQualityProfiles(current, desired, globals.profile)

(***************************************************************************)
(* Download clients, indexers, root folders.                               *)
(***************************************************************************)
clientToIR(x) ==
    Resource(x.kind, x.id, x.name, ExtractDownloadClientFields(x.cfg, {"category", "tvCategory"}))

getManagedDownloadClients(svc) == {clientToIR(x) : x \in Tagged(svc, "DownloadClient")}

diffDownloadClients(current, desired) == DiffDownloadClientsWithIR(current, desired)

\* Wrong variant: writes the category under a name that the service ignores.
downloadClientFromIRUnread(d) ==
    [d EXCEPT !.cfg = [impl |-> @.impl, host |-> @.host, username |-> @.cred,
                       movieCategory |-> @.category]]

downloadClientFromIR(d) ==
    [d EXCEPT !.cfg = [impl |-> @.impl, host |-> @.host, username |-> @.cred,
                       tvCategory |-> @.category]]

createDownloadClient(d)     == Post(downloadClientFromIR(d), TRUE)
updateDownloadClient(id, d) == Put(downloadClientFromIR(d), id, TRUE)

indexerToIR(x) == Resource(x.kind, x.id, x.name, ExtractIndexerFields(x.cfg))

getManagedIndexers(svc) == {indexerToIR(x) : x \in Tagged(svc, "Indexer")}

diffIndexers(current, desired) == DiffIndexersWithIR(current, desired)

indexerFromIR(d) == [d EXCEPT !.cfg = [baseUrl |-> @.url, apiKey |-> @.key]]

createIndexer(d)     == Post(indexerFromIR(d), TRUE)
updateIndexer(id, d) == Put(indexerFromIR(d), id, TRUE)

getRootFolders(svc) ==
    {Resource(x.kind, x.id, x.name, NoCfg) : x \in Get(svc, "RootFolder")}

diffRootFolders(current, desired) == DiffRootFolders(current, desired)

createRootFolder(d) == Post(d, FALSE)

(***************************************************************************)
(* Remote path mappings and naming.                                        *)
(***************************************************************************)
getRemotePathMappings(svc) ==
    {Resource(x.kind, x.id, x.name, x.cfg) : x \in Get(svc, "RemotePathMapping")}

diffRemotePathMappings(current, desired) == DiffRemotePathMappings(current, desired)

createRemotePathMapping(d)     == Post(d, FALSE)
updateRemotePathMapping(id, d) == Put(d, id, FALSE)
deleteRemotePathMapping(id)    == Delete("RemotePathMapping", id)

getNamingConfig(svc) ==
    {Resource(x.kind, x.id, x.name, x.cfg) : x \in Get(svc, "NamingConfig")}

\* The package-level id of the naming configuration, that of the last read.
namingConfigID(listed, before) == IF listed = {} THEN before ELSE First(listed).id

\* Six of the nine fields are compared; `style' stands for the other three.
namingNeedsUpdate(c, d) == c.format # d.format

diffNaming(current, desired, globals) ==
    LET have == Of(current, "NamingConfig")
    IN  {Change("update", d, globals.naming) :
            d \in {n \in Of(desired, "NamingConfig") :
                      have = {} \/ namingNeedsUpdate(First(have).cfg, n.cfg)}}

updateNaming(id, d) == Put(d, id, FALSE)

(***************************************************************************)
(* Notifications.                                                          *)
(***************************************************************************)
notificationToIR(x) == Resource(x.kind, x.id, x.name, [on |-> x.cfg.on, url |-> Field(x.cfg, "url")])

getManagedNotifications(svc) == {notificationToIR(x) : x \in Tagged(svc, "Notification")}

irToNotification(d) == [d EXCEPT !.cfg = [on |-> @.on, url |-> @.url]]

notificationsEqual(c, d) == c.on = d.on /\ c.url = d.url

diffNotifications(current, desired) ==
    DiffByName("Notification", current, desired, notificationsEqual, TRUE)

createNotification(d)     == Post(irToNotification(d), TRUE)
updateNotification(id, d) == Put(irToNotification(d), id, TRUE)
deleteNotification(id)    == Delete("Notification", id)

(***************************************************************************)
(* Custom formats: all of the instance, matched by name, deleted when not  *)
(* desired.  A format is [title, source]: a release-title condition, which *)
(* is text, and a source condition, which is written as a number and read  *)
(* back as its digits.                                                     *)
(***************************************************************************)
sourceToInt(source) ==
    CASE source = "television" -> "1" [] source = "televisionRaw" -> "2" [] source \in {"webdl", "web"} -> "3"
      [] source \in {"webrip", "webRip"} -> "4" [] source = "dvd" -> "5"
      [] source = "bluray" -> "6" [] source = "blurayRaw" -> "7" [] OTHER -> "0"

resolutionToInt(res) ==
    CASE res = "r360p" -> "360" [] res = "r480p" -> "480" [] res = "r540p" -> "540" [] res = "r576p" -> "576"
      [] res = "r720p" -> "720" [] res = "r1080p" -> "1080" [] res = "r2160p" -> "2160" [] OTHER -> "0"

\* "" stands for a format without such a condition.
buildSpecFields(cfg) ==
    [title      |-> cfg.title,
     source     |-> IF cfg.source = "" THEN "" ELSE sourceToInt(cfg.source),
     resolution |-> IF cfg.resolution = "" THEN "" ELSE resolutionToInt(cfg.resolution)]

irToCustomFormat(d) == [d EXCEPT !.cfg = buildSpecFields(@)]

customFormatToIR(x) ==
    Resource(x.kind, x.id, x.name, [title |-> Field(x.cfg, "title"), source |-> Field(x.cfg, "source"),
                                    resolution |-> Field(x.cfg, "resolution")])

getAllCustomFormats(svc) == {customFormatToIR(x) : x \in Get(svc, "CustomFormat")}

customFormatsEqual(c, d) ==
    c.title = d.title /\ c.source = d.source /\ c.resolution = d.resolution

diffCustomFormats(current, desired) ==
    DiffByName("CustomFormat", current, desired, customFormatsEqual, TRUE)

createCustomFormat(d)     == Post(irToCustomFormat(d), FALSE)
updateCustomFormat(id, d) == Put(irToCustomFormat(d), id, FALSE)
deleteCustomFormat(id)    == Delete("CustomFormat", id)

(***************************************************************************)
(* Delay profiles: all of the instance; a profile without tags of its own  *)
(* is written with the ownership tag.                                      *)
(***************************************************************************)
delayProfileToIR(x) ==
    Resource(x.kind, x.id, x.name,
             [delay |-> x.cfg.delay, tags |-> IF x.ours THEN "owned" ELSE ""])

getManagedDelayProfiles(svc) == {delayProfileToIR(x) : x \in Get(svc, "DelayProfile")}

irToDelayProfile(d) == [d EXCEPT !.cfg = [delay |-> @.delay]]

diffDelayProfiles(current, desired) == DiffDelayProfiles(current, desired)

createDelayProfile(d)     == Post(irToDelayProfile(d), TRUE)
updateDelayProfile(id, d) == Put(irToDelayProfile(d), id, TRUE)
deleteDelayProfile(id)    == Delete("DelayProfile", id)

(***************************************************************************)
(* Import lists.  The schemas of the service say which types exist and     *)
(* which settings a type has; other settings are dropped.  A list of an    *)
(* unknown type is an error, but its name still protects the list that     *)
(* carries it.                                                             *)
(***************************************************************************)
findSchemaByType(schemas, type) == {s \in schemas : s.type = type}

buildImportListFields(settings, schema) ==
    [f \in DOMAIN settings \cap schema.fields |-> settings[f]]

irToImportList(d, schema) ==
    [d EXCEPT !.cfg = [type |-> @.type, shouldMonitor |-> IF @.monitor = "" THEN "all" ELSE @.monitor,
                       fields |-> buildImportListFields(@.settings, schema)]]

createImportList(p)     == Post(p, TRUE)
updateImportList(id, p) == Put(p, id, TRUE)
deleteImportList(id)    == Delete("ImportList", id)

getImportLists(svc) == Get(svc, "ImportList")

importListToIR(x) ==
    Resource(x.kind, x.id, x.name, [type |-> x.cfg.type, monitor |-> x.cfg.shouldMonitor,
                                    settings |-> x.cfg.fields])

getManagedImportLists(svc) == {importListToIR(x) : x \in Tagged(svc, "ImportList")}

\* The requests of one call, made in the order updates and creates, deletes.
applyImportLists(svc, schemas, desired) ==
    LET want     == Of(desired, "ImportList")
        have     == getImportLists(svc)
        known(d) == findSchemaByType(schemas, d.cfg.type)
        list(d)  == irToImportList(d, CHOOSE s \in known(d) : TRUE)
        write(d) == IF known(d) = {} THEN BadRequest
                    ELSE IF d.name \in Names(have)
                    THEN updateImportList(Named(have, d.name).id, list(d))
                    ELSE createImportList(list(d))
        orphans  == {x \in have : HasTag(x) /\ x.name \notin Names(want)}
    IN  {write(d) : d \in want} \cup {deleteImportList(x.id) : x \in orphans}

(***************************************************************************)
(* Media management and authentication.                                    *)
(***************************************************************************)
\* Eight fields are the IR's (`managed'), the others keep their value.
applyMediaManagement(svc, d) ==
    LET c == FetchConfig(svc, "MediaManagement")
    IN  UpdateConfig(c, [c.cfg EXCEPT !.managed = d.cfg.managed])

getMediaManagementIR(svc) ==
    {Resource(x.kind, x.id, x.name, [managed |-> x.cfg.managed]) : x \in Get(svc, "MediaManagement")}

applyAuthentication(svc, d) == ApplyAuthentication(svc, d)
getAuthenticationIR(svc)    == GetAuthenticationIR(svc)

(***************************************************************************)
(* The adapter.  `tag' says that the ownership tag was found, `blind'      *)
(* holds the kinds whose list call failed: its error is dropped.           *)
(***************************************************************************)
CurrentState(svc, schema, tag, blind) ==
    {x \in getManagedQualityProfiles(svc, schema) \cup getManagedDownloadClients(svc)
               \cup getManagedIndexers(svc) \cup getRootFolders(svc)
               \cup getRemotePathMappings(svc) \cup getManagedNotifications(svc)
               \cup getNamingConfig(svc) \cup getManagedImportLists(svc)
               \cup getMediaManagementIR(svc) \cup getAuthenticationIR(svc)
               \cup getAllCustomFormats(svc) \cup getManagedDelayProfiles(svc) :
        tag /\ x.kind \notin blind}

Diff(current, desired, globals) ==
    diffQualityProfiles(current, desired, globals) \cup diffDownloadClients(current, desired)
        \cup diffIndexers(current, desired) \cup diffRootFolders(current, desired)
        \cup diffRemotePathMappings(current, desired) \cup diffNaming(current, desired, globals)
        \cup diffNotifications(current, desired) \cup diffCustomFormats(current, desired)
        \cup diffDelayProfiles(current, desired)

\* The order in which Diff appends the changes of the kinds.
KindRank ==
    [QualityProfile |-> 1, DownloadClient |-> 2, Indexer |-> 3, RootFolder |-> 4,
     RemotePathMapping |-> 5, NamingConfig |-> 6, Notification |-> 7,
     CustomFormat |-> 8, DelayProfile |-> 9]

applyCreate(svc, schema, ch) ==
    LET d == Resource(ch.kind, NoId, ch.name, ch.cfg)
    IN  CASE ch.kind = "QualityProfile"    -> createQualityProfile(svc, schema, d)
          [] ch.kind = "DownloadClient"    -> createDownloadClient(d)
          [] ch.kind = "Indexer"           -> createIndexer(d)
          [] ch.kind = "RootFolder"        -> createRootFolder(d)
          [] ch.kind = "RemotePathMapping" -> createRemotePathMapping(d)
          [] ch.kind = "Notification"      -> createNotification(d)
          [] ch.kind = "CustomFormat"      -> createCustomFormat(d)
          [] ch.kind = "DelayProfile"      -> createDelayProfile(d)

applyUpdate(svc, schema, ch) ==
    LET d == Resource(ch.kind, NoId, ch.name, ch.cfg)
    IN  CASE ch.kind = "QualityProfile"    -> updateQualityProfile(svc, schema, ch.id, d)
          [] ch.kind = "DownloadClient"    -> updateDownloadClient(ch.id, d)
          [] ch.kind = "Indexer"           -> updateIndexer(ch.id, d)
          [] ch.kind = "RemotePathMapping" -> updateRemotePathMapping(ch.id, d)
          [] ch.kind = "NamingConfig"      -> updateNaming(ch.id, d)
          [] ch.kind = "Notification"      -> updateNotification(ch.id, d)
          [] ch.kind = "CustomFormat"      -> updateCustomFormat(ch.id, d)
          [] ch.kind = "DelayProfile"      -> updateDelayProfile(ch.id, d)

applyDelete(ch) ==
    IF ch.id = NoId THEN BadRequest ELSE Delete(ch.kind, ch.id)

Apply(svc, schema, ch) ==
    CASE ch.op = "create" -> applyCreate(svc, schema, ch)
      [] ch.op = "update" -> applyUpdate(svc, schema, ch)
      [] ch.op = "delete" -> applyDelete(ch)

\* The requests of ApplyDirect for one of its three kinds.
DirectRequests(svc, schemas, desired, kind) ==
    CASE kind = "ImportList"      -> applyImportLists(svc, schemas, desired)
      [] kind = "MediaManagement" -> {applyMediaManagement(svc, d) : d \in Of(desired, kind)}
      [] kind = "Authentication"  -> {applyAuthentication(svc, d) : d \in Of(desired, kind)}

=============================================================================
