------------------------------ MODULE Compiler ------------------------------
(***************************************************************************)
(* The compiler (internal/compiler): from a stored configuration, the      *)
(* secrets that were resolved and the capabilities that were discovered to *)
(* the IR, the set of resources that the adapters work towards.            *)
(*                                                                         *)
(* Resolved secrets are a function from <<secret, key>>; the key of the    *)
(* connection is kept under <<"", "apiKey">>.  A name made by the operator *)
(* is the tuple of its parts: <<"nebularr", configuration, name>>; names   *)
(* that the user chose are tuples with one part.                           *)
(***************************************************************************)
EXTENDS AdapterShared, Sequences, ApiTypes, Presets

CONSTANT NameHints   \* name of a client -> the words of client types in it

ConnectionKey == <<"", "apiKey">>

Owned(config, name) == <<"nebularr", config, name>>
UserName(name)      == <<name>>
ProfileName(config) == <<"nebularr", config>>

\* A missing entry leaves the field empty.
Resolved(secrets, key) == IF key \in DOMAIN secrets THEN secrets[key] ELSE ""

(***************************************************************************)
(* Download clients.                                                       *)
(***************************************************************************)
Address(host, port, useTLS) == host \o ":" \o ToString(port) \o (IF useTLS THEN " tls" ELSE "")

\* Host, port and TLS, as one text.
parseClientURL(url) ==
    LET useTLS == url.scheme = "https"
    IN  Address(url.host, IF url.port # 0 THEN url.port ELSE IF useTLS THEN 443 ELSE 80, useTLS)

\* The first word in this order; qbittorrent when there is none.
HintOrder == <<"qbittorrent", "transmission", "deluge", "rtorrent", "sabnzbd", "nzbget">>

inferImplementationFromName(name) ==
    LET found == {i \in DOMAIN HintOrder : HintOrder[i] \in NameHints[name]}
    IN  IF found = {} THEN "qbittorrent" ELSE HintOrder[CHOOSE i \in found : \A j \in found : i <= j]

PascalImplementation ==
    [qbittorrent |-> "QBittorrent", transmission |-> "Transmission", deluge |-> "Deluge",
     rtorrent |-> "RTorrent", sabnzbd |-> "Sabnzbd", nzbget |-> "NzbGet"]

normalizeImplementationName(impl) == PascalImplementation[impl]

Implementation(dc) == IF dc.type = "" THEN inferImplementationFromName(dc.name) ELSE dc.type

\* User name and password of a reference; both empty without one.
Credentials(ref, secrets) ==
    IF ref = None THEN <<"", "">>
    ELSE LET r == CHOOSE r \in ref : TRUE
         IN  <<Resolved(secrets, <<r.name, r.usernameKey>>), Resolved(secrets, <<r.name, r.passwordKey>>)>>

\* A key or a password that a selector refers to.
KeyOf(ref, secrets) ==
    IF ref = None THEN ""
    ELSE LET r == CHOOSE r \in ref : TRUE IN Resolved(secrets, <<r.name, r.key>>)

convertDownloadClients(clients, secrets) ==
    {[name |-> dc.name, impl |-> normalizeImplementationName(Implementation(dc)),
      host |-> parseClientURL(dc.url), cred |-> Credentials(dc.credentialsSecretRef, secrets),
      category |-> dc.category] : dc \in clients}

compileDownloadClients(inputs, config) ==
    {Resource("DownloadClient", NoId, Owned(config, i.name),
              [impl |-> i.impl, host |-> i.host, cred |-> i.cred, category |-> i.category]) : i \in inputs}

convertRemotePathMappings(mappings) ==
    {[name |-> <<m.host, m.remotePath>>, localPath |-> m.localPath] : m \in mappings}

compileRemotePathMappings(inputs) ==
    {Resource("RemotePathMapping", NoId, i.name, [localPath |-> i.localPath]) : i \in inputs}

(***************************************************************************)
(* Indexers.  With a reference to Prowlarr the direct ones are left out.   *)
(***************************************************************************)
inferIndexerImplementation(type) == IF type = "usenet" THEN "Newznab" ELSE "Torznab"

convertIndexers(spec, secrets) ==
    UNION {{[name |-> i.name, impl |-> inferIndexerImplementation(i.type), url |-> i.url,
             key |-> KeyOf(i.apiKeySecretRef, secrets)] :
                i \in {d \in s.direct : s.prowlarrRef = None}} : s \in spec}

compileIndexers(inputs, config) ==
    {Resource("Indexer", NoId, Owned(config, i.name), [impl |-> i.impl, url |-> i.url, key |-> i.key]) :
        i \in inputs}

(***************************************************************************)
(* Import lists, media management, authentication.  The settings of a list *)
(* are overlaid by every key of its secret, and by keys of the same secret *)
(* that were resolved for something else.                                  *)
(***************************************************************************)
SecretSettings(ref, given, secrets) ==
    LET names == {r.name : r \in ref}
        keys  == {e \in DOMAIN secrets : e[1] \in names}
        over  == {e[2] : e \in keys}
    IN  [k \in over \cup DOMAIN given |->
            IF k \in over THEN secrets[CHOOSE e \in keys : e[2] = k] ELSE given[k]]

convertImportLists(lists, secrets) ==
    {[name |-> l.name, type |-> l.type, monitor |-> l.monitor, shouldMonitor |-> l.shouldMonitor,
      settings |-> SecretSettings(l.settingsSecretRef, l.settings, secrets)] : l \in lists}

\* Radarr reads monitor, Sonarr shouldMonitor.
compileImportListsToIR(app, inputs) ==
    {Resource("ImportList", NoId, UserName(l.name),
              [type |-> l.type, monitor |-> IF app = "radarr" THEN l.monitor ELSE l.shouldMonitor,
               settings |-> l.settings]) : l \in inputs}

convertMediaManagement(spec) == spec

compileMediaManagementToIR(app, input) ==
    {Resource("MediaManagement", NoId, <<>>,
              IF app = "lidarr" THEN [managed |-> m.managed, fingerprint |-> m.allowFingerprinting]
              ELSE [managed |-> m.managed]) : m \in input}

convertAuthentication(spec, secrets) ==
    {[method |-> a.method, required |-> a.authenticationRequired, username |-> a.username,
      password |-> KeyOf(a.passwordSecretRef, secrets)] : a \in spec}

compileAuthenticationToIR(input) == {Resource("Authentication", NoId, <<>>, a) : a \in input}

(***************************************************************************)
(* Notifications.  No step resolves their secrets: settings come from a    *)
(* secret only when something else has resolved it.                        *)
(***************************************************************************)
convertNotifications(notifications, secrets) ==
    {[name |-> n.name, on |-> n.on,
      url |-> SecretSettings(n.settingsSecretRef, [url |-> n.url], secrets).url] : n \in notifications}

compileNotificationsToIR(inputs, config) ==
    {Resource("Notification", NoId, Owned(config, n.name), [on |-> n.on, url |-> n.url]) : n \in inputs}

(***************************************************************************)
(* Custom formats and delay profiles.                                      *)
(***************************************************************************)
compileCustomFormatsToIR(formats, config) ==
    {Resource("CustomFormat", NoId, Owned(config, f.name), f.specifications) : f \in formats}

compileFormatScores(formats, config) ==
    LET scored == {f \in formats : f.score # 0}
    IN  [n \in {Owned(config, f.name) : f \in scored} |->
            (CHOOSE f \in scored : Owned(config, f.name) = n).score]

\* The order that is left out is the position.
convertDelayProfiles(profiles) ==
    [i \in DOMAIN profiles |-> [profiles[i] EXCEPT !.order = IF @ = 0 THEN i ELSE @]]

\* Named by their order: of two with one order the diff keeps the later.
compileDelayProfilesToIR(inputs) ==
    {Resource("DelayProfile", NoId, ToString(inputs[i].order), [delay |-> inputs[i].delay, tags |-> inputs[i].tags]) :
        i \in {j \in DOMAIN inputs : \A k \in DOMAIN inputs : k > j => inputs[k].order # inputs[j].order}}

(***************************************************************************)
(* Quality and naming.                                                     *)
(***************************************************************************)
NoOverrides == [exclude |-> {}, prefer |-> {}, reject |-> {}]

QualityPreset(quality) ==
    IF quality = None THEN "" ELSE (CHOOSE q \in quality : TRUE).preset

VideoOverrides(quality) ==
    IF quality = None THEN NoOverrides
    ELSE LET q == CHOOSE q \in quality : TRUE
         IN  [exclude |-> q.exclude, prefer |-> q.preferAdditional, reject |-> q.rejectAdditional]

AudioOverrides(quality) ==
    IF quality = None THEN NoOverrides
    ELSE LET q == CHOOSE q \in quality : TRUE
         IN  [exclude |-> q.exclude, prefer |-> q.preferAdditional, reject |-> {}]

\* Formats that are given replace the scores of the preset.
compileVideoQuality(spec, config) ==
    LET expanded == ExpandVideoPreset(Or(QualityPreset(spec.quality), DefaultVideoPreset),
                                      VideoOverrides(spec.quality))
    IN  [expanded EXCEPT !.scores = IF spec.customFormats = {} THEN @
                                    ELSE compileFormatScores(spec.customFormats, config)]

compileAudioQuality(spec) ==
    ExpandAudioPreset(Or(QualityPreset(spec.quality), DefaultAudioPreset), AudioOverrides(spec.quality))

\* A format per tier; the cutoff has to be one of them.
compileBookQuality(q) ==
    LET formats == {f.format : f \in {g \in q.allowedFormats : g.allowed}}
    IN  [tiers  |-> {[name |-> f, formats |-> {f}, allowed |-> TRUE] : f \in formats},
         cutoff |-> IF q.cutoff \in formats THEN q.cutoff ELSE ""]

compileMetadataProfile(p, config) ==
    Resource("MetadataProfile", NoId, IF p.name = "" THEN ProfileName(config) ELSE <<"nebularr", p.name>>,
             [minPopularity |-> p.minPopularity])

NamingPreset(naming) ==
    IF naming = None THEN DefaultNamingPreset ELSE (CHOOSE n \in naming : TRUE).preset

compileNaming(app, naming) ==
    {Resource("NamingConfig", NoId, <<>>,
              CASE app = "radarr" -> ExpandRadarrNaming(NamingPreset(naming))
                [] app = "sonarr" -> ExpandSonarrNaming(NamingPreset(naming))
                [] app = "lidarr" -> ExpandLidarrNaming(NamingPreset(naming)))}

(***************************************************************************)
(* Pruning.  Capabilities are [resolutions, clientTypes, indexerTypes]; an *)
(* empty list of types stands for one that did not arrive.                 *)
(***************************************************************************)
\* Wrong variant: an empty list of types is taken for what the service has.
pruneUnsupportedAlways(ir, caps) ==
    {x \in ir : /\ x.kind = "DownloadClient" => x.cfg.impl \in caps.clientTypes
                /\ x.kind = "Indexer"        => x.cfg.impl \in caps.indexerTypes}

pruneUnsupported(ir, caps) ==
    {x \in ir : /\ x.kind = "DownloadClient" /\ caps.clientTypes # {} => x.cfg.impl \in caps.clientTypes
                /\ x.kind = "Indexer" /\ caps.indexerTypes # {}       => x.cfg.impl \in caps.indexerTypes}

pruneTiers(tiers, caps) == {t \in tiers : t.resolution \in caps.resolutions}

(***************************************************************************)
(* The configurations.                                                     *)
(***************************************************************************)
CommonResources(app, spec, config, secrets) ==
         compileDownloadClients(convertDownloadClients(spec.downloadClients, secrets), config)
    \cup compileRemotePathMappings(convertRemotePathMappings(spec.remotePathMappings))
    \cup compileIndexers(convertIndexers(spec.indexers, secrets), config)
    \cup compileImportListsToIR(app, convertImportLists(spec.importLists, secrets))
    \cup compileMediaManagementToIR(app, convertMediaManagement(spec.mediaManagement))
    \cup compileAuthenticationToIR(convertAuthentication(spec.authentication, secrets))
    \cup compileNotificationsToIR(convertNotifications(spec.notifications, secrets), config)

RootFolders(paths) == {Resource("RootFolder", NoId, UserName(p), NoCfg) : p \in paths}

\* Of the formats of the profile and those of the user Radarr's adapter reads
\* the former and Sonarr's the latter.
CompileRadarrConfig(spec, config, secrets, caps) ==
    LET video == compileVideoQuality(spec, config)
    IN  pruneUnsupported(CommonResources("radarr", spec, config, secrets), caps)
        \cup RootFolders(spec.rootFolders)
        \cup compileNaming("radarr", spec.naming)
        \cup compileDelayProfilesToIR(convertDelayProfiles(spec.delayProfiles))
        \cup {Resource("QualityProfile", NoId, ProfileName(config),
                       [tiers |-> pruneTiers(video.tiers, caps), cutoff |-> video.cutoff,
                        scores |-> video.scores])}
        \cup {Resource("CustomFormat", NoId, f.name,
                       CustomFormatSpecificationSpec(f.title, "", "")) : f \in video.formats}

CompileSonarrConfig(spec, config, secrets, caps) ==
    LET video == compileVideoQuality(spec, config)
    IN  pruneUnsupported(CommonResources("sonarr", spec, config, secrets), caps)
        \cup RootFolders(spec.rootFolders)
        \cup compileNaming("sonarr", spec.naming)
        \cup compileDelayProfilesToIR(convertDelayProfiles(spec.delayProfiles))
        \cup {Resource("QualityProfile", NoId, ProfileName(config),
                       [tiers |-> pruneTiers(video.tiers, caps), cutoff |-> video.cutoff,
                        scores |-> video.scores])}
        \cup compileCustomFormatsToIR(spec.customFormats, config)

\* The formats, the delay profiles and the monitor option of a root folder
\* are not handed on.
CompileLidarrConfig(spec, config, secrets, caps) ==
    pruneUnsupported(CommonResources("lidarr", spec, config, secrets), caps)
    \cup {Resource("RootFolder", NoId, UserName(r.path), [monitor |-> ""]) : r \in spec.rootFolders}
    \cup compileNaming("lidarr", spec.naming)
    \cup {Resource("QualityProfile", NoId, ProfileName(config), compileAudioQuality(spec))}

CompileReadarrConfig(spec, config, secrets, caps) ==
    pruneUnsupported(CommonResources("readarr", spec, config, secrets), caps)
    \cup RootFolders(spec.rootFolders)
    \cup {Resource("QualityProfile", NoId, ProfileName(config), compileBookQuality(q)) :
              q \in {r \in spec.quality : r.allowedFormats # {} \/ r.cutoff # ""}}
    \cup {compileMetadataProfile(p, config) : p \in spec.metadataProfile}

(***************************************************************************)
(* Prowlarr.  Nothing is pruned.                                           *)
(***************************************************************************)
compileProwlarrIndexers(indexers, config, secrets) ==
    {Resource("Indexer", NoId, Owned(config, i.name),
              [definition |-> i.definition, url |-> i.baseUrl, key |-> KeyOf(i.apiKeySecretRef, secrets)]) :
        i \in indexers}

compileProwlarrProxies(proxies, config, secrets) ==
    {LET cred == Credentials(p.credentialsSecretRef, secrets)
     IN  Resource("IndexerProxy", NoId, Owned(config, p.name),
                  [type |-> p.type, host |-> p.host, port |-> p.port, user |-> cred[1], cred |-> cred[2],
                   timeout |-> p.requestTimeout]) : p \in proxies}

\* The categories of an application are one name, "" for none.  An unknown
\* name is dropped, which leaves no category; only an empty list gets those
\* of the type.
mapProwlarrCategoryName(name) ==
    CASE name = "movies" -> "2000" [] name = "movies-webdl" -> "2010" [] name = "movies-dvd" -> "2020"
      [] name = "movies-sd" -> "2030" [] name = "movies-hd" -> "2040"
      [] name \in {"movies-uhd", "movies-4k"} -> "2045"
      [] name = "movies-bluray" -> "2050" [] name = "movies-3d" -> "2060"
      [] name = "tv" -> "5000" [] name \in {"tv-foreign", "tv-webdl"} -> "5010" [] name = "tv-dvd" -> "5020"
      [] name = "tv-sd" -> "5030" [] name = "tv-hd" -> "5040" [] name \in {"tv-uhd", "tv-4k"} -> "5045"
      [] name = "tv-sport" -> "5060" [] name = "tv-anime" -> "5070"
      [] name \in {"audio", "music"} -> "3000" [] name \in {"audio-mp3", "music-mp3"} -> "3010"
      [] name \in {"audio-video", "music-video"} -> "3020"
      [] name \in {"audio-foreign", "music-foreign"} -> "3030"
      [] name \in {"audio-lossless", "music-lossless", "audio-flac", "music-flac"} -> "3040"
      [] name = "books" -> "7000" [] name \in {"books-mags", "other"} -> "7010"
      [] name = "books-ebook" -> "7020" [] name = "books-comics" -> "7030" [] name = "misc" -> "7999"
      [] name = "xxx" -> "6000" [] name = "xxx-dvd" -> "6010" [] name = "xxx-wmv" -> "6020"
      [] name = "xxx-xvid" -> "6030" [] name = "xxx-x264" -> "6040" [] name = "xxx-other" -> "6050"
      [] OTHER -> ""

\* The whole range of the type.
DefaultSyncCategories == [radarr |-> "movies", sonarr |-> "tv", lidarr |-> "audio"]

convertProwlarrCategories(categories, type) ==
    IF categories = "" THEN DefaultSyncCategories[type] ELSE mapProwlarrCategoryName(categories)

compileProwlarrApplications(apps, config, prowlarrURL, secrets) ==
    {Resource("Application", NoId, Owned(config, a.name),
              [type |-> a.type, syncLevel |-> a.syncLevel, url |-> a.url, prowlarrUrl |-> prowlarrURL,
               key |-> KeyOf(a.apiKeySecretRef, secrets),
               categories |-> convertProwlarrCategories(a.syncCategories, a.type)]) : a \in apps}

compileProwlarrDownloadClients(clients, config, secrets) ==
    {LET cred == Credentials(c.credentialsSecretRef, secrets)
     IN  Resource("DownloadClient", NoId, Owned(config, c.name),
                  [impl |-> Implementation(c), host |-> parseClientURL(c.url), user |-> cred[1],
                   cred |-> cred[2], category |-> c.category]) : c \in clients}

CompileProwlarrConfig(spec, config, secrets) ==
         compileProwlarrIndexers(spec.indexers, config, secrets)
    \cup compileProwlarrProxies(spec.proxies, config, secrets)
    \cup compileProwlarrApplications(spec.applications, config, Text(spec.connection.url), secrets)
    \cup compileProwlarrDownloadClients(spec.downloadClients, config, secrets)

Compile(app, spec, config, secrets, caps) ==
    CASE app = "radarr"   -> CompileRadarrConfig(spec, config, secrets, caps)
      [] app = "sonarr"   -> CompileSonarrConfig(spec, config, secrets, caps)
      [] app = "lidarr"   -> CompileLidarrConfig(spec, config, secrets, caps)
      [] app = "readarr"  -> CompileReadarrConfig(spec, config, secrets, caps)
      [] app = "prowlarr" -> CompileProwlarrConfig(spec, config, secrets)

=============================================================================
