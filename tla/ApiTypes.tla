------------------------------ MODULE ApiTypes ------------------------------
(***************************************************************************)
(* The configuration types of api/v1alpha1, as the API server stores them. *)
(* An operator builds the stored value of a struct from what the user      *)
(* writes: "" and {} are fields left out, which get the value of their     *)
(* default marker.  A pointer is a set with at most one element.  Valid*   *)
(* are the enumeration and pattern markers: the API server refuses other   *)
(* objects.                                                                *)
(*                                                                         *)
(* Lists whose order nothing depends on are sets; fields that no operation *)
(* tells apart are gathered in one (`managed', `on', `delay').  The URL of *)
(* a connection or a client is [scheme, host, port], port 0 when it is not *)
(* written; other URLs are not taken apart.                                *)
(***************************************************************************)
EXTENDS Naturals, Sequences, FiniteSets, TLC

None == {}

Or(value, default) == IF value = "" THEN default ELSE value

URL(scheme, host, port) == [scheme |-> scheme, host |-> host, port |-> port]
Text(url) == url.scheme \o "://" \o url.host \o ":" \o ToString(url.port)

(***************************************************************************)
(* References.  Every use of SecretKeySelector has the default key apiKey, *)
(* also the ones for passwords and for settings.                           *)
(***************************************************************************)
SecretKeySelector(name, key) == {[name |-> name, key |-> Or(key, "apiKey")]}

CredentialsSecretRef(name, usernameKey, passwordKey) ==
    {[name |-> name, usernameKey |-> Or(usernameKey, "username"),
      passwordKey |-> Or(passwordKey, "password")]}

ConnectionSpec(url, apiKeySecretRef) == [url |-> url, apiKeySecretRef |-> apiKeySecretRef]
ValidConnectionSpec(c) == c.url.scheme \in {"http", "https"}

(***************************************************************************)
(* Quality.  The fields of the manual mode (tiers, upgradeUntil, the       *)
(* formats) and templateRef are stored and never read.                     *)
(***************************************************************************)
VideoQualitySpec(preset, exclude, preferAdditional, rejectAdditional) ==
    {[preset |-> preset, exclude |-> exclude, preferAdditional |-> preferAdditional,
      rejectAdditional |-> rejectAdditional]}

AudioQualitySpec(preset, exclude, preferAdditional) ==
    {[preset |-> preset, exclude |-> exclude, preferAdditional |-> preferAdditional]}
ValidAudioQualitySpec(q) ==
    q.preset \in {"", "lossless-hires", "lossless", "high-quality", "balanced", "portable", "any"}

ReadarrFormatSpec(format, allowed) == [format |-> format, allowed |-> allowed]
ReadarrQualitySpec(allowedFormats, cutoff) == {[allowedFormats |-> allowedFormats, cutoff |-> cutoff]}
ValidReadarrQualitySpec(q) ==
    \A f \in q.allowedFormats :
        f.format \in {"EPUB", "MOBI", "AZW3", "PDF", "FLAC", "MP3", "M4B", "Unknown"}

ReadarrMetadataProfileSpec(name, minPopularity) == {[name |-> name, minPopularity |-> minPopularity]}

(***************************************************************************)
(* Parts of a configuration.                                               *)
(***************************************************************************)
DownloadClientSpec(name, url, type, credentialsSecretRef, category) ==
    [name |-> name, url |-> url, type |-> type, credentialsSecretRef |-> credentialsSecretRef,
     category |-> category]
ValidDownloadClientSpec(c) ==
    c.type \in {"", "qbittorrent", "transmission", "deluge", "rtorrent", "nzbget", "sabnzbd"}

RemotePathMappingSpec(host, remotePath, localPath) ==
    [host |-> host, remotePath |-> remotePath, localPath |-> localPath]

ProwlarrRef(name) == {[name |-> name, autoRegister |-> TRUE]}

IndexersSpec(prowlarrRef, direct) == {[prowlarrRef |-> prowlarrRef, direct |-> direct]}

DirectIndexer(name, url, type, apiKeySecretRef) ==
    [name |-> name, url |-> url, type |-> Or(type, "torrent"), apiKeySecretRef |-> apiKeySecretRef]
ValidDirectIndexer(i) == i.type \in {"torrent", "usenet"}

NamingSpec(preset) == {[preset |-> Or(preset, "plex-friendly")]}
ValidNamingSpec(n) ==
    n.preset \in {"plex-friendly", "jellyfin-friendly", "kodi-friendly", "detailed", "minimal", "scene"}

LidarrRootFolder(path, defaultMonitor) == [path |-> path, defaultMonitor |-> Or(defaultMonitor, "all")]

ImportListSpec(name, type, monitor, shouldMonitor, settings, settingsSecretRef) ==
    [name |-> name, type |-> type, monitor |-> Or(monitor, "movieOnly"),
     shouldMonitor |-> Or(shouldMonitor, "all"), settings |-> settings,
     settingsSecretRef |-> settingsSecretRef]
ValidImportListSpec(l) ==
    /\ l.monitor \in {"movieOnly", "movieAndCollection", "none"}
    /\ l.shouldMonitor \in {"all", "future", "missing", "existing", "firstSeason", "latestSeason",
                            "pilot", "none"}

MediaManagementSpec(managed, allowFingerprinting) ==
    {[managed |-> Or(managed, "7 days, 755, hardlinks"), allowFingerprinting |-> allowFingerprinting]}
ValidMediaManagementSpec(m) == m.allowFingerprinting \in {"", "never", "newFiles", "always"}

AuthenticationSpec(method, username, passwordSecretRef, authenticationRequired) ==
    {[method |-> Or(method, "none"), username |-> username, passwordSecretRef |-> passwordSecretRef,
      authenticationRequired |-> Or(authenticationRequired, "enabled")]}
ValidAuthenticationSpec(a) ==
    /\ a.method \in {"none", "forms", "external"}
    /\ a.authenticationRequired \in {"enabled", "disabledForLocalAddresses"}

\* What its specifications match, of each of the types that the adapters convert.
CustomFormatSpecificationSpec(title, source, resolution) ==
    [title |-> title, source |-> source, resolution |-> resolution]
CustomFormatSpec(name, score, specifications) ==
    [name |-> name, score |-> score, specifications |-> specifications]

\* order is 0 when it is left out; when it is written it is at least 1.
DelayProfileSpec(delay, tags, order) == [delay |-> delay, tags |-> tags, order |-> order]

NotificationSpec(name, on, url, settingsSecretRef) ==
    [name |-> name, on |-> on, url |-> url, settingsSecretRef |-> settingsSecretRef]

(***************************************************************************)
(* Prowlarr's parts.                                                       *)
(***************************************************************************)
ProwlarrIndexer(name, definition, baseUrl, apiKeySecretRef) ==
    [name |-> name, definition |-> definition, baseUrl |-> baseUrl, apiKeySecretRef |-> apiKeySecretRef]

IndexerProxy(name, type, host, port, credentialsSecretRef, requestTimeout) ==
    [name |-> name, type |-> type, host |-> host, port |-> port,
     credentialsSecretRef |-> credentialsSecretRef, requestTimeout |-> Or(requestTimeout, "60")]
ValidIndexerProxy(p) == p.type \in {"flaresolverr", "http", "socks4", "socks5"}

ProwlarrApplication(name, type, url, apiKeySecretRef, syncCategories, syncLevel) ==
    [name |-> name, type |-> type, url |-> url, apiKeySecretRef |-> apiKeySecretRef,
     syncCategories |-> syncCategories, syncLevel |-> Or(syncLevel, "fullSync")]
ValidProwlarrApplication(a) ==
    a.type \in {"radarr", "sonarr", "lidarr"} /\ a.syncLevel \in {"disabled", "addOnly", "fullSync"}

(***************************************************************************)
(* Specifications with nothing but a connection.                           *)
(***************************************************************************)
RadarrConfigSpec(connection) ==
    [connection |-> connection, quality |-> None, downloadClients |-> {}, remotePathMappings |-> {},
     indexers |-> None, naming |-> None, rootFolders |-> {}, importLists |-> {},
     mediaManagement |-> None, authentication |-> None, notifications |-> {},
     customFormats |-> {}, delayProfiles |-> <<>>]

\* releaseProfiles is stored and never read.
SonarrConfigSpec(connection) == RadarrConfigSpec(connection)

\* metadata is stored and never read.
LidarrConfigSpec(connection) == RadarrConfigSpec(connection)

\* Readarr has no custom formats and no delay profiles, but a metadata profile.
ReadarrConfigSpec(connection) ==
    LET common == RadarrConfigSpec(connection)
    IN  [f \in (DOMAIN common \ {"customFormats", "delayProfiles"}) \cup {"metadataProfile"} |->
            IF f = "metadataProfile" THEN None ELSE common[f]]

\* authentication is stored and never read.
ProwlarrConfigSpec(connection) ==
    [connection |-> connection, indexers |-> {}, proxies |-> {}, applications |-> {},
     downloadClients |-> {}]

ValidProwlarrConfigSpec(s) ==
    /\ ValidConnectionSpec(s.connection)
    /\ \A c \in s.downloadClients : ValidDownloadClientSpec(c)
    /\ \A p \in s.proxies : ValidIndexerProxy(p)
    /\ \A a \in s.applications : ValidProwlarrApplication(a)

ValidArrConfigSpec(app, s) ==
    /\ ValidConnectionSpec(s.connection)
    /\ \A q \in s.quality : CASE app = "lidarr"  -> ValidAudioQualitySpec(q)
                              [] app = "readarr" -> ValidReadarrQualitySpec(q)
                              [] OTHER           -> TRUE
    /\ \A c \in s.downloadClients : ValidDownloadClientSpec(c)
    /\ \A x \in s.indexers : \A i \in x.direct : ValidDirectIndexer(i)
    /\ \A n \in s.naming : ValidNamingSpec(n)
    /\ \A l \in s.importLists : ValidImportListSpec(l)
    /\ \A m \in s.mediaManagement : ValidMediaManagementSpec(m)
    /\ \A a \in s.authentication : ValidAuthenticationSpec(a)

ValidSpec(app, s) ==
    IF app = "prowlarr" THEN ValidProwlarrConfigSpec(s) ELSE ValidArrConfigSpec(app, s)

=============================================================================
