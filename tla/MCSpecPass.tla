----------------------------- MODULE MCSpecPass -----------------------------
(***************************************************************************)
(* Scenes for SpecPass: for each application a full specification and one  *)
(* it is edited to, over the states of the secrets that make a difference  *)
(* to it: complete, rotated, with a password missing, with the secret of   *)
(* the import list there but without keys, and deleted.  Smaller           *)
(* specifications go with two events, larger ones with one.                *)
(***************************************************************************)
EXTENDS SpecPass

MCNameHints == [c \in {"main", "spare"} |-> IF c = "spare" THEN {"transmission", "sabnzbd"} ELSE {}]

AllSecrets(version) ==
    [e \in {<<"api", "apiKey">>, <<"creds", "username">>, <<"creds", "password">>, <<"trakt", "token">>} |->
        version \o e[2]]

Without(e) == [f \in DOMAIN AllSecrets("v1 ") \ {e} |-> AllSecrets("v1 ")[f]]

Secrets(data) == [names |-> {"api", "creds", "trakt"}, data |-> data]

MCSecretSets ==
    [first   |-> Secrets(AllSecrets("v1 ")),
     rotated |-> Secrets(AllSecrets("v2 ")),
     partial |-> Secrets(Without(<<"creds", "password">>)),
     emptied |-> Secrets(Without(<<"trakt", "token">>)),
     deleted |-> [names |-> {}, data |-> <<>>]]

Connection == ConnectionSpec(URL("http", "app", 7878), SecretKeySelector("api", ""))
Creds      == CredentialsSecretRef("creds", "", "")
Api        == SecretKeySelector("api", "")
List       == ImportListSpec("l", "trakt", "", "", [f \in {"list", "token"} |-> "x"], SecretKeySelector("trakt", ""))

\* The type of the second client comes from its name.
Main(url)  == DownloadClientSpec("main", url, "qbittorrent", Creds, "c1")
Spare      == DownloadClientSpec("spare", URL("http", "s", 9091), "", None, "")
Unknown    == DownloadClientSpec("spare", URL("http", "s", 0), "deluge", None, "")

Direct(type) == DirectIndexer("ind", "u1", type, Api)

\* With and without Prowlarr; the address of the client moves behind TLS.
Full(base, quality, folders) ==
    [base EXCEPT !.quality = quality, !.rootFolders = folders,
                 !.downloadClients = {Main(URL("http", "h", 8080)), Spare},
                 !.indexers = IndexersSpec(None, {Direct("")})]

Edited(base, quality, folders) ==
    [base EXCEPT !.quality = quality, !.rootFolders = folders,
                 !.downloadClients = {Main(URL("https", "h", 0)), Unknown},
                 !.indexers = IndexersSpec(ProwlarrRef("p"), {Direct("usenet")})]

\* Parts that only Radarr, Sonarr and Lidarr apply.
WithParts(s, managed, on) ==
    [s EXCEPT !.authentication = AuthenticationSpec("forms", "u", SecretKeySelector("creds", "password"), ""),
              !.mediaManagement = MediaManagementSpec(managed, ""),
              !.notifications = {NotificationSpec("n", on, "u", None)}]

Minimal(base, managed) ==
    [base EXCEPT !.naming = NamingSpec("detailed"),
                 !.importLists = {List},
                 !.mediaManagement = MediaManagementSpec(managed, ""),
                 !.remotePathMappings = {RemotePathMappingSpec("h", "/r", "/l")}]

Video  == VideoQualitySpec("720p", Screeners, {}, {})
Audio  == AudioQualitySpec("high-quality", {}, {})
Books  == ReadarrQualitySpec({ReadarrFormatSpec("EPUB", TRUE), ReadarrFormatSpec("PDF", FALSE)}, "EPUB")

Formats == {CustomFormatSpec("f", 10, CustomFormatSpecificationSpec("t", "", ""))}

SonarrItems ==
    << [id |-> 6, group |-> FALSE, qualities |-> {[id |-> 6, source |-> "bluray", resolution |-> 720]}],
       [id |-> 5, group |-> FALSE, qualities |-> {[id |-> 5, source |-> "web", resolution |-> 720]}] >>

RadarrItems ==
    << [id |-> 6, group |-> FALSE, qualities |-> {[id |-> 6, source |-> "bluray", resolution |-> 720]}],
       [id |-> 2, group |-> FALSE, qualities |-> {[id |-> 2, source |-> "dvd", resolution |-> 480]}] >>

LidarrItems == << [id |-> 1005, name |-> "Lossless", quality |-> "", allowed |-> FALSE] >>

Singleton(kind, id, cfg) == [kind |-> kind, id |-> id, name |-> <<>>, ours |-> FALSE, cfg |-> cfg]

Installed(naming, media) ==
    {Singleton("NamingConfig", 1, naming), Singleton("MediaManagement", 2, media),
     Singleton("Authentication", 3, [method |-> "None", required |-> "Enabled", username |-> "", password |-> ""])}

Types == [clients |-> {"QBittorrent", "Transmission"}, indexers |-> {"Torznab", "Newznab"}]

Scene(bound, full, edited, stores, schema, installed) ==
    [events |-> bound, specs |-> [full |-> full, edited |-> edited],
     secretSets |-> [n \in stores |-> MCSecretSets[n]], schema |-> schema,
     lists |-> {[type |-> "trakt", fields |-> {"list", "token"}]}, types |-> Types, installed |-> installed]

RadarrScene ==
    Scene(1, WithParts(Full(RadarrConfigSpec(Connection), Video, {"/a"}), "m1", "grab"),
          Edited(Minimal(RadarrConfigSpec(Connection), "m2"), Video, {"/a", "/b"}),
          DOMAIN MCSecretSets,
          [cutoff |-> 6, items |-> RadarrItems],
          Installed([format |-> "f0", colon |-> "dash"], [managed |-> "m0"]))

SonarrScene ==
    Scene(1, [WithParts(Full(SonarrConfigSpec(Connection), Video, {"/a"}), "m1", "grab") EXCEPT
               !.customFormats = Formats, !.delayProfiles = <<DelayProfileSpec("d", "", 0)>>],
          Edited(Minimal(SonarrConfigSpec(Connection), "m2"), Video, {}),
          DOMAIN MCSecretSets, SonarrItems, Installed([format |-> "f0", style |-> "s"], [managed |-> "m0"]))

LidarrScene ==
    Scene(2, [Full(LidarrConfigSpec(Connection), Audio, {LidarrRootFolder("/a", "")}) EXCEPT
                  !.authentication =
                      AuthenticationSpec("forms", "u", SecretKeySelector("creds", "password"), "")],
          [Edited(LidarrConfigSpec(Connection), Audio, {}) EXCEPT
                  !.importLists = {List}],
          {"first", "rotated", "emptied"}, LidarrItems,
          Installed([format |-> "f0", style |-> "s"], [managed |-> "m0", fingerprint |-> ""]))

ReadarrScene ==
    Scene(2, Full(ReadarrConfigSpec(Connection), Books, {"/a"}),
          [Edited(ReadarrConfigSpec(Connection), Books, {}) EXCEPT
               !.metadataProfile = ReadarrMetadataProfileSpec("", "1")],
          {"rotated", "partial", "deleted"}, {[id |-> 3, name |-> "EPUB"]}, {})

Application(url) == ProwlarrApplication("radarr", "radarr", url, Api, "", "")

ProwlarrScene ==
    Scene(2, [ProwlarrConfigSpec(Connection) EXCEPT
               !.indexers = {ProwlarrIndexer("ind", "nyaa", "u1", Api)},
               !.applications = {Application("http://r")},
               !.proxies = {IndexerProxy("px", "flaresolverr", "f", "", None, "")}],
          [ProwlarrConfigSpec(Connection) EXCEPT
               !.applications = {Application("http://q")},
               !.proxies = {IndexerProxy("px", "http", "f", "80", Creds, "")},
               !.downloadClients = {Main(URL("https", "h", 0))}],
          {"rotated", "partial", "deleted"}, {}, {})

MCScenes ==
    [radarr |-> RadarrScene, sonarr |-> SonarrScene, lidarr |-> LidarrScene,
     readarr |-> ReadarrScene, prowlarr |-> ProwlarrScene]

=============================================================================
