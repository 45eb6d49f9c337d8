---------------------------- MODULE MCAdapterPass ----------------------------
(***************************************************************************)
(* Scenes for AdapterPass: every kind of resource of every adapter, with   *)
(* two values for what is compared and, in the first value, something that *)
(* is written and not compared.                                            *)
(***************************************************************************)
EXTENDS AdapterPass, TLC

\* The desired configurations of one kind: nothing, n1, or n1 with another
\* value and n2; singletons and quality profiles are desired once.
Configs(kind, c1, c2) ==
    LET d(n, c) == Resource(kind, NoId, n, c)
    IN  IF kind \in Singletons
        THEN {{}, {d("", c1)}, {d("", c2)}}
        ELSE IF kind = "QualityProfile"
        THEN {{}, {d("n1", c1)}, {d("n1", c2)}}
        ELSE {{}, {d("n1", c1)}, {d("n1", c2), d("n2", c1)}}

\* Kinds for which the user may remove a resource and make another of its
\* name within one pass.
Replaced == {"DownloadClient", "MetadataProfile"}

Scene(app, kind, c1, c2, raw, schema, lists) ==
    [app |-> app, kind |-> kind, irs |-> Configs(kind, c1, c2), raw |-> raw,
     schema |-> schema, lists |-> lists, drifts |-> IF kind \in Replaced /\ app # "radarr" THEN 2 ELSE 1]

ArrClient(host, category) == [impl |-> "QBittorrent", host |-> host, cred |-> "u", category |-> category]
ArrIndexer(url)           == [url |-> url, key |-> "k"]
RawClient(field)          == {[impl |-> "QBittorrent", host |-> "h1", username |-> "x"] @@ (field :> "c9")}
RawIndexer                == {[baseUrl |-> "u9", apiKey |-> "k"]}

\* Sonarr: 720p television, a group of 1080p web releases, 1080p bluray.
SonarrSchema ==
    << [id |-> 4, group |-> FALSE,
        qualities |-> {[id |-> 4, source |-> "television", resolution |-> 720]}],
       [id |-> 1001, group |-> TRUE,
        qualities |-> {[id |-> 3, source |-> "web", resolution |-> 1080],
                       [id |-> 15, source |-> "webRip", resolution |-> 1080]}],
       [id |-> 7, group |-> FALSE,
        qualities |-> {[id |-> 7, source |-> "bluray", resolution |-> 1080]}] >>

SonarrTier(res, sources) == [resolution |-> res, sources |-> sources, allowed |-> TRUE]

SonarrProfile(cutoff) ==
    [tiers |-> {SonarrTier("1080p", {"webdl"}), SonarrTier("720p", {"hdtv"})},
     cutoff |-> cutoff, scores |-> [f \in {"fmt"} |-> 10]]

LidarrSchema ==
    << [id |-> 1005, name |-> "Lossless", quality |-> "", allowed |-> FALSE],
       [id |-> 2, name |-> "", quality |-> "MP3-320", allowed |-> FALSE] >>

LidarrProfile(cutoff) ==
    [tiers |-> {[tier |-> "lossless", allowed |-> TRUE], [tier |-> "lossy-high", allowed |-> TRUE]},
     cutoff |-> cutoff]

ReadarrQualities == {[id |-> 3, name |-> "EPUB"], [id |-> 4, name |-> "PDF"]}

ReadarrProfile(cutoff) ==
    [tiers |-> {[name |-> "Text", formats |-> {"EPUB", "PDF"}, allowed |-> TRUE]}, cutoff |-> cutoff]

RawProfile == {[items |-> {}, cutoff |-> 1, formatItems |-> {}]}

ImportSchemas == {[type |-> "trakt", fields |-> {"list"}]}
ImportConfig(type, list) ==
    [type |-> type, monitor |-> "", settings |-> [f \in {"list", "other"} |-> list]]
RawImport ==
    {[type |-> "trakt", shouldMonitor |-> "none", monitor |-> "none", fields |-> [f \in {"list"} |-> "l9"]]}

\* What Radarr, Sonarr and Lidarr have in common.
ArrScenes(app, categoryField) ==
    { Scene(app, "DownloadClient", ArrClient("h1", "c1"), ArrClient("h1", "c2"),
            RawClient(categoryField), <<>>, {}),
      Scene(app, "Indexer", ArrIndexer("u1"), ArrIndexer("u2"), RawIndexer, <<>>, {}),
      Scene(app, "Notification", [on |-> "grab", url |-> "u1"], [on |-> "grab", url |-> "u2"],
            {[on |-> "none", url |-> "u1"]}, <<>>, {}),
      Scene(app, "RemotePathMapping", [localPath |-> "p1"], [localPath |-> "p2"],
            {[localPath |-> "p9"]}, <<>>, {}),
      Scene(app, "CustomFormat", [title |-> "t1", source |-> "", resolution |-> ""],
            [title |-> "t2", source |-> "", resolution |-> ""],
            {[title |-> "t9", source |-> "", resolution |-> ""]}, <<>>, {}),
      Scene(app, "DelayProfile", [delay |-> "d1", tags |-> ""], [delay |-> "d2", tags |-> ""],
            {[delay |-> "d9"]}, <<>>, {}),
      Scene(app, "ImportList", ImportConfig("trakt", "l1"), ImportConfig("unknown", "l1"),
            RawImport, <<>>, ImportSchemas),
      Scene(app, "Authentication",
            [method |-> "forms", required |-> "enabled", username |-> "u", password |-> ""],
            [method |-> "none", required |-> "enabled", username |-> "", password |-> "p"],
            {[method |-> "Basic", required |-> "Enabled", username |-> "x", password |-> "x"]}, <<>>, {}) }

\* Naming of Sonarr and Lidarr.
NamingScene(app) ==
    Scene(app, "NamingConfig", [format |-> "f1", style |-> "s"], [format |-> "f2", style |-> "s"],
          {[format |-> "f9", style |-> "t"]}, <<>>, {})

RadarrSchema ==
    [cutoff |-> 4,
     items  |-> << [id |-> 4, group |-> FALSE,
                    qualities |-> {[id |-> 4, source |-> "hdtv", resolution |-> 720]}],
                   [id |-> 1002, group |-> TRUE,
                    qualities |-> {[id |-> 3, source |-> "webdl", resolution |-> 1080],
                                   [id |-> 15, source |-> "webrip", resolution |-> 1080]}],
                   [id |-> 7, group |-> FALSE,
                    qualities |-> {[id |-> 7, source |-> "bluray", resolution |-> 1080]}] >>]

RadarrProfile(cutoff) ==
    [tiers |-> {SonarrTier("1080p", {"bluray", "webdl"}), SonarrTier("720p", {"hdtv"})},
     cutoff |-> cutoff, scores |-> [f \in {"fmt"} |-> 10]]

\* The second profile has its cutoff within a group, which Radarr refuses.
RadarrScenes ==
    ArrScenes("radarr", "movieCategory") \cup
    { Scene("radarr", "QualityProfile", RadarrProfile(SonarrTier("1080p", {"bluray"})),
            RadarrProfile(SonarrTier("1080p", {"webdl"})), RawProfile, RadarrSchema, {}),
      Scene("radarr", "RootFolder", NoCfg, NoCfg, {NoCfg}, <<>>, {}),
      Scene("radarr", "DownloadClient", ArrClient("h1", ""), ArrClient("h2", ""),
            RawClient("movieCategory"), <<>>, {}),
      Scene("radarr", "NamingConfig", [format |-> "f1", style |-> "space"],
            [format |-> "f1", style |-> "smart"], {[format |-> "f9", colon |-> "dash"]}, <<>>, {}),
      Scene("radarr", "CustomFormat", [title |-> "t1", source |-> "webdl", resolution |-> "r720p"],
            [title |-> "t1", source |-> "bluray", resolution |-> ""],
            {[title |-> "t9", source |-> "7", resolution |-> ""]}, <<>>, {}),
      Scene("radarr", "MediaManagement", [managed |-> "m1"], [managed |-> "m2"],
            {[managed |-> "m9", other |-> "o"]}, <<>>, {}) }

SonarrScenes ==
    ArrScenes("sonarr", "tvCategory") \cup
    { NamingScene("sonarr"),
      Scene("sonarr", "QualityProfile", SonarrProfile(SonarrTier("1080p", {"webdl"})),
            SonarrProfile(SonarrTier("720p", {"hdtv"})), RawProfile, SonarrSchema, {}),
      Scene("sonarr", "RootFolder", NoCfg, NoCfg, {NoCfg}, <<>>, {}),
      Scene("sonarr", "CustomFormat", [title |-> "t1", source |-> "webdl", resolution |-> "r720p"],
            [title |-> "t1", source |-> "bluray", resolution |-> ""],
            {[title |-> "t9", source |-> "3", resolution |-> ""]}, <<>>, {}),
      Scene("sonarr", "MediaManagement", [managed |-> "m1"], [managed |-> "m2"],
            {[managed |-> "m9", other |-> "o"]}, <<>>, {}) }

LidarrScenes ==
    ArrScenes("lidarr", "musicCategory") \cup
    { NamingScene("lidarr"),
      Scene("lidarr", "QualityProfile", LidarrProfile("lossless"), LidarrProfile("lossy-high"),
            RawProfile, LidarrSchema, {}),
      Scene("lidarr", "RootFolder", [monitor |-> ""], [monitor |-> "new"],
            {[monitor |-> "none", profile |-> 1]}, <<>>, {}),
      Scene("lidarr", "MediaManagement", [managed |-> "m1", fingerprint |-> ""],
            [managed |-> "m2", fingerprint |-> "f"], {[managed |-> "m9", fingerprint |-> "x"]}, <<>>, {}) }

ReadarrScenes ==
    { Scene("readarr", "QualityProfile", ReadarrProfile("EPUB"), ReadarrProfile("PDF"),
            {[items |-> {}, cutoff |-> 1]}, ReadarrQualities, {}),
      Scene("readarr", "MetadataProfile", [minPopularity |-> "1"], [minPopularity |-> "2"],
            {[minPopularity |-> "9"]}, {}, {}),
      Scene("readarr", "DownloadClient", ArrClient("h1", "c1"), ArrClient("h1", "c2"),
            RawClient("bookCategory"), {}, {}),
      Scene("readarr", "Indexer", ArrIndexer("u1"), ArrIndexer("u2"), RawIndexer, {}, {}),
      Scene("readarr", "RootFolder", NoCfg, NoCfg, {NoCfg}, {}, {}) }

ProwlarrApplication(url, categories) ==
    [type |-> "radarr", syncLevel |-> "fullSync", url |-> url, prowlarrUrl |-> "p", key |-> "k",
     categories |-> categories]

ProwlarrProxy(type, host, timeout) ==
    IF type = "flaresolverr"
    THEN [type |-> type, host |-> host, port |-> "", user |-> "", cred |-> "", timeout |-> timeout]
    ELSE [type |-> type, host |-> host, port |-> "8080", user |-> "u", cred |-> "p", timeout |-> timeout]

ProwlarrScenes ==
    { Scene("prowlarr", "Indexer", [definition |-> "nyaa", url |-> "u1", key |-> "k"],
            [definition |-> "nyaa", url |-> "u2", key |-> ""],
            {[definition |-> "nyaa", baseUrl |-> "u9"]}, <<>>, {}),
      Scene("prowlarr", "IndexerProxy", ProwlarrProxy("flaresolverr", "h1", "60"),
            ProwlarrProxy("http", "h1", ""), {[implementation |-> "Http", host |-> "h9"]}, <<>>, {}),
      Scene("prowlarr", "Application", ProwlarrApplication("u1", "movies"),
            ProwlarrApplication("u2", ""), {[implementation |-> "Radarr", baseUrl |-> "u9"]}, <<>>, {}),
      Scene("prowlarr", "DownloadClient",
            [impl |-> "qbittorrent", host |-> "h1", user |-> "u", cred |-> "p", category |-> "c1"],
            [impl |-> "qbittorrent", host |-> "h2", user |-> "u", cred |-> "p", category |-> ""],
            {[implementation |-> "Deluge", host |-> "h9"]}, <<>>, {}) }

AllScenes == RadarrScenes \cup SonarrScenes \cup LidarrScenes \cup ReadarrScenes \cup ProwlarrScenes

MCServices  == {"a", "b"}
MCUserNames == {"u1"}

=============================================================================
