--------------------------- MODULE MCClientSession ---------------------------
(***************************************************************************)
(* One or two specifications for each download client, which between them  *)
(* use every rule of DownloadSettings, and what the client is to hold for  *)
(* them, written down by hand.                                             *)
(***************************************************************************)
EXTENDS ClientSession, TLC

MCSpecs ==
    [transmission |->
        [app |-> "Transmission", refused |-> {},
         sections |-> [TransmissionSpec EXCEPT
            !.altSpeed = {[TransmissionAltSpeedSpec EXCEPT !.enabled = TRUE, !.down = 50,
                                                           !.timeDays = <<1, 7, 9>>]},
            !.seeding  = {[TransmissionSeedingSpec EXCEPT !.ratioLimit = "1.5", !.ratioLimited = TRUE]},
            !.security = {[TransmissionSecuritySpec EXCEPT !.dhtEnabled = {FALSE}]}]],
     transmissionRefused |->
        [app |-> "Transmission", refused |-> {"download-dir"},
         sections |-> [TransmissionSpec EXCEPT
            !.directories = {[TransmissionDirectoriesSpec EXCEPT !.download = "/bad"]},
            !.peers       = {[TransmissionPeersSpec EXCEPT !.port = 51413]}]],
     qbittorrent |->
        [app |-> "QBittorrent", refused |-> {},
         sections |-> [QBittorrentSpec EXCEPT
            !.speed    = {[QBittorrentSpeedSpec EXCEPT !.downloadLimit = 10, !.uploadLimit = 5,
                                                       !.globalDownloadSpeedLimit = 20]},
            !.altSpeed = {QBittorrentAltSpeedSpec},
            !.seeding  = {[QBittorrentSeedingSpec EXCEPT !.maxRatio = "2x", !.maxRatioAction = {0}]}]],
     qbittorrentEmpty |->
        [app |-> "QBittorrent", refused |-> {}, sections |-> QBittorrentSpec],
     deluge |->
        [app |-> "Deluge", refused |-> {},
         sections |-> [DelugeSpec EXCEPT
            !.speed       = {[DelugeSpeedSpec EXCEPT !.maxUploadSpeed = 0]},
            !.connections = {[DelugeConnectionsSpec EXCEPT !.listenPorts = <<6881, 6889>>]}]],
     rtorrent |->
        [app |-> "RTorrent", refused |-> {},
         sections |-> [RTorrentSpec EXCEPT
            !.speed    = {[RTorrentSpeedSpec EXCEPT !.downloadRate = 10]},
            !.protocol = {[RTorrentProtocolSpec EXCEPT !.dht = {FALSE}]}]],
     sabnzbd |->
        [app |-> "SABnzbd", refused |-> {"speedlimit"},
         sections |-> [SABnzbdSpec EXCEPT
            !.speed = {[SABnzbdSpeedSpec EXCEPT !.speedLimit = 100]},
            !.queue = {[SABnzbdQueueSpec EXCEPT !.preCheck = TRUE, !.maxRetries = 3]}]],
     sabnzbdPaused |->
        [app |-> "SABnzbd", refused |-> {},
         sections |-> [SABnzbdSpec EXCEPT
            !.speed = {[SABnzbdSpeedSpec EXCEPT !.pauseDownloads = TRUE]}]],
     nzbget |->
        [app |-> "NZBGet", refused |-> {},
         sections |-> [NZBGetSpec EXCEPT
            !.speed          = {[NZBGetSpeedSpec EXCEPT !.downloadRate = 500]},
            !.queue          = {[NZBGetQueueSpec EXCEPT !.dupeCheck = TRUE]},
            !.postProcessing = {[NZBGetPostProcessingSpec EXCEPT !.unpack = {FALSE}]}]],
     nzbgetRefused |->
        [app |-> "NZBGet", refused |-> {"WriteBuffer"},
         sections |-> [NZBGetSpec EXCEPT
            !.speed = {[NZBGetSpeedSpec EXCEPT !.writeBuffer = 9]},
            !.queue = {[NZBGetQueueSpec EXCEPT !.healthCheck = "pause"]}]]]

\* Monday is bit 1 and Sunday bit 0; a day 9 does not exist.  A speed of 0 is not
\* sent to Deluge, a daily limit of 0 and a flag FALSE are sent where the code
\* does not ask for more.
MCExpected ==
    [transmission |->
        [k \in {"alt-speed-enabled", "seedRatioLimited"} |-> TRUE]
        @@ [k \in {"alt-speed-time-enabled", "idle-seeding-limit-enabled", "dht-enabled"} |-> FALSE]
        @@ [k \in {"alt-speed-up", "alt-speed-time-begin", "alt-speed-time-end", "idle-seeding-limit"} |-> 0]
        @@ ("alt-speed-down" :> 50) @@ ("alt-speed-time-day" :> 3)
        @@ ("seedRatioLimit" :> <<3, 2>>) @@ ("encryption" :> "preferred"),
     transmissionRefused |-> Query,
     qbittorrent |->
        [k \in {"alt_dl_limit", "alt_up_limit", "schedule_from_hour", "schedule_from_min",
                "schedule_to_hour", "schedule_to_min", "max_ratio_act"} |-> 0]
        @@ [k \in {"scheduler_enabled", "max_ratio_enabled", "max_seeding_time_enabled"} |-> FALSE]
        @@ ("dl_limit" :> 20480) @@ ("up_limit" :> 5120) @@ ("max_ratio" :> <<2, 1>>),
     qbittorrentEmpty |-> Query,
     deluge |->
        [k \in {"max_download_speed", "max_download_speed_per_torrent", "max_upload_speed_per_torrent"} |-> -1]
        @@ ("listen_ports" :> <<6881, 6889>>) @@ ("random_port" :> FALSE),
     rtorrent |-> ("throttle.global_down.max_rate" :> 10240) @@ ("dht.mode" :> "off"),
     sabnzbd |-> ("speedlimit" :> <<"%d", 100>>) @@ ("pre_check" :> "1") @@ ("max_art_tries" :> <<"%d", 3>>),
     sabnzbdPaused |-> ("paused" :> TRUE),
     nzbget |-> ("rate" :> 500) @@ ("DupeCheck" :> "yes") @@ ("Unpack" :> "no"),
     nzbgetRefused |-> ("WriteBuffer" :> <<"%d", 9>>) @@ ("HealthCheck" :> "pause")]

ASSUME SentIsExpected == ExpectedIsSent

\* Fields that the user may set and the code never reads.
UnreadIn(client, section, record, fields) == Unread(client, section, record) = fields

ASSUME UnreadFields ==
    /\ UnreadIn("QBittorrent", "altSpeed", QBittorrentAltSpeedSpec, {"enabled"})
    /\ UnreadIn("RTorrent", "directories", RTorrentDirectoriesSpec, {"sessionDirectory"})
    /\ UnreadIn("RTorrent", "seeding", RTorrentSeedingSpec, DOMAIN RTorrentSeedingSpec)
    /\ UnreadIn("RTorrent", "connections", RTorrentConnectionsSpec,
                {"maxPeersPerTorrent", "maxUploadsPerTorrent", "port", "portRange", "portRandomize"})
    /\ UnreadIn("RTorrent", "protocol", RTorrentProtocolSpec, {"pex"})
    /\ UnreadIn("SABnzbd", "speed", SABnzbdSpeedSpec, {"speedLimitPercentage"})
    /\ UnreadIn("SABnzbd", "queue", SABnzbdQueueSpec, {"connections"})
    /\ UnreadIn("SABnzbd", "postProcessing", SABnzbdPostProcessingSpec,
                {"enabled", "quickCheck", "scriptEnabled"})
    /\ UnreadIn("NZBGet", "queue", NZBGetQueueSpec, {"flushQueue"})
    /\ UnreadIn("NZBGet", "postProcessing", NZBGetPostProcessingSpec, {"scriptOrder"})
    /\ \A s \in {<<"Transmission", "altSpeed", TransmissionAltSpeedSpec>>,
                 <<"Transmission", "queue", TransmissionQueueSpec>>,
                 <<"Deluge", "connections", DelugeConnectionsSpec>>,
                 <<"NZBGet", "directories", NZBGetDirectoriesSpec>>} : UnreadIn(s[1], s[2], s[3], {})

MCTouchable == {"alt-speed-down", "up_limit", "random_port", "dht.mode", "pre_check", "rate"}

=============================================================================
