-------------------------- MODULE DownloadSettings --------------------------
(***************************************************************************)
(* What the sections of a download client's specification make the         *)
(* controller send to that client.                                         *)
(*                                                                         *)
(* A specification maps the name of each section to {} (nil) or to {r}, r  *)
(* being the section's record with the defaults filled in.  A pointer is   *)
(* {} or {v}.  Texts are opaque, except that a ratio is a number or not.   *)
(***************************************************************************)
EXTENDS Integers, Sequences

None == {}

(***************************************************************************)
(* The sections, as they are stored when the user leaves every field out.  *)
(***************************************************************************)
TransmissionSpeedSpec ==
    [downloadLimit |-> 0, downloadLimitEnabled |-> FALSE, uploadLimit |-> 0, uploadLimitEnabled |-> FALSE]
TransmissionAltSpeedSpec ==
    [enabled |-> FALSE, down |-> 0, up |-> 0, timeEnabled |-> FALSE, timeBegin |-> 0, timeEnd |-> 0,
     timeDays |-> <<>>]
TransmissionDirectoriesSpec == [download |-> "", incomplete |-> "", incompleteEnabled |-> FALSE]
TransmissionSeedingSpec ==
    [ratioLimit |-> "", ratioLimited |-> FALSE, idleLimit |-> 0, idleLimitEnabled |-> FALSE]
TransmissionQueueSpec ==
    [downloadSize |-> 0, downloadEnabled |-> FALSE, seedSize |-> 0, seedEnabled |-> FALSE,
     stalledEnabled |-> FALSE, stalledMinutes |-> 0]
TransmissionPeersSpec ==
    [limitGlobal |-> 0, limitPerTorrent |-> 0, port |-> 0, randomPort |-> FALSE,
     portForwardingEnabled |-> FALSE]
TransmissionSecuritySpec ==
    [encryption |-> "preferred", pexEnabled |-> None, dhtEnabled |-> None, lpdEnabled |-> None,
     utpEnabled |-> None]
TransmissionBlocklistSpec == [enabled |-> FALSE, url |-> ""]

QBittorrentSpeedSpec ==
    [downloadLimit |-> 0, uploadLimit |-> 0, globalDownloadSpeedLimit |-> 0, globalUploadSpeedLimit |-> 0]
QBittorrentAltSpeedSpec ==
    [enabled |-> FALSE, downloadLimit |-> 0, uploadLimit |-> 0, schedulerEnabled |-> FALSE,
     schedulerDays |-> 0, scheduleFromHour |-> 0, scheduleFromMinute |-> 0, scheduleToHour |-> 0,
     scheduleToMinute |-> 0]
QBittorrentDirectoriesSpec ==
    [savePath |-> "", tempPath |-> "", tempPathEnabled |-> FALSE, createSubfolder |-> None,
     appendExtension |-> None]
QBittorrentSeedingSpec ==
    [maxRatio |-> "", maxRatioEnabled |-> FALSE, maxSeedingTime |-> 0, maxSeedingTimeEnabled |-> FALSE,
     maxRatioAction |-> None]
QBittorrentQueueSpec ==
    [queueingEnabled |-> None, maxActiveDownloads |-> 0, maxActiveUploads |-> 0, maxActiveTorrents |-> 0]
QBittorrentConnectionsSpec ==
    [maxConnections |-> 0, maxConnectionsPerTorrent |-> 0, maxUploads |-> 0, maxUploadsPerTorrent |-> 0,
     listenPort |-> 0, randomPort |-> FALSE, upnpEnabled |-> None]
QBittorrentBitTorrentSpec ==
    [dht |-> None, pex |-> None, lsd |-> None, encryption |-> None, anonymousMode |-> FALSE]

\* The defaults of Deluge's speeds say "unlimited".
DelugeSpeedSpec ==
    [maxDownloadSpeed |-> -1, maxUploadSpeed |-> -1, maxDownloadSpeedPerTorrent |-> -1,
     maxUploadSpeedPerTorrent |-> -1]
DelugeDirectoriesSpec ==
    [downloadLocation |-> "", moveCompleted |-> FALSE, moveCompletedPath |-> "", copyTorrentFile |-> FALSE,
     torrentFilesLocation |-> ""]
DelugeSeedingSpec ==
    [stopSeedAtRatio |-> FALSE, stopSeedRatio |-> "", removeAtRatio |-> FALSE, shareRatioLimit |-> "",
     seedTimeLimit |-> 0]
DelugeQueueSpec ==
    [maxActiveDownloading |-> 0, maxActiveSeeding |-> 0, maxActiveLimit |-> 0, queueNewToTop |-> FALSE]
DelugeConnectionsSpec ==
    [maxConnections |-> 0, maxConnectionsPerTorrent |-> 0, maxUploadSlots |-> 0,
     maxUploadSlotsPerTorrent |-> 0, listenPorts |-> <<>>, randomPort |-> FALSE]
DelugeProtocolSpec ==
    [dht |-> None, upnp |-> None, natpmp |-> None, lsd |-> None, protocolEncryption |-> None,
     encryptionLevel |-> None]

RTorrentSpeedSpec       == [downloadRate |-> 0, uploadRate |-> 0]
RTorrentDirectoriesSpec == [directory |-> "", sessionDirectory |-> ""]
RTorrentSeedingSpec     == [minSeedRatio |-> "", maxSeedRatio |-> "", minSeedTime |-> 0, maxSeedTime |-> 0]
RTorrentConnectionsSpec ==
    [maxPeers |-> 0, maxPeersPerTorrent |-> 0, maxUploads |-> 0, maxUploadsPerTorrent |-> 0, port |-> 0,
     portRange |-> "", portRandomize |-> FALSE]
RTorrentProtocolSpec    == [dht |-> None, pex |-> None, encryption |-> ""]

SABnzbdSpeedSpec == [speedLimit |-> 0, speedLimitPercentage |-> 0, pauseDownloads |-> FALSE]
SABnzbdDirectoriesSpec ==
    [downloadDir |-> "", completeDir |-> "", incompleteDir |-> "", scriptDir |-> "", nzbBackupDir |-> ""]
SABnzbdQueueSpec == [preCheck |-> FALSE, maxRetries |-> 0, connections |-> 0]
SABnzbdPostProcessingSpec ==
    [enabled |-> FALSE, quickCheck |-> FALSE, unpackEnabled |-> FALSE, cleanupEnabled |-> FALSE,
     scriptEnabled |-> FALSE]

NZBGetSpeedSpec == [downloadRate |-> 0, articleTimeout |-> 0, writeBuffer |-> 0]
NZBGetDirectoriesSpec ==
    [mainDir |-> "", destDir |-> "", interDir |-> "", nzbDir |-> "", tempDir |-> "", scriptDir |-> ""]
NZBGetQueueSpec == [flushQueue |-> FALSE, dupeCheck |-> FALSE, propagationDelay |-> 0, healthCheck |-> ""]
NZBGetPostProcessingSpec ==
    [parCheck |-> "", parRepair |-> None, unpack |-> None, unpackCleanupDisk |-> None,
     directUnpack |-> None, scriptOrder |-> <<>>]
NZBGetConnectionsSpec ==
    [articleConnections |-> 0, retryInterval |-> 0, terminateTimeout |-> 0, decode |-> None]

(***************************************************************************)
(* The specifications of the clients, without any section.                 *)
(***************************************************************************)
Nothing(sections) == [s \in sections |-> None]

TransmissionSpec ==
    Nothing({"speed", "altSpeed", "directories", "seeding", "queue", "peers", "security", "blocklist"})
QBittorrentSpec ==
    Nothing({"speed", "altSpeed", "directories", "seeding", "queue", "connections", "bittorrent"})
DelugeSpec   == Nothing({"speed", "directories", "seeding", "queue", "connections", "protocol"})
RTorrentSpec == Nothing({"speed", "directories", "seeding", "connections", "protocol"})
SABnzbdSpec  == Nothing({"speed", "directories", "queue", "postProcessing"})
NZBGetSpec   == Nothing({"speed", "directories", "queue", "postProcessing", "connections"})

(***************************************************************************)
(* Rules: when a field is sent, and as what.                               *)
(***************************************************************************)

\* What strconv.ParseFloat and fmt.Sscanf("%f") take for a number: the scan
\* also takes a number that something else follows.
Number  == [t \in {"1.5", "2"} |-> IF t = "2" THEN <<2, 1>> ELSE <<3, 2>>]
Scanned == [t \in {"1.5", "2", "2x"} |-> IF t = "1.5" THEN <<3, 2>> ELSE <<2, 1>>]

\* Bit of a day (1 is Monday, 7 Sunday) in the mask of Transmission; a day that
\* is no day has none.
DayBit == [d \in 1 .. 7 |-> IF d = 7 THEN 1 ELSE 2 ^ d]

dayMask(days) ==
    LET Bit(d) == IF \E i \in DOMAIN days : days[i] = d THEN DayBit[d] ELSE 0
    IN  Bit(1) + Bit(2) + Bit(3) + Bit(4) + Bit(5) + Bit(6) + Bit(7)

Sent(rule, v) ==
    CASE rule \in {"always", "always KiB"}                 -> TRUE
      [] rule \in {"positive", "positive KiB", "positive text"} -> v > 0
      [] rule = "nonzero"                                  -> v # 0
      [] rule = "text"                                     -> v # ""
      [] rule = "number"                                   -> v \in DOMAIN Number
      [] rule = "scan"                                     -> v \in DOMAIN Scanned
      [] rule \in {"pointer", "pointer yes", "pointer auto"} -> v # None
      [] rule \in {"if on", "if on 1", "if on yes"}        -> v
      [] rule = "days"                                     -> v # <<>>
      [] rule = "pair"                                     -> Len(v) = 2

\* KiB/s to bytes/s.
KiB(v) == v * 1024

Pointee(p) == CHOOSE v \in p : TRUE

Converted(rule, v) ==
    CASE rule \in {"always KiB", "positive KiB"} -> KiB(v)
      [] rule = "positive text"                  -> <<"%d", v>>
      [] rule = "number"                         -> Number[v]
      [] rule = "scan"                           -> Scanned[v]
      [] rule = "pointer"                        -> Pointee(v)
      [] rule = "pointer yes"                    -> IF Pointee(v) THEN "yes" ELSE "no"
      [] rule = "pointer auto"                   -> IF Pointee(v) THEN "auto" ELSE "off"
      [] rule = "if on 1"                        -> "1"
      [] rule = "if on yes"                      -> "yes"
      [] rule = "days"                           -> dayMask(v)
      [] OTHER                                   -> v

(***************************************************************************)
(* The rows <<section, field, rule, key>> of a client in the order of the  *)
(* code.  A later row overrides an earlier one of the same key.            *)
(***************************************************************************)
buildTransmissionSettings ==
    << <<"speed", "downloadLimit", "always", "speed-limit-down">>,
       <<"speed", "downloadLimitEnabled", "always", "speed-limit-down-enabled">>,
       <<"speed", "uploadLimit", "always", "speed-limit-up">>,
       <<"speed", "uploadLimitEnabled", "always", "speed-limit-up-enabled">>,
       <<"altSpeed", "enabled", "always", "alt-speed-enabled">>,
       <<"altSpeed", "down", "always", "alt-speed-down">>,
       <<"altSpeed", "up", "always", "alt-speed-up">>,
       <<"altSpeed", "timeEnabled", "always", "alt-speed-time-enabled">>,
       <<"altSpeed", "timeBegin", "always", "alt-speed-time-begin">>,
       <<"altSpeed", "timeEnd", "always", "alt-speed-time-end">>,
       <<"altSpeed", "timeDays", "days", "alt-speed-time-day">>,
       <<"directories", "download", "text", "download-dir">>,
       <<"directories", "incomplete", "text", "incomplete-dir">>,
       <<"directories", "incompleteEnabled", "always", "incomplete-dir-enabled">>,
       <<"seeding", "ratioLimit", "number", "seedRatioLimit">>,
       <<"seeding", "ratioLimited", "always", "seedRatioLimited">>,
       <<"seeding", "idleLimit", "always", "idle-seeding-limit">>,
       <<"seeding", "idleLimitEnabled", "always", "idle-seeding-limit-enabled">>,
       <<"queue", "downloadSize", "always", "download-queue-size">>,
       <<"queue", "downloadEnabled", "always", "download-queue-enabled">>,
       <<"queue", "seedSize", "always", "seed-queue-size">>,
       <<"queue", "seedEnabled", "always", "seed-queue-enabled">>,
       <<"queue", "stalledEnabled", "always", "queue-stalled-enabled">>,
       <<"queue", "stalledMinutes", "always", "queue-stalled-minutes">>,
       <<"peers", "limitGlobal", "positive", "peer-limit-global">>,
       <<"peers", "limitPerTorrent", "positive", "peer-limit-per-torrent">>,
       <<"peers", "port", "positive", "peer-port">>,
       <<"peers", "randomPort", "always", "peer-port-random-on-start">>,
       <<"peers", "portForwardingEnabled", "always", "port-forwarding-enabled">>,
       <<"security", "encryption", "text", "encryption">>,
       <<"security", "pexEnabled", "pointer", "pex-enabled">>,
       <<"security", "dhtEnabled", "pointer", "dht-enabled">>,
       <<"security", "lpdEnabled", "pointer", "lpd-enabled">>,
       <<"security", "utpEnabled", "pointer", "utp-enabled">>,
       <<"blocklist", "enabled", "always", "blocklist-enabled">>,
       <<"blocklist", "url", "text", "blocklist-url">> >>

syncQBittorrentSettings ==
    << <<"speed", "downloadLimit", "positive KiB", "dl_limit">>,
       <<"speed", "uploadLimit", "positive KiB", "up_limit">>,
       <<"speed", "globalDownloadSpeedLimit", "positive KiB", "dl_limit">>,
       <<"speed", "globalUploadSpeedLimit", "positive KiB", "up_limit">>,
       <<"altSpeed", "downloadLimit", "always KiB", "alt_dl_limit">>,
       <<"altSpeed", "uploadLimit", "always KiB", "alt_up_limit">>,
       <<"altSpeed", "schedulerEnabled", "always", "scheduler_enabled">>,
       <<"altSpeed", "schedulerDays", "positive", "scheduler_days">>,
       <<"altSpeed", "scheduleFromHour", "always", "schedule_from_hour">>,
       <<"altSpeed", "scheduleFromMinute", "always", "schedule_from_min">>,
       <<"altSpeed", "scheduleToHour", "always", "schedule_to_hour">>,
       <<"altSpeed", "scheduleToMinute", "always", "schedule_to_min">>,
       <<"directories", "savePath", "text", "save_path">>,
       <<"directories", "tempPath", "text", "temp_path">>,
       <<"directories", "tempPathEnabled", "always", "temp_path_enabled">>,
       <<"directories", "createSubfolder", "pointer", "create_subfolder_enabled">>,
       <<"directories", "appendExtension", "pointer", "incomplete_files_ext">>,
       <<"seeding", "maxRatioEnabled", "always", "max_ratio_enabled">>,
       <<"seeding", "maxRatio", "scan", "max_ratio">>,
       <<"seeding", "maxSeedingTimeEnabled", "always", "max_seeding_time_enabled">>,
       <<"seeding", "maxSeedingTime", "positive", "max_seeding_time">>,
       <<"seeding", "maxRatioAction", "pointer", "max_ratio_act">>,
       <<"queue", "queueingEnabled", "pointer", "queueing_enabled">>,
       <<"queue", "maxActiveDownloads", "positive", "max_active_downloads">>,
       <<"queue", "maxActiveUploads", "positive", "max_active_uploads">>,
       <<"queue", "maxActiveTorrents", "positive", "max_active_torrents">>,
       <<"connections", "maxConnections", "positive", "max_connec">>,
       <<"connections", "maxConnectionsPerTorrent", "positive", "max_connec_per_torrent">>,
       <<"connections", "maxUploads", "positive", "max_uploads">>,
       <<"connections", "maxUploadsPerTorrent", "positive", "max_uploads_per_torrent">>,
       <<"connections", "listenPort", "positive", "listen_port">>,
       <<"connections", "randomPort", "always", "random_port">>,
       <<"connections", "upnpEnabled", "pointer", "upnp">>,
       <<"bittorrent", "dht", "pointer", "dht">>,
       <<"bittorrent", "pex", "pointer", "pex">>,
       <<"bittorrent", "lsd", "pointer", "lsd">>,
       <<"bittorrent", "encryption", "pointer", "encryption">>,
       <<"bittorrent", "anonymousMode", "always", "anonymous_mode">> >>

syncDelugeSettings ==
    << <<"speed", "maxDownloadSpeed", "nonzero", "max_download_speed">>,
       <<"speed", "maxUploadSpeed", "nonzero", "max_upload_speed">>,
       <<"speed", "maxDownloadSpeedPerTorrent", "nonzero", "max_download_speed_per_torrent">>,
       <<"speed", "maxUploadSpeedPerTorrent", "nonzero", "max_upload_speed_per_torrent">>,
       <<"directories", "downloadLocation", "text", "download_location">>,
       <<"directories", "moveCompleted", "always", "move_completed">>,
       <<"directories", "moveCompletedPath", "text", "move_completed_path">>,
       <<"directories", "copyTorrentFile", "always", "copy_torrent_file">>,
       <<"directories", "torrentFilesLocation", "text", "torrentfiles_location">>,
       <<"seeding", "stopSeedAtRatio", "always", "stop_seed_at_ratio">>,
       <<"seeding", "stopSeedRatio", "scan", "stop_seed_ratio">>,
       <<"seeding", "removeAtRatio", "always", "remove_seed_at_ratio">>,
       <<"seeding", "shareRatioLimit", "scan", "share_ratio_limit">>,
       <<"seeding", "seedTimeLimit", "nonzero", "seed_time_limit">>,
       <<"queue", "maxActiveDownloading", "positive", "max_active_downloading">>,
       <<"queue", "maxActiveSeeding", "positive", "max_active_seeding">>,
       <<"queue", "maxActiveLimit", "positive", "max_active_limit">>,
       <<"queue", "queueNewToTop", "always", "queue_new_to_top">>,
       <<"connections", "maxConnections", "positive", "max_connections_global">>,
       <<"connections", "maxConnectionsPerTorrent", "positive", "max_connections_per_torrent">>,
       <<"connections", "maxUploadSlots", "positive", "max_upload_slots_global">>,
       <<"connections", "maxUploadSlotsPerTorrent", "positive", "max_upload_slots_per_torrent">>,
       <<"connections", "listenPorts", "pair", "listen_ports">>,
       <<"connections", "randomPort", "always", "random_port">>,
       <<"protocol", "dht", "pointer", "dht">>,
       <<"protocol", "upnp", "pointer", "upnp">>,
       <<"protocol", "natpmp", "pointer", "natpmp">>,
       <<"protocol", "lsd", "pointer", "lsd">>,
       <<"protocol", "protocolEncryption", "pointer", "pe_enabled">>,
       <<"protocol", "encryptionLevel", "pointer", "enc_level">> >>

syncRTorrentSettings ==
    << <<"speed", "downloadRate", "positive KiB", "throttle.global_down.max_rate">>,
       <<"speed", "uploadRate", "positive KiB", "throttle.global_up.max_rate">>,
       <<"directories", "directory", "text", "directory.default">>,
       <<"connections", "maxPeers", "positive", "throttle.max_peers.normal">>,
       <<"connections", "maxUploads", "positive", "throttle.max_uploads.global">>,
       <<"protocol", "dht", "pointer auto", "dht.mode">>,
       <<"protocol", "encryption", "text", "protocol.encryption">> >>

syncSABnzbdSettings ==
    << <<"speed", "speedLimit", "positive text", "speedlimit">>,
       <<"speed", "pauseDownloads", "if on", "paused">>,
       <<"directories", "downloadDir", "text", "download_dir">>,
       <<"directories", "completeDir", "text", "complete_dir">>,
       <<"directories", "incompleteDir", "text", "incomplete_dir">>,
       <<"directories", "scriptDir", "text", "script_dir">>,
       <<"directories", "nzbBackupDir", "text", "nzb_backup_dir">>,
       <<"queue", "preCheck", "if on 1", "pre_check">>,
       <<"queue", "maxRetries", "positive text", "max_art_tries">>,
       <<"postProcessing", "unpackEnabled", "if on 1", "unpack">>,
       <<"postProcessing", "cleanupEnabled", "if on 1", "cleanup_list">> >>

syncNZBGetSettings ==
    << <<"speed", "downloadRate", "positive", "rate">>,
       <<"speed", "articleTimeout", "positive text", "ArticleTimeout">>,
       <<"speed", "writeBuffer", "positive text", "WriteBuffer">>,
       <<"directories", "mainDir", "text", "MainDir">>,
       <<"directories", "destDir", "text", "DestDir">>,
       <<"directories", "interDir", "text", "InterDir">>,
       <<"directories", "nzbDir", "text", "NzbDir">>,
       <<"directories", "tempDir", "text", "TempDir">>,
       <<"directories", "scriptDir", "text", "ScriptDir">>,
       <<"queue", "dupeCheck", "if on yes", "DupeCheck">>,
       <<"queue", "propagationDelay", "positive text", "PropagationDelay">>,
       <<"queue", "healthCheck", "text", "HealthCheck">>,
       <<"postProcessing", "parCheck", "text", "ParCheck">>,
       <<"postProcessing", "parRepair", "pointer yes", "ParRepair">>,
       <<"postProcessing", "unpack", "pointer yes", "Unpack">>,
       <<"postProcessing", "unpackCleanupDisk", "pointer yes", "UnpackCleanupDisk">>,
       <<"postProcessing", "directUnpack", "pointer yes", "DirectUnpack">>,
       <<"connections", "articleConnections", "positive text", "ArticleConnections">>,
       <<"connections", "retryInterval", "positive text", "RetryInterval">>,
       <<"connections", "terminateTimeout", "positive text", "TerminateTimeout">>,
       <<"connections", "decode", "pointer yes", "Decode">> >>

Rows ==
    [Transmission |-> buildTransmissionSettings, QBittorrent |-> syncQBittorrentSettings,
     Deluge |-> syncDelugeSettings, RTorrent |-> syncRTorrentSettings,
     SABnzbd |-> syncSABnzbdSettings, NZBGet |-> syncNZBGetSettings]

(***************************************************************************)
(* The calls that write: one with everything, or one per setting.  A call  *)
(* is a function from keys to values.                                      *)
(***************************************************************************)
BulkClients == {"Transmission", "QBittorrent", "Deluge"}

\* <<key, value>> of the fields that are sent.
Settings(app, spec) ==
    LET IsSent(row) == \E r \in spec[row[1]] : Sent(row[3], r[row[2]])
        sent        == SelectSeq(Rows[app], IsSent)
    IN  [i \in DOMAIN sent |->
            <<sent[i][4], Converted(sent[i][3], Pointee(spec[sent[i][1]])[sent[i][2]])>>]

One(setting) == [k \in {setting[1]} |-> setting[2]]

\* A map that is filled in this order: the last value of a key stays.
AsMap(settings) ==
    [k \in {settings[i][1] : i \in DOMAIN settings} |->
        LET last == CHOOSE i \in DOMAIN settings :
                        settings[i][1] = k /\ \A j \in DOMAIN settings : settings[j][1] = k => j <= i
        IN  settings[last][2]]

\* An empty map is not sent.
CallsFor(app, settings) ==
    CASE app \notin BulkClients -> [i \in DOMAIN settings |-> One(settings[i])]
      [] settings = <<>>        -> <<>>
      [] OTHER                  -> <<AsMap(settings)>>

\* (The set makes TLC evaluate the settings once.)
Calls(app, spec) == Pointee({CallsFor(app, settings) : settings \in {Settings(app, spec)}})

\* Fields of a section that no row reads.
Unread(app, section, record) ==
    {f \in DOMAIN record :
        \A i \in DOMAIN Rows[app] : ~(Rows[app][i][1] = section /\ Rows[app][i][2] = f)}

=============================================================================
