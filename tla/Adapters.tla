------------------------------ MODULE Adapters ------------------------------
(***************************************************************************)
(* The adapters as the controllers see them: the registry                  *)
(* (internal/adapters/registry.go) and the interface Adapter with its      *)
(* optional part DirectApplier (internal/adapters/adapter.go).  Each       *)
(* adapter registers itself when the process starts.                       *)
(***************************************************************************)
EXTENDS AdapterShared

Radarr   == INSTANCE RadarrResources
Sonarr   == INSTANCE SonarrAdapter
Lidarr   == INSTANCE LidarrAdapter
Readarr  == INSTANCE ReadarrAdapter
Prowlarr == INSTANCE ProwlarrAdapter

Apps == {"radarr", "sonarr", "lidarr", "readarr", "prowlarr"}

\* The adapters that implement DirectApplier.
DirectAppliers == {"radarr", "sonarr", "lidarr"}

\* Kinds that are there once and are only updated.
Singletons  == {"NamingConfig", "MediaManagement", "Authentication"}
\* Kinds whose resources carry the tag or the prefix of the operator.
PrefixKinds == {"QualityProfile", "MetadataProfile"}
MarkedKinds == PrefixKinds \cup {"DownloadClient", "Indexer", "Notification",
                                 "IndexerProxy", "Application"}

AdapterCurrentState(app, svc, schema, tag, blind) ==
    CASE app = "radarr"   -> Radarr!CurrentState(svc, schema, tag, blind)
      [] app = "sonarr"   -> Sonarr!CurrentState(svc, schema, tag, blind)
      [] app = "lidarr"   -> Lidarr!CurrentState(svc, schema, tag, blind)
      [] app = "readarr"  -> Readarr!CurrentState(svc, tag, blind)
      [] app = "prowlarr" -> Prowlarr!CurrentState(svc, tag, blind)

\* What the package-level variables of an adapter hold after a CurrentState.
GlobalsAfter(app, current, globals) ==
    LET profiles == Of(current, "QualityProfile")
        naming   == Of(current, "NamingConfig")
    IN  CASE app = "sonarr" -> [profile |-> Sonarr!managedProfileID(profiles, globals.profile),
                                naming  |-> Sonarr!namingConfigID(naming, globals.naming)]
          [] app = "lidarr" -> [profile |-> Lidarr!managedProfileID(profiles, globals.profile),
                                naming  |-> Lidarr!namingConfigID(naming, globals.naming)]
          [] OTHER          -> globals

AdapterDiff(app, current, desired, ids, cleanup) ==
    CASE app = "radarr"   -> Radarr!Diff(current, desired)
      [] app = "sonarr"   -> Sonarr!Diff(current, desired, ids)
      [] app = "lidarr"   -> Lidarr!Diff(current, desired, ids)
      [] app = "readarr"  -> Readarr!Diff(current, desired)
      [] app = "prowlarr" -> Prowlarr!Diff(current, desired, cleanup)

AdapterKindRank(app) ==
    CASE app = "radarr"   -> Radarr!KindRank
      [] app = "sonarr"   -> Sonarr!KindRank
      [] app = "lidarr"   -> Lidarr!KindRank
      [] app = "readarr"  -> Readarr!KindRank
      [] app = "prowlarr" -> Prowlarr!KindRank

\* The request for one change.
AdapterApply(app, svc, schema, cache, ch) ==
    CASE app = "radarr"   -> Radarr!Apply(svc, schema, ch)
      [] app = "sonarr"   -> Sonarr!Apply(svc, schema, ch)
      [] app = "lidarr"   -> Lidarr!Apply(svc, schema, ch)
      [] app = "readarr"  -> Readarr!Apply(svc, schema, ch)
      [] app = "prowlarr" -> Prowlarr!Apply(svc, cache, ch)

AdapterDirectRequests(app, svc, lists, desired, kind) ==
    CASE app = "radarr" -> Radarr!DirectRequests(svc, lists, desired, kind)
      [] app = "sonarr" -> Sonarr!DirectRequests(svc, lists, desired, kind)
      [] app = "lidarr" -> Lidarr!DirectRequests(svc, lists, desired, kind)

=============================================================================
