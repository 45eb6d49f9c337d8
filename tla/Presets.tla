------------------------------- MODULE Presets -------------------------------
(***************************************************************************)
(* The built-in presets and their expansion (internal/presets): quality    *)
(* presets for video and audio with the user's overrides, and the naming   *)
(* presets.  Lists of sources and formats are sets; a tier is              *)
(* [resolution, sources].                                                  *)
(***************************************************************************)
EXTENDS Naturals, TLC

QualityTier(res, sources) == [resolution |-> res, sources |-> sources]

VideoQualityPreset(tiers, upgradeUntil, preferred, rejected) ==
    [tiers |-> tiers, upgradeUntil |-> upgradeUntil, preferred |-> preferred, rejected |-> rejected]

Screeners == {"cam", "telesync", "telecine", "workprint"}
FourK == {QualityTier("2160p", {"remux", "bluray", "webdl", "webrip"}),
          QualityTier("1080p", {"remux", "bluray", "webdl", "webrip"})}

VideoPresets ==
    ("4k-hdr" :> VideoQualityPreset(
         FourK, QualityTier("2160p", {"remux"}),
         {"hdr10", "hdr10plus", "dolby-vision", "atmos", "truehd", "dts-x"}, Screeners \cup {"3d"}))
 @@ ("4k-sdr" :> VideoQualityPreset(
         FourK, QualityTier("2160p", {"remux"}),
         {"atmos", "truehd", "dts-x", "dts-hd"}, Screeners \cup {"3d"}))
 @@ ("1080p-quality" :> VideoQualityPreset(
         {QualityTier("1080p", {"remux", "bluray"}), QualityTier("1080p", {"webdl", "webrip"}),
          QualityTier("720p", {"bluray", "webdl"})},
         QualityTier("1080p", {"remux"}), {"truehd", "dts-hd", "atmos"}, Screeners))
 @@ ("1080p-streaming" :> VideoQualityPreset(
         {QualityTier("1080p", {"webdl", "webrip"}), QualityTier("1080p", {"hdtv"}),
          QualityTier("720p", {"webdl", "webrip"})},
         QualityTier("1080p", {"webdl"}), {"hevc", "aac"}, Screeners))
 @@ ("720p" :> VideoQualityPreset(
         {QualityTier("720p", {"bluray", "webdl", "webrip", "hdtv"}), QualityTier("480p", {"webdl", "dvd"})},
         QualityTier("720p", {"bluray"}), {}, Screeners))
 @@ ("balanced" :> VideoQualityPreset(
         {QualityTier("2160p", {"bluray", "webdl"}),
          QualityTier("1080p", {"remux", "bluray", "webdl", "webrip"}),
          QualityTier("720p", {"bluray", "webdl"})},
         QualityTier("1080p", {"bluray"}), {"hdr10", "dolby-vision"}, Screeners))
 @@ ("any" :> VideoQualityPreset(
         {QualityTier("2160p", {"remux", "bluray", "webdl", "webrip", "hdtv"}),
          QualityTier("1080p", {"remux", "bluray", "webdl", "webrip", "hdtv"}),
          QualityTier("720p", {"bluray", "webdl", "webrip", "hdtv"}),
          QualityTier("480p", {"webdl", "webrip", "dvd", "sdtv"})},
         QualityTier("2160p", {"remux"}), {}, {"cam", "workprint"}))
 @@ ("storage-optimized" :> VideoQualityPreset(
         {QualityTier("1080p", {"webdl", "webrip"}), QualityTier("720p", {"webdl", "webrip"})},
         QualityTier("1080p", {"webdl"}), {"hevc", "av1", "aac"},
         {"remux", "truehd", "dts-hd", "cam", "telesync"}))

DefaultVideoPreset == "balanced"

GetVideoPreset(name) ==
    VideoPresets[IF name \in DOMAIN VideoPresets THEN name ELSE DefaultVideoPreset]

AudioQualityPreset(tiers, upgradeUntil, preferred, rejectTiers) ==
    [tiers |-> tiers, upgradeUntil |-> upgradeUntil, preferred |-> preferred, rejected |-> rejectTiers]

AudioPresets ==
    ("lossless-hires" :> AudioQualityPreset({"lossless-hires", "lossless"}, "lossless-hires",
                                            {"flac", "alac"}, {"lossy-poor", "lossy-trash"}))
 @@ ("lossless" :> AudioQualityPreset({"lossless", "lossless-hires", "lossy-high"}, "lossless",
                                      {"flac"}, {"lossy-poor", "lossy-trash"}))
 @@ ("high-quality" :> AudioQualityPreset({"lossless", "lossy-high"}, "lossless", {"flac", "mp3-320"},
                                          {"lossy-low", "lossy-poor", "lossy-trash"}))
 @@ ("balanced" :> AudioQualityPreset({"lossless", "lossy-high", "lossy-mid"}, "lossy-high", {},
                                      {"lossy-poor", "lossy-trash"}))
 @@ ("portable" :> AudioQualityPreset({"lossy-high", "lossy-mid", "lossy-low"}, "lossy-high",
                                      {"aac", "mp3-320"}, {"lossy-trash", "lossless-raw"}))
 @@ ("any" :> AudioQualityPreset({"lossless-hires", "lossless", "lossy-high", "lossy-mid",
                                  "lossy-low", "lossy-poor"}, "lossless", {}, {}))

DefaultAudioPreset == "balanced"

GetAudioPreset(name) ==
    AudioPresets[IF name \in DOMAIN AudioPresets THEN name ELSE DefaultAudioPreset]

(***************************************************************************)
(* Overrides [exclude, prefer, reject]: an excluded format is neither      *)
(* preferred nor rejected by the preset; additional ones come on top.      *)
(***************************************************************************)
removeItems(items, toRemove) == items \ toRemove

ApplyVideoOverrides(preset, o) ==
    [preset EXCEPT !.preferred = removeItems(@, o.exclude) \cup o.prefer,
                   !.rejected  = removeItems(@, o.exclude) \cup o.reject]

ApplyAudioOverrides(preset, o) ==
    [preset EXCEPT !.preferred = removeItems(@, o.exclude) \cup o.prefer,
                   !.rejected  = removeItems(@, o.exclude) \cup o.reject]

\* Formats with a pattern; others are dropped without a word.
getFormatSpecs ==
    Screeners \cup {"hdr10", "hdr10plus", "dolby-vision", "hlg", "atmos", "truehd", "dts-x", "dts-hd",
                    "hevc", "av1", "aac", "3d", "dubbed", "remux", "imax", "extended"}

\* The custom format of a preset: its name says for what it is.
formatToCustomFormat(format, isReject) ==
    [name |-> <<IF isReject THEN "Reject" ELSE "Prefer", format>>, title |-> format]

ExpandVideoPreset(name, overrides) ==
    LET preset   == ApplyVideoOverrides(GetVideoPreset(name), overrides)
        formats(S, isReject) == {formatToCustomFormat(f, isReject) : f \in S \cap getFormatSpecs}
        prefer   == formats(preset.preferred, FALSE)
        reject   == formats(preset.rejected, TRUE)
    IN  [tiers   |-> {[resolution |-> t.resolution, sources |-> t.sources, allowed |-> TRUE] :
                          t \in preset.tiers},
         cutoff  |-> preset.upgradeUntil,
         formats |-> prefer \cup reject,
         scores  |-> [n \in {f.name : f \in prefer} |-> 100]
                       @@ [n \in {f.name : f \in reject} |-> 0 - 10000]]

ExpandAudioPreset(name, overrides) ==
    LET preset == ApplyAudioOverrides(GetAudioPreset(name), overrides)
    IN  [tiers  |-> {[tier |-> t, allowed |-> t \notin preset.rejected] : t \in preset.tiers},
         cutoff |-> preset.upgradeUntil]

(***************************************************************************)
(* Naming presets.  `format' is the group of formats that a preset gives,  *)
(* `style' what it says of colons and, for Sonarr, of several episodes.    *)
(***************************************************************************)
PlayerFriendly == {"plex-friendly", "jellyfin-friendly", "kodi-friendly"}
DefaultNamingPreset == "plex-friendly"

NamingExpansion(preset, known, style) ==
    LET p == IF preset \in known \ PlayerFriendly THEN preset ELSE DefaultNamingPreset
    IN  [format |-> p, style |-> style[p]]

GetRadarrNaming(preset) ==
    NamingExpansion(preset, PlayerFriendly \cup {"detailed", "minimal", "scene"},
                    ("plex-friendly" :> "smart") @@ ("detailed" :> "smart")
                      @@ ("minimal" :> "delete") @@ ("scene" :> "delete"))

GetSonarrNaming(preset) ==
    NamingExpansion(preset, PlayerFriendly \cup {"detailed", "minimal", "scene"},
                    ("plex-friendly" :> "smart, prefixed range") @@ ("detailed" :> "smart, prefixed range")
                      @@ ("minimal" :> "delete, extend") @@ ("scene" :> "delete, scene"))

\* Lidarr has no scene style: the preset falls back to the default.
GetLidarrNaming(preset) ==
    NamingExpansion(preset, PlayerFriendly \cup {"detailed", "minimal"},
                    ("plex-friendly" :> "smart") @@ ("detailed" :> "smart") @@ ("minimal" :> "delete"))

ExpandRadarrNaming(preset) == GetRadarrNaming(preset)
ExpandSonarrNaming(preset) == GetSonarrNaming(preset)
ExpandLidarrNaming(preset) == GetLidarrNaming(preset)

=============================================================================
