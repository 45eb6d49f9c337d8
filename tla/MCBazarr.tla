------------------------------ MODULE MCBazarr ------------------------------
(***************************************************************************)
(* Instances of Bazarr.  The specifications share the ConfigMap "cm", so   *)
(* that it is still there after a change of the mode; profile "en" is in   *)
(* some of them, and somebody else makes one with that name.               *)
(***************************************************************************)
EXTENDS Bazarr

Sonarr == BazarrConnectionSpec(BazarrURL("https", "sonarr", 0, ""), SecretKeySelector("arr", "sonarr"))
Radarr == BazarrConnectionSpec(BazarrURL("http", "", 7878, "/radarr"), None)
Broken == BazarrConnectionSpec(BazarrURL("http", "%", 0, ""), None)

En == BazarrLanguageProfile("en", <<BazarrLanguage("en", FALSE, TRUE)>>, FALSE, FALSE)
Fr == BazarrLanguageProfile("fr", <<BazarrLanguage("fr", TRUE, FALSE), BazarrLanguage("en", FALSE, FALSE)>>, TRUE, TRUE)

OpenSubtitles == BazarrProvider("opensubtitles", "u", SecretKeySelector("prov", "pw"), None)
Podnapisi     == BazarrProvider("podnapisi", "", None, None)
Keyed         == BazarrProvider("keyed", "", None, SecretKeySelector("prov", "key"))

Forms == AuthenticationSpec("forms", "admin", SecretKeySelector("prov", "pw"), "")

Connection == BazarrAPIConnectionSpec(BazarrURL("http", "bazarr", 6767, ""), SecretKeySelector("bazarr", ""))

MCSpecs ==
    [file    |-> BazarrConfigSpec("", None, Sonarr, Radarr, <<En, Fr>>, <<OpenSubtitles, Podnapisi>>, Forms, {"cm"}),
     broken  |-> BazarrConfigSpec("file", None, Broken, Radarr, <<>>, <<>>, None, None),
     api     |-> BazarrConfigSpec("api", Connection, Sonarr, Radarr, <<Fr, En>>, <<Keyed>>, None, {"cm"}),
     fr      |-> BazarrConfigSpec("api", Connection, Sonarr, Radarr, <<Fr>>, <<>>, None, None),
     lacking |-> BazarrConfigSpec("api", None, Sonarr, Radarr, <<En>>, <<>>, None, None)]

\* Without keys for Sonarr and the providers; with another key for Bazarr.
MCSecretSets ==
    [full  |-> (<<"arr", "sonarr">> :> "s") @@ (<<"prov", "pw">> :> "p") @@ (<<"prov", "key">> :> "k")
               @@ (<<"bazarr", "apiKey">> :> "b"),
     other |-> (<<"arr", "sonarr">> :> "s") @@ (<<"prov", "pw">> :> "q") @@ (<<"bazarr", "apiKey">> :> "c"),
     few   |-> <<"bazarr", "apiKey">> :> "b"]

MCHealthAnswers == {<<"none", "none">>, <<"True", "False">>}

MCForeignProfile == [name |-> "en", items |-> <<>>]
=============================================================================
