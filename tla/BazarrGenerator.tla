--------------------------- MODULE BazarrGenerator ---------------------------
(***************************************************************************)
(* The BazarrConfig types and what is made of them: the config.yaml of the *)
(* file mode (adapters/bazarr/generator.go) and the profiles and providers *)
(* that the API mode sends.                                                *)
(*                                                                         *)
(* The types follow the conventions of ApiTypes; URLs also have a path.    *)
(* Settings of config.yaml that are the same for every configuration       *)
(* (use_sonarr, single_language, cutoff, audio_exclude) are left out.      *)
(***************************************************************************)
EXTENDS ApiTypes

BazarrURL(scheme, host, port, path) == [scheme |-> scheme, host |-> host, port |-> port, path |-> path]

BazarrLanguage(code, forced, hearingImpaired) ==
    [code |-> code, forced |-> forced, hearingImpaired |-> hearingImpaired]

BazarrLanguageProfile(name, languages, defaultForSeries, defaultForMovies) ==
    [name |-> name, languages |-> languages, defaultForSeries |-> defaultForSeries,
     defaultForMovies |-> defaultForMovies]
ValidBazarrLanguageProfile(p) == p.languages # <<>>

BazarrProvider(name, username, passwordSecretRef, apiKeySecretRef) ==
    [name |-> name, username |-> username, passwordSecretRef |-> passwordSecretRef,
     apiKeySecretRef |-> apiKeySecretRef]

\* configPath is stored and never read.
BazarrConnectionSpec(url, apiKeySecretRef) == [url |-> url, apiKeySecretRef |-> apiKeySecretRef]

BazarrAPIConnectionSpec(url, apiKeySecretRef) == {[url |-> url, apiKeySecretRef |-> apiKeySecretRef]}

\* outputPath is stored and never read.
BazarrConfigSpec(configMode, connection, sonarr, radarr, languageProfiles, providers, authentication,
                 configMapRef) ==
    [configMode |-> Or(configMode, "file"), connection |-> connection, sonarr |-> sonarr,
     radarr |-> radarr, languageProfiles |-> languageProfiles, providers |-> providers,
     authentication |-> authentication, configMapRef |-> configMapRef]
ValidBazarrConfigSpec(s) ==
    /\ s.configMode \in {"file", "api"}
    /\ {s.sonarr.url.scheme, s.radarr.url.scheme} \subseteq {"http", "https"}
    /\ \A c \in s.connection : c.apiKeySecretRef # None
    /\ \A i \in DOMAIN s.languageProfiles : ValidBazarrLanguageProfile(s.languageProfiles[i])
    /\ \A a \in s.authentication : ValidAuthenticationSpec(a)

(***************************************************************************)
(* Secrets: a function from <<secret, key>>.                               *)
(***************************************************************************)
Missing(secrets, refs) == \E r \in refs : <<r.name, r.key>> \notin DOMAIN secrets

\* "" where there is no reference: the keys of Sonarr and Radarr are not discovered.
Value(secrets, refs) ==
    IF refs = None THEN "" ELSE LET r == CHOOSE x \in refs : TRUE IN secrets[<<r.name, r.key>>]

ProviderRefs(providers) ==
    UNION {providers[i].passwordSecretRef \cup providers[i].apiKeySecretRef : i \in DOMAIN providers}

(***************************************************************************)
(* config.yaml.                                                            *)
(***************************************************************************)
\* A host that net/url cannot parse is written "%".
Parses(url) == url.host # "%"

\* Wrong variant: the default port does not depend on the scheme.
parseURLPlain(url) ==
    [ip |-> Or(url.host, "localhost"), port |-> IF url.port # 0 THEN url.port ELSE 80,
     base |-> Or(url.path, "/"), ssl |-> url.scheme = "https"]

parseURL(url) ==
    LET ssl == url.scheme = "https"
    IN  [ip |-> Or(url.host, "localhost"),
         port |-> IF url.port # 0 THEN url.port ELSE IF ssl THEN 443 ELSE 80,
         base |-> Or(url.path, "/"), ssl |-> ssl]

\* The position of the last profile that is marked, 1 when none is, also when
\* there is no profile at all.
DefaultProfile(marked) ==
    IF marked = {} THEN 1 ELSE CHOOSE i \in marked : \A j \in marked : j <= i

buildGeneralConfig(spec) ==
    LET profiles == spec.languageProfiles
    IN  [enabledProviders |-> [i \in DOMAIN spec.providers |-> spec.providers[i].name],
         serieDefaultProfile |-> DefaultProfile({i \in DOMAIN profiles : profiles[i].defaultForSeries}),
         movieDefaultProfile |-> DefaultProfile({i \in DOMAIN profiles : profiles[i].defaultForMovies})]

buildLanguageProfiles(profiles) ==
    [i \in DOMAIN profiles |->
        [name |-> profiles[i].name, profileId |-> i,
         items |-> [j \in DOMAIN profiles[i].languages |->
                       LET lang == profiles[i].languages[j]
                       IN  [id |-> j, language |-> lang.code, forced |-> lang.forced,
                            hi |-> lang.hearingImpaired]]]]

md5Hash(s) == "md5 of " \o s

buildAuthConfig(auth, password) ==
    [type |-> auth.method, username |-> auth.username,
     password |-> IF password = "" THEN "" ELSE md5Hash(password)]

\* The secrets are kept by name: of providers with one name all get those of
\* the last.
ProviderConfig(providers, i, secrets) ==
    LET named  == {j \in DOMAIN providers : providers[j].name = providers[i].name}
        last   == providers[CHOOSE j \in named : \A k \in named : k <= j]
    IN  [username |-> providers[i].username, password |-> Value(secrets, last.passwordSecretRef),
         apikey |-> Value(secrets, last.apiKeySecretRef)]

\* A provider without settings has no section; a later section replaces an
\* earlier one with the same name.
buildProviderConfig(providers, secrets) ==
    LET Empty == [username |-> "", password |-> "", apikey |-> ""]
        Sections(name) == {i \in DOMAIN providers : /\ providers[i].name = name
                                                    /\ ProviderConfig(providers, i, secrets) # Empty}
        names == {providers[i].name : i \in DOMAIN providers}
    IN  [n \in {m \in names : Sections(m) # {}} |->
            ProviderConfig(providers, CHOOSE i \in Sections(n) : \A j \in Sections(n) : j <= i, secrets)]

\* None when a URL cannot be parsed.
Generate(spec, secrets) ==
    IF ~Parses(spec.sonarr.url) \/ ~Parses(spec.radarr.url) THEN None
    ELSE {[sonarr    |-> [at |-> parseURL(spec.sonarr.url), apikey |-> Value(secrets, spec.sonarr.apiKeySecretRef)],
           radarr    |-> [at |-> parseURL(spec.radarr.url), apikey |-> Value(secrets, spec.radarr.apiKeySecretRef)],
           general   |-> buildGeneralConfig(spec),
           languages |-> buildLanguageProfiles(spec.languageProfiles),
           auth      |-> {buildAuthConfig(a, Value(secrets, a.passwordSecretRef)) :
                             a \in {b \in spec.authentication : b.method # "none"}},
           providers |-> buildProviderConfig(spec.providers, secrets)]}

(***************************************************************************)
(* What the API mode sends.  Forced and hearing-impaired are texts; the    *)
(* default profiles are not sent.                                          *)
(***************************************************************************)
Truth(b) == IF b THEN "True" ELSE "False"

ApiProfile(p) ==
    [name |-> p.name,
     items |-> [j \in DOMAIN p.languages |->
                   [id |-> j, language |-> p.languages[j].code, forced |-> Truth(p.languages[j].forced),
                    hi |-> Truth(p.languages[j].hearingImpaired)]]]

ApiProviders(providers, secrets) ==
    [i \in DOMAIN providers |-> [name |-> providers[i].name, settings |-> ProviderConfig(providers, i, secrets)]]
=============================================================================
