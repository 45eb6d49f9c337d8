--------------------------- MODULE SpecPassProofs ---------------------------
(***************************************************************************)
(* For all scenes: that every credential that a pass works towards is a    *)
(* value that the secret of its specification had while the pass resolved  *)
(* secrets (CredentialsFromSecrets), that no pass takes away a client or   *)
(* an indexer that its specification calls for (KeepsDeclared), and the    *)
(* types of SpecPass.                                                      *)
(*                                                                         *)
(* The first is about the moment of compilation, when the secrets may have *)
(* changed since they were read or be gone. It rests on three facts about  *)
(* the Gets before it: every entry that a specification needs has been     *)
(* read or is still owed by a reference that waits, and of a secret that a *)
(* list takes as a whole, either its reference waits or every key that it  *)
(* had at one moment has been read (Owed); what was read under an entry is *)
(* a value that the entry had since the first Get (ReadIsHad); and nothing *)
(* is desired before the compilation.                                      *)
(*                                                                         *)
(* The second is about ids: the adapters delete and update by an id that   *)
(* was read, or cached by an earlier pass, before the service changed. It  *)
(* rests on a second invariant, KeepInv: an id once given out for a kind   *)
(* keeps its name or is gone (Stock, Remembers), what a pass works towards *)
(* has all that its specification calls for (Covers), and each change that *)
(* waits leads to the resource that it names (Justified).                  *)
(***************************************************************************)
EXTENDS SpecPass, AdapterPlanProofs

(***************************************************************************)
(* The inductive invariant.                                                *)
(***************************************************************************)
Phases  == {"idle", "resolve", "connect", "read", "tag", "apply", "direct"}
Reasons == {"", "Ready", "SecretResolutionFailed", "ConnectionFailed"}
PassFields ==
    {"phase", "cleanup", "spec", "refs", "resolved", "desired", "todo", "kinds", "requests", "stores"}

\* The object and what it names.
ObjTyped ==
    /\ app \in DOMAIN Scenes
    /\ obj \in [exists : BOOLEAN, spec : DOMAIN scene.specs, suspended : BOOLEAN,
                deleting : BOOLEAN, finalizer : BOOLEAN]
    /\ obj.deleting => obj.finalizer \/ ~obj.exists
    /\ store \in DOMAIN scene.secretSets
    /\ ready \in Reasons

\* The ids of the service.
SvcTyped ==
    /\ DOMAIN svc = {"tag", "items", "next"}
    /\ svc.next \in Nat \ {0}
    /\ \A x \in svc.items : x.id \in 1 .. svc.next - 1

\* A reference that waits: a list's, one with a key left, or a pair.
Waiting(q) ==
    /\ DOMAIN q = {"rank", "name", "keys"}
    /\ \/ q.keys = <<>>
       \/ q.keys = <<q.keys[1]>>
       \/ q.keys = <<q.keys[1], q.keys[2]>> /\ q.rank \in {4, 8}

PassTyped ==
    /\ DOMAIN pass = PassFields
    /\ pass.phase \in Phases
    /\ pass.cleanup \in BOOLEAN
    /\ pass.spec \subseteq DOMAIN scene.specs
    /\ \A s, t \in pass.spec : s = t
    /\ \A q \in pass.refs : Waiting(q)
    /\ pass.stores \subseteq DOMAIN scene.secretSets
    /\ pass.phase = "resolve" => store \in pass.stores /\ pass.desired = {}

\* The values that an entry had during the Gets of the pass.
Had(e) == {Data(n)[e] : n \in {m \in pass.stores : e \in DOMAIN Data(m)}}

\* What was read is what the entry has had; the connection's key has an
\* entry of its own.
ReadIsHad ==
    \A e \in DOMAIN pass.resolved :
        /\ pass.resolved[e] \in STRING
        /\ e # ConnectionKey => pass.resolved[e] \in Had(e)

\* The entries that a reference names, the connection's aside.
Entries(q) == IF q.rank = 2 THEN {} ELSE {<<q.name, q.keys[i]>> : i \in DOMAIN q.keys}

Needed(a, s) == UNION {Entries(q) : q \in SecretsOf(a, s)}

\* All keys of a secret were read, as they were at one moment.
Taken(name, read) ==
    \E n \in pass.stores : \A e \in DOMAIN Data(n) : e[1] = name => e \in DOMAIN read

\* Of a pass that will compile, everything needed is read or owed.
Owed ==
    pass.phase = "resolve" /\ ~pass.cleanup =>
        \A s \in pass.spec :
            /\ \A e \in Needed(app, SpecOf(s)) :
                   e \in DOMAIN pass.resolved \/ \E q \in pass.refs : e \in Entries(q)
            /\ \A q \in SecretsOf(app, SpecOf(s)) :
                   q.keys = AllKeys => q \in pass.refs \/ Taken(q.name, pass.resolved)

\* What is to be known of a pass.
PassInv == PassTyped /\ ReadIsHad /\ Owed /\ CredentialsFromSecrets

IInv == ObjTyped /\ SvcTyped /\ PassInv

(***************************************************************************)
(* References and entries.                                                 *)
(***************************************************************************)

\* Every reference of a specification is of one of the three forms.
LEMMA RefsWait ==
    ASSUME NEW a, NEW s, NEW q \in SecretsOf(a, s)
    PROVE  Waiting(q)
<1>1. \A rank, name, keys : DOMAIN Ref(rank, name, keys) = {"rank", "name", "keys"}
    BY DEF Ref
<1>2. ASSUME NEW r, NEW rank, q = Ref(rank, r.name, <<r.key>>)
      PROVE  Waiting(q)
    <2>1. q.keys = <<q.keys[1]>>
        BY <1>2 DEF Ref
    <2>. QED  BY <1>1, <1>2, <2>1 DEF Waiting
<1>3. ASSUME NEW r, NEW rank \in {4, 8}, q = Ref(rank, r.name, <<r.usernameKey, r.passwordKey>>)
      PROVE  Waiting(q)
    <2>1. q.keys = <<q.keys[1], q.keys[2]>> /\ q.rank \in {4, 8}
        BY <1>3 DEF Ref
    <2>. QED  BY <1>1, <1>3, <2>1 DEF Waiting
<1>4. ASSUME NEW r, NEW rank, q = Ref(rank, r.name, AllKeys)
      PROVE  Waiting(q)
    <2>1. q.keys = <<>>
        BY <1>4 DEF Ref, AllKeys
    <2>. QED  BY <1>1, <1>4, <2>1 DEF Waiting
<1>5. CASE q \in ConnectionSecrets(s)
    BY <1>2, <1>5 DEF ConnectionSecrets
<1>6. CASE q \in DownloadClientSecrets(s)
    <2>1. \E p \in s.downloadClients : \E r \in p.credentialsSecretRef :
              q = Ref(4, r.name, <<r.usernameKey, r.passwordKey>>)
        BY <1>6, Zenon DEF DownloadClientSecrets, PairRefs
    <2>. QED  BY <1>3, <2>1
<1>7. CASE q \in IndexerSecrets(s)
    <2>1. PICK i \in s.indexers : q \in KeyRefs(6, i.direct)
        BY <1>7 DEF IndexerSecrets
    <2>2. \E p \in i.direct : \E r \in p.apiKeySecretRef : q = Ref(6, r.name, <<r.key>>)
        BY <2>1, Zenon DEF KeyRefs
    <2>. QED  BY <1>2, <2>2
<1>8. CASE q \in ImportListSecrets(s)
    <2>1. \E p \in s.importLists : \E r \in p.settingsSecretRef : q = Ref(8, r.name, AllKeys)
        BY <1>8, Zenon DEF ImportListSecrets
    <2>. QED  BY <1>4, <2>1
<1>9. CASE q \in AuthenticationSecrets(s)
    <2>1. \E p \in s.authentication : \E r \in p.passwordSecretRef : q = Ref(10, r.name, <<r.key>>)
        BY <1>9, Zenon DEF AuthenticationSecrets
    <2>. QED  BY <1>2, <2>1
<1>10. CASE q \in ProwlarrIndexerSecrets(s) \cup ApplicationSecrets(s)
    <2>1. \/ \E p \in s.indexers : \E r \in p.apiKeySecretRef : q = Ref(6, r.name, <<r.key>>)
          \/ \E p \in s.applications : \E r \in p.apiKeySecretRef : q = Ref(10, r.name, <<r.key>>)
        BY <1>10, Zenon DEF ProwlarrIndexerSecrets, ApplicationSecrets, KeyRefs
    <2>. QED  BY <1>2, <2>1
<1>11. CASE q \in ProxySecrets(s)
    <2>1. \E p \in s.proxies : \E r \in p.credentialsSecretRef :
              q = Ref(8, r.name, <<r.usernameKey, r.passwordKey>>)
        BY <1>11, Zenon DEF ProxySecrets, PairRefs
    <2>. QED  BY <1>3, <2>1
<1>. QED
    BY <1>5, <1>6, <1>7, <1>8, <1>9, <1>10, <1>11 DEF SecretsOf

\* The references of the clients, those of the *arr applications, and Prowlarr's.
LEMMA ClientRefs ==
    ASSUME NEW a, NEW s, NEW c \in s.downloadClients, NEW r \in c.credentialsSecretRef
    PROVE  Ref(4, r.name, <<r.usernameKey, r.passwordKey>>) \in SecretsOf(a, s)
<1>1. Ref(4, r.name, <<r.usernameKey, r.passwordKey>>) \in DownloadClientSecrets(s)
    BY DEF DownloadClientSecrets, PairRefs
<1>. QED
    BY <1>1, Zenon DEF SecretsOf

LEMMA ArrRefs ==
    ASSUME NEW a, a # "prowlarr", NEW s
    PROVE  /\ \A x \in s.indexers : \A i \in x.direct : \A r \in i.apiKeySecretRef :
                  Ref(6, r.name, <<r.key>>) \in SecretsOf(a, s)
           /\ \A l \in s.importLists : \A r \in l.settingsSecretRef :
                  Ref(8, r.name, AllKeys) \in SecretsOf(a, s)
           /\ \A x \in s.authentication : \A r \in x.passwordSecretRef :
                  Ref(10, r.name, <<r.key>>) \in SecretsOf(a, s)
<1>1. IndexerSecrets(s) \cup ImportListSecrets(s) \cup AuthenticationSecrets(s) \subseteq SecretsOf(a, s)
    BY DEF SecretsOf
<1>2. \A x \in s.indexers : \A i \in x.direct : \A r \in i.apiKeySecretRef :
          Ref(6, r.name, <<r.key>>) \in IndexerSecrets(s)
    BY DEF IndexerSecrets, KeyRefs
<1>3. \A l \in s.importLists : \A r \in l.settingsSecretRef : Ref(8, r.name, AllKeys) \in ImportListSecrets(s)
    BY DEF ImportListSecrets
<1>4. \A x \in s.authentication : \A r \in x.passwordSecretRef :
          Ref(10, r.name, <<r.key>>) \in AuthenticationSecrets(s)
    BY DEF AuthenticationSecrets
<1>. QED
    BY <1>1, <1>2, <1>3, <1>4, Zenon

LEMMA ProwlarrRefs ==
    ASSUME NEW a, a = "prowlarr", NEW s
    PROVE  /\ \A i \in s.indexers : \A r \in i.apiKeySecretRef : Ref(6, r.name, <<r.key>>) \in SecretsOf(a, s)
           /\ \A p \in s.proxies : \A r \in p.credentialsSecretRef :
                  Ref(8, r.name, <<r.usernameKey, r.passwordKey>>) \in SecretsOf(a, s)
           /\ \A x \in s.applications : \A r \in x.apiKeySecretRef :
                  Ref(10, r.name, <<r.key>>) \in SecretsOf(a, s)
<1>1. ProwlarrIndexerSecrets(s) \cup ProxySecrets(s) \cup ApplicationSecrets(s) \subseteq SecretsOf(a, s)
    BY DEF SecretsOf
<1>2. \A i \in s.indexers : \A r \in i.apiKeySecretRef : Ref(6, r.name, <<r.key>>) \in ProwlarrIndexerSecrets(s)
    BY DEF ProwlarrIndexerSecrets, KeyRefs
<1>3. \A p \in s.proxies : \A r \in p.credentialsSecretRef :
          Ref(8, r.name, <<r.usernameKey, r.passwordKey>>) \in ProxySecrets(s)
    BY DEF ProxySecrets, PairRefs
<1>4. \A x \in s.applications : \A r \in x.apiKeySecretRef : Ref(10, r.name, <<r.key>>) \in ApplicationSecrets(s)
    BY DEF ApplicationSecrets, KeyRefs
<1>. QED
    BY <1>1, <1>2, <1>3, <1>4, Zenon

\* A reference to one key needs its entry.
LEMMA KeyIsNeeded ==
    ASSUME NEW a, NEW s, NEW r, NEW rank \in {6, 10}, Ref(rank, r.name, <<r.key>>) \in SecretsOf(a, s)
    PROVE  <<r.name, r.key>> \in Needed(a, s)
<1>. DEFINE q == Ref(rank, r.name, <<r.key>>)
<1>1. q \in SecretsOf(a, s)
    OBVIOUS
<1>2. q.rank # 2 /\ q.name = r.name /\ 1 \in DOMAIN q.keys /\ q.keys[1] = r.key
    BY DEF Ref
<1>3. <<r.name, r.key>> \in Entries(q)
    BY <1>2 DEF Entries
<1>. QED
    BY <1>1, <1>3 DEF Needed

\* A reference to a user name and a password needs both entries.
LEMMA PairIsNeeded ==
    ASSUME NEW a, NEW s, NEW r, NEW rank \in {4, 8},
           Ref(rank, r.name, <<r.usernameKey, r.passwordKey>>) \in SecretsOf(a, s)
    PROVE  /\ <<r.name, r.usernameKey>> \in Needed(a, s)
           /\ <<r.name, r.passwordKey>> \in Needed(a, s)
<1>. DEFINE q == Ref(rank, r.name, <<r.usernameKey, r.passwordKey>>)
<1>1. q \in SecretsOf(a, s)
    OBVIOUS
<1>2. /\ q.rank # 2 /\ q.name = r.name
      /\ 1 \in DOMAIN q.keys /\ q.keys[1] = r.usernameKey
      /\ 2 \in DOMAIN q.keys /\ q.keys[2] = r.passwordKey
    BY DEF Ref
<1>3. {<<r.name, r.usernameKey>>, <<r.name, r.passwordKey>>} \subseteq Entries(q)
    BY <1>2 DEF Entries
<1>. QED
    BY <1>1, <1>3 DEF Needed

\* A value that the entry has had is a value of the key.
LEMMA HadIsValue ==
    ASSUME NEW name, NEW key, NEW v \in Had(<<name, key>>)
    PROVE  v \in SecretValues(name, key)
BY DEF Had, SecretValues

(***************************************************************************)
(* What the compiler makes of the references.                              *)
(***************************************************************************)

\* An entry was read, with a value that it has had.
Backed(read, e) == e \in DOMAIN read /\ read[e] \in Had(e)

\* A key of an entry that was read is a value of the key.
LEMMA KeyIsBacked ==
    ASSUME NEW read, NEW ref, ref # None,
           \A r \in ref : Backed(read, <<r.name, r.key>>)
    PROVE  FromKey(ref, KeyOf(ref, read))
<1>. DEFINE r == CHOOSE r \in ref : TRUE
<1>1. r \in ref
    BY DEF None
<1>2. KeyOf(ref, read) = read[<<r.name, r.key>>]
    BY <1>1 DEF KeyOf, Resolved, Backed
<1>3. read[<<r.name, r.key>>] \in SecretValues(r.name, r.key)
    BY <1>1, HadIsValue DEF Backed
<1>. QED
    BY <1>1, <1>2, <1>3 DEF FromKey

\* The same of a user name and a password.
LEMMA PairIsBacked ==
    ASSUME NEW read, NEW ref, ref # None,
           \A r \in ref : /\ Backed(read, <<r.name, r.usernameKey>>)
                         /\ Backed(read, <<r.name, r.passwordKey>>)
    PROVE  FromPair(ref, Credentials(ref, read)[1], Credentials(ref, read)[2])
<1>. DEFINE r == CHOOSE r \in ref : TRUE
<1>1. r \in ref
    BY DEF None
<1>2. /\ Credentials(ref, read)[1] = read[<<r.name, r.usernameKey>>]
      /\ Credentials(ref, read)[2] = read[<<r.name, r.passwordKey>>]
    BY <1>1 DEF Credentials, Resolved, Backed
<1>3. /\ read[<<r.name, r.usernameKey>>] \in SecretValues(r.name, r.usernameKey)
      /\ read[<<r.name, r.passwordKey>>] \in SecretValues(r.name, r.passwordKey)
    BY <1>1, HadIsValue DEF Backed
<1>. QED
    BY <1>1, <1>2, <1>3 DEF FromPair

\* A secret has a name.
Proper(name) == name # ""

\* What is known of the entries: they are pairs, and have had what was read.
Sound(read) ==
    /\ \A n \in pass.stores : \A e \in DOMAIN Data(n) : e = <<e[1], e[2]>>
    /\ \A e \in DOMAIN read : e # ConnectionKey => read[e] \in Had(e)

\* A setting that comes from a secret is a value of its key.
LEMMA OverlayIsReal ==
    ASSUME NEW read, Sound(read), NEW ref, NEW given, NEW e \in DOMAIN read,
           e[1] \in {r.name : r \in ref},
           \A f \in DOMAIN read : f[1] \in {r.name : r \in ref} /\ f[2] = e[2] => f # ConnectionKey
    PROVE  /\ e[2] \in DOMAIN SecretSettings(ref, given, read)
           /\ FromSecret(ref, e[2], SecretSettings(ref, given, read)[e[2]])
<1>. DEFINE keys == {f \in DOMAIN read : f[1] \in {r.name : r \in ref}}
            over == {f[2] : f \in keys}
            f    == CHOOSE x \in keys : x[2] = e[2]
<1>1. f \in keys /\ f[2] = e[2]
    <2>1. e \in keys /\ e[2] = e[2]
        OBVIOUS
    <2>. HIDE DEF keys
    <2>. QED  BY <2>1, Zenon
<1>2. SecretSettings(ref, given, read) = [k \in over \cup DOMAIN given |->
          IF k \in over THEN read[CHOOSE x \in keys : x[2] = k] ELSE given[k]]
    BY DEF SecretSettings
<1>3. e[2] \in over
    OBVIOUS
<1>. HIDE DEF over, f
<1>4. e[2] \in DOMAIN SecretSettings(ref, given, read) /\ SecretSettings(ref, given, read)[e[2]] = read[f]
    BY <1>2, <1>3 DEF f
<1>5. read[f] \in Had(f)
    BY <1>1 DEF Sound
<1>6. PICK n \in pass.stores : f \in DOMAIN Data(n)
    BY <1>5 DEF Had
<1>7. f = <<f[1], f[2]>>
    BY <1>6 DEF Sound
<1>8. PICK r \in ref : f[1] = r.name
    BY <1>1
<1>9. read[f] \in SecretValues(r.name, e[2])
    BY <1>1, <1>5, <1>7, <1>8, HadIsValue
<1>. QED
    BY <1>4, <1>9 DEF FromSecret

\* A setting that does not is the one given.
LEMMA SettingIsGiven ==
    ASSUME NEW read, NEW ref, NEW given, NEW k \in DOMAIN SecretSettings(ref, given, read),
           ~\E e \in DOMAIN read : e[1] \in {r.name : r \in ref} /\ e[2] = k
    PROVE  k \in DOMAIN given /\ SecretSettings(ref, given, read)[k] = given[k]
<1>. DEFINE keys == {f \in DOMAIN read : f[1] \in {r.name : r \in ref}}
            over == {f[2] : f \in keys}
<1>1. SecretSettings(ref, given, read) = [j \in over \cup DOMAIN given |->
          IF j \in over THEN read[CHOOSE x \in keys : x[2] = j] ELSE given[j]]
    BY DEF SecretSettings
<1>2. k \notin over
    OBVIOUS
<1>. HIDE DEF over, keys
<1>. QED
    BY <1>1, <1>2

\* The settings of a list whose secret was read.
LEMMA SettingsAreBacked ==
    ASSUME NEW read, Sound(read), NEW ref, NEW given,
           \A r \in ref : Proper(r.name) /\ Taken(r.name, read)
    PROVE  FromSettings(ref, given, SecretSettings(ref, given, read))
<1>. DEFINE settings == SecretSettings(ref, given, read)
<1>1. \A f \in DOMAIN read : f[1] \in {r.name : r \in ref} => f # ConnectionKey
    <2>1. ConnectionKey[1] = ""
        BY Zenon DEF ConnectionKey
    <2>. QED  BY <2>1, Zenon DEF Proper
<1>2. \A e \in DOMAIN read : e[1] \in {r.name : r \in ref} =>
          e[2] \in DOMAIN settings /\ FromSecret(ref, e[2], settings[e[2]])
    BY <1>1, OverlayIsReal
<1>3. ASSUME NEW k \in DOMAIN settings
      PROVE  (k \in DOMAIN given /\ settings[k] = given[k]) \/ FromSecret(ref, k, settings[k])
    <2>1. CASE \E e \in DOMAIN read : e[1] \in {r.name : r \in ref} /\ e[2] = k
        <3>. HIDE DEF settings
        <3>. QED  BY <1>2, <2>1
    <2>2. CASE ~\E e \in DOMAIN read : e[1] \in {r.name : r \in ref} /\ e[2] = k
        BY <2>2, SettingIsGiven
    <2>. QED  BY <2>1, <2>2
<1>4. ASSUME NEW r \in ref, NEW n \in pass.stores, NEW e \in DOMAIN Data(n), e[1] = r.name,
             \A m \in pass.stores : e \in DOMAIN Data(m)
      PROVE  e[2] \in DOMAIN settings /\ FromSecret(ref, e[2], settings[e[2]])
    <2>1. PICK m \in pass.stores : \A f \in DOMAIN Data(m) : f[1] = r.name => f \in DOMAIN read
        BY Zenon DEF Taken
    <2>2. e \in DOMAIN read
        BY <1>4, <2>1
    <2>. HIDE DEF settings
    <2>. QED
        BY <1>2, <1>4, <2>2
<1>. HIDE DEF settings
<1>5. FromSettings(ref, given, settings)
    BY <1>3, <1>4 DEF FromSettings
<1>. QED
    BY <1>5 DEF settings

\* The address of a notification.
LEMMA UrlIsBacked ==
    ASSUME NEW read, Sound(read), NEW ref, NEW url
    PROVE  LET found == SecretSettings(ref, [url |-> url], read).url
           IN  found = url \/ FromSecret(ref, "url", found)
<1>. DEFINE given == [url |-> url]
<1>1. "url" \in DOMAIN SecretSettings(ref, given, read)
    BY DEF SecretSettings
<1>2. CASE \E e \in DOMAIN read : e[1] \in {r.name : r \in ref} /\ e[2] = "url"
    <2>1. PICK e \in DOMAIN read : e[1] \in {r.name : r \in ref} /\ e[2] = "url"
        BY <1>2
    <2>2. \A f \in DOMAIN read : f[2] = "url" => f # ConnectionKey
        <3>1. ConnectionKey[2] = "apiKey"
            BY DEF ConnectionKey
        <3>. QED  BY <3>1
    <2>3. FromSecret(ref, e[2], SecretSettings(ref, given, read)[e[2]])
        BY <2>1, <2>2, OverlayIsReal
    <2>. QED
        BY <2>1, <2>3
<1>3. CASE ~\E e \in DOMAIN read : e[1] \in {r.name : r \in ref} /\ e[2] = "url"
    <2>1. SecretSettings(ref, given, read)["url"] = given["url"]
        BY <1>1, <1>3, SettingIsGiven
    <2>. QED
        BY <2>1
<1>. QED
    BY <1>2, <1>3

\* The resources of the *arr compilers that carry credentials, by kind.
LEMMA CommonKinds ==
    ASSUME NEW a, NEW s, NEW config, NEW read, NEW d \in CommonResources(a, s, config, read)
    PROVE  /\ d.kind = "DownloadClient" =>
                  d \in compileDownloadClients(convertDownloadClients(s.downloadClients, read), config)
           /\ d.kind = "Indexer" => d \in compileIndexers(convertIndexers(s.indexers, read), config)
           /\ d.kind = "ImportList" => d \in compileImportListsToIR(a, convertImportLists(s.importLists, read))
           /\ d.kind = "Authentication" =>
                  d \in compileAuthenticationToIR(convertAuthentication(s.authentication, read))
           /\ d.kind = "Notification" =>
                  d \in compileNotificationsToIR(convertNotifications(s.notifications, read), config)
<1>1. \A x \in compileRemotePathMappings(convertRemotePathMappings(s.remotePathMappings)) :
          x.kind = "RemotePathMapping"
    BY DEF compileRemotePathMappings, Resource
<1>2. \A x \in compileImportListsToIR(a, convertImportLists(s.importLists, read)) : x.kind = "ImportList"
    BY DEF compileImportListsToIR, Resource
<1>3. \A x \in compileMediaManagementToIR(a, convertMediaManagement(s.mediaManagement)) :
          x.kind = "MediaManagement"
    BY DEF compileMediaManagementToIR, Resource
<1>4. \A x \in compileAuthenticationToIR(convertAuthentication(s.authentication, read)) :
          x.kind = "Authentication"
    BY DEF compileAuthenticationToIR, Resource
<1>5. \A x \in compileNotificationsToIR(convertNotifications(s.notifications, read), config) :
          x.kind = "Notification"
    BY DEF compileNotificationsToIR, Resource
<1>6. \A x \in compileDownloadClients(convertDownloadClients(s.downloadClients, read), config) :
          x.kind = "DownloadClient"
    BY DEF compileDownloadClients, Resource
<1>7. \A x \in compileIndexers(convertIndexers(s.indexers, read), config) : x.kind = "Indexer"
    BY DEF compileIndexers, Resource
<1>. QED
    BY <1>1, <1>2, <1>3, <1>4, <1>5, <1>6, <1>7 DEF CommonResources

\* The kinds of the *arr compilers that carry credentials.
Credentialed == {"DownloadClient", "Indexer", "ImportList", "Authentication", "Notification"}

\* What the *arr compilers add to the common part carries none.
LEMMA ArrKinds ==
    ASSUME NEW a \in Apps \ {"prowlarr"}, NEW s, NEW config, NEW read, NEW caps,
           NEW d \in Compile(a, s, config, read, caps), d.kind \in Credentialed
    PROVE  d \in CommonResources(a, s, config, read)
<1>1. pruneUnsupported(CommonResources(a, s, config, read), caps) \subseteq CommonResources(a, s, config, read)
    BY DEF pruneUnsupported
<1>2. \A x \in RootFolders(s.rootFolders) : x.kind = "RootFolder"
    BY DEF RootFolders, Resource
<1>3. \A x \in compileNaming(a, s.naming) : x.kind = "NamingConfig"
    BY DEF compileNaming, Resource
<1>4. \A x \in compileDelayProfilesToIR(convertDelayProfiles(s.delayProfiles)) : x.kind = "DelayProfile"
    BY DEF compileDelayProfilesToIR, Resource
<1>5. \A name, cfg : /\ Resource("QualityProfile", NoId, name, cfg).kind = "QualityProfile"
                     /\ Resource("CustomFormat", NoId, name, cfg).kind = "CustomFormat"
                     /\ Resource("RootFolder", NoId, name, cfg).kind = "RootFolder"
    BY DEF Resource
<1>6. CASE a = "radarr"
    <2>1. d \in CompileRadarrConfig(s, config, read, caps)
        BY <1>6 DEF Compile
    <2>. QED
        BY <1>1, <1>2, <1>3, <1>4, <1>5, <1>6, <2>1, ZenonT(60) DEF CompileRadarrConfig, Credentialed
<1>7. CASE a = "sonarr"
    <2>1. d \in CompileSonarrConfig(s, config, read, caps)
        BY <1>7 DEF Compile
    <2>2. \A x \in compileCustomFormatsToIR(s.customFormats, config) : x.kind = "CustomFormat"
        BY <1>5 DEF compileCustomFormatsToIR
    <2>. QED
        BY <1>1, <1>2, <1>3, <1>4, <1>5, <1>7, <2>1, <2>2 DEF CompileSonarrConfig, Credentialed
<1>8. CASE a = "lidarr"
    <2>1. d \in CompileLidarrConfig(s, config, read, caps)
        BY <1>8 DEF Compile
    <2>. QED
        BY <1>1, <1>3, <1>5, <1>8, <2>1 DEF CompileLidarrConfig, Credentialed
<1>9. CASE a = "readarr"
    <2>1. d \in CompileReadarrConfig(s, config, read, caps)
        BY <1>9 DEF Compile
    <2>2. \A p : compileMetadataProfile(p, config).kind = "MetadataProfile"
        BY DEF compileMetadataProfile, Resource
    <2>. QED
        BY <1>1, <1>2, <1>5, <1>9, <2>1, <2>2 DEF CompileReadarrConfig, Credentialed
<1>. QED
    BY <1>6, <1>7, <1>8, <1>9 DEF Apps

\* The same of Prowlarr's.
LEMMA ProwlarrKinds ==
    ASSUME NEW s, NEW config, NEW read, NEW caps,
           NEW d \in Compile("prowlarr", s, config, read, caps)
    PROVE  /\ d.kind = "DownloadClient" => d \in compileProwlarrDownloadClients(s.downloadClients, config, read)
           /\ d.kind = "Indexer" => d \in compileProwlarrIndexers(s.indexers, config, read)
           /\ d.kind = "IndexerProxy" => d \in compileProwlarrProxies(s.proxies, config, read)
           /\ d.kind = "Application" =>
                  d \in compileProwlarrApplications(s.applications, config, Text(s.connection.url), read)
<1>1. d \in CompileProwlarrConfig(s, config, read)
    BY DEF Compile
<1>2. \A x \in compileProwlarrIndexers(s.indexers, config, read) : x.kind = "Indexer"
    BY DEF compileProwlarrIndexers, Resource
<1>3. \A x \in compileProwlarrProxies(s.proxies, config, read) : x.kind = "IndexerProxy"
    BY DEF compileProwlarrProxies, Resource
<1>4. \A x \in compileProwlarrApplications(s.applications, config, Text(s.connection.url), read) :
          x.kind = "Application"
    BY DEF compileProwlarrApplications, Resource
<1>5. \A x \in compileProwlarrDownloadClients(s.downloadClients, config, read) : x.kind = "DownloadClient"
    BY DEF compileProwlarrDownloadClients, Resource
<1>. QED
    BY <1>1, <1>2, <1>3, <1>4, <1>5 DEF CompileProwlarrConfig

\* With everything needed read, what the compiler makes is founded: for the
\* *arr applications and for Prowlarr.
LEMMA ArrIsFounded ==
    ASSUME app \in Apps \ {"prowlarr"}, NEW s, NEW read, NEW caps, Sound(read),
           \A e \in Needed(app, s) : Backed(read, e),
           \A q \in SecretsOf(app, s) : q.keys = AllKeys => Proper(q.name) /\ Taken(q.name, read)
    PROVE  Founded(s, Compile(app, s, Config, read, caps))
<1>. DEFINE ir == Compile(app, s, Config, read, caps)
<1>1. \A d \in ir : d.kind \in Credentialed => d \in CommonResources(app, s, Config, read)
    BY ArrKinds
<1>. HIDE DEF ir
<1>2. FoundedClients(s, ir)
    <2>1. SUFFICES ASSUME NEW d \in Of(ir, "DownloadClient")
          PROVE  \E c \in s.downloadClients :
                     /\ d.name = Owned(Config, c.name)
                     /\ c.credentialsSecretRef # None => FromPair(c.credentialsSecretRef, d.cfg.cred[1], d.cfg.cred[2])
        BY DEF FoundedClients
    <2>2. d \in compileDownloadClients(convertDownloadClients(s.downloadClients, read), Config)
        BY <1>1, CommonKinds DEF Of, Credentialed
    <2>3. PICK c \in s.downloadClients :
              d.name = Owned(Config, c.name) /\ d.cfg.cred = Credentials(c.credentialsSecretRef, read)
        BY <2>2 DEF compileDownloadClients, convertDownloadClients, Resource
    <2>4. \A r \in c.credentialsSecretRef : Ref(4, r.name, <<r.usernameKey, r.passwordKey>>) \in SecretsOf(app, s)
        BY ClientRefs
    <2>. QED
        BY <2>3, <2>4, PairIsNeeded, PairIsBacked
<1>3. FoundedIndexers(s, ir)
    <2>1. SUFFICES ASSUME NEW d \in Of(ir, "Indexer")
          PROVE  \E i \in UsedIndexers(s) :
                     /\ d.name = Owned(Config, i.name)
                     /\ i.apiKeySecretRef # None => FromKey(i.apiKeySecretRef, d.cfg.key)
        BY DEF FoundedIndexers
    <2>2. d \in compileIndexers(convertIndexers(s.indexers, read), Config)
        BY <1>1, CommonKinds DEF Of, Credentialed
    <2>3. PICK x \in s.indexers : \E i \in x.direct :
              /\ x.prowlarrRef = None
              /\ d.name = Owned(Config, i.name) /\ d.cfg.key = KeyOf(i.apiKeySecretRef, read)
        BY <2>2 DEF compileIndexers, convertIndexers, Resource
    <2>4. PICK i \in x.direct : d.name = Owned(Config, i.name) /\ d.cfg.key = KeyOf(i.apiKeySecretRef, read)
        BY <2>3
    <2>5. \A r \in i.apiKeySecretRef : Ref(6, r.name, <<r.key>>) \in SecretsOf(app, s)
        BY <2>3, <2>4, ArrRefs
    <2>6. i \in UsedIndexers(s)
        BY <2>3, <2>4 DEF UsedIndexers
    <2>. QED
        BY <2>4, <2>5, <2>6, KeyIsNeeded, KeyIsBacked
<1>4. ASSUME NEW d \in Of(ir, "ImportList")
      PROVE  \E l \in s.importLists :
                 d.name = UserName(l.name) /\ FromSettings(l.settingsSecretRef, l.settings, d.cfg.settings)
    <2>1. d \in compileImportListsToIR(app, convertImportLists(s.importLists, read))
        BY <1>1, CommonKinds DEF Of, Credentialed
    <2>2. PICK l \in s.importLists :
              d.name = UserName(l.name) /\ d.cfg.settings = SecretSettings(l.settingsSecretRef, l.settings, read)
        BY <2>1 DEF compileImportListsToIR, convertImportLists, Resource
    <2>3. ASSUME NEW r \in l.settingsSecretRef
          PROVE  Proper(r.name) /\ Taken(r.name, read)
        <3>1. Ref(8, r.name, AllKeys) \in SecretsOf(app, s)
            BY ArrRefs
        <3>2. Ref(8, r.name, AllKeys).keys = AllKeys /\ Ref(8, r.name, AllKeys).name = r.name
            BY DEF Ref
        <3>. QED
            BY <3>1, <3>2, Zenon
    <2>. QED
        BY <2>2, <2>3, SettingsAreBacked
<1>5. ASSUME NEW d \in Of(ir, "Authentication")
      PROVE  \E a \in s.authentication :
                 a.passwordSecretRef # None => FromKey(a.passwordSecretRef, d.cfg.password)
    <2>1. d \in compileAuthenticationToIR(convertAuthentication(s.authentication, read))
        BY <1>1, CommonKinds DEF Of, Credentialed
    <2>2. PICK a \in s.authentication : d.cfg.password = KeyOf(a.passwordSecretRef, read)
        BY <2>1 DEF compileAuthenticationToIR, convertAuthentication, Resource
    <2>3. \A r \in a.passwordSecretRef : Ref(10, r.name, <<r.key>>) \in SecretsOf(app, s)
        BY ArrRefs
    <2>. QED
        BY <2>2, <2>3, KeyIsNeeded, KeyIsBacked
<1>6. ASSUME NEW d \in Of(ir, "Notification")
      PROVE  \E n \in s.notifications :
                 /\ d.name = Owned(Config, n.name)
                 /\ d.cfg.url = n.url \/ FromSecret(n.settingsSecretRef, "url", d.cfg.url)
    <2>1. d \in compileNotificationsToIR(convertNotifications(s.notifications, read), Config)
        BY <1>1, CommonKinds DEF Of, Credentialed
    <2>2. PICK n \in s.notifications :
              /\ d.name = Owned(Config, n.name)
              /\ d.cfg.url = SecretSettings(n.settingsSecretRef, [url |-> n.url], read).url
        BY <2>1 DEF compileNotificationsToIR, convertNotifications, Resource
    <2>. QED
        BY <2>2, UrlIsBacked
<1>7. FoundedArr(s, ir)
    BY <1>4, <1>5, <1>6, Zenon DEF FoundedArr
<1>. QED
    BY <1>2, <1>3, <1>7 DEF Founded, ir

LEMMA ProwlarrIsFounded ==
    ASSUME app = "prowlarr", NEW s, NEW read, NEW caps,
           \A e \in Needed(app, s) : Backed(read, e)
    PROVE  Founded(s, Compile(app, s, Config, read, caps))
<1>. DEFINE ir == Compile(app, s, Config, read, caps)
<1>1. ASSUME NEW c, NEW rank \in {4, 8}, c.credentialsSecretRef # None,
             \A r \in c.credentialsSecretRef :
                 Ref(rank, r.name, <<r.usernameKey, r.passwordKey>>) \in SecretsOf(app, s)
      PROVE  FromPair(c.credentialsSecretRef, Credentials(c.credentialsSecretRef, read)[1],
                      Credentials(c.credentialsSecretRef, read)[2])
    BY <1>1, PairIsNeeded, PairIsBacked
<1>2. ASSUME NEW i, NEW rank \in {6, 10}, i.apiKeySecretRef # None,
             \A r \in i.apiKeySecretRef : Ref(rank, r.name, <<r.key>>) \in SecretsOf(app, s)
      PROVE  FromKey(i.apiKeySecretRef, KeyOf(i.apiKeySecretRef, read))
    BY <1>2, KeyIsNeeded, KeyIsBacked
<1>3. FoundedClients(s, ir)
    <2>1. SUFFICES ASSUME NEW d \in Of(ir, "DownloadClient")
          PROVE  \E c \in s.downloadClients :
                     /\ d.name = Owned(Config, c.name)
                     /\ c.credentialsSecretRef # None => FromPair(c.credentialsSecretRef, d.cfg.user, d.cfg.cred)
        BY DEF FoundedClients
    <2>2. d \in compileProwlarrDownloadClients(s.downloadClients, Config, read)
        BY ProwlarrKinds DEF Of
    <2>3. PICK c \in s.downloadClients :
              /\ d.name = Owned(Config, c.name)
              /\ d.cfg.user = Credentials(c.credentialsSecretRef, read)[1]
              /\ d.cfg.cred = Credentials(c.credentialsSecretRef, read)[2]
        BY <2>2 DEF compileProwlarrDownloadClients, Resource
    <2>4. \A r \in c.credentialsSecretRef : Ref(4, r.name, <<r.usernameKey, r.passwordKey>>) \in SecretsOf(app, s)
        BY ClientRefs
    <2>. QED
        BY <1>1, <2>3, <2>4
<1>4. FoundedIndexers(s, ir)
    <2>1. SUFFICES ASSUME NEW d \in Of(ir, "Indexer")
          PROVE  \E i \in UsedIndexers(s) :
                     /\ d.name = Owned(Config, i.name)
                     /\ i.apiKeySecretRef # None => FromKey(i.apiKeySecretRef, d.cfg.key)
        BY DEF FoundedIndexers
    <2>2. d \in compileProwlarrIndexers(s.indexers, Config, read)
        BY ProwlarrKinds DEF Of
    <2>3. PICK i \in s.indexers : d.name = Owned(Config, i.name) /\ d.cfg.key = KeyOf(i.apiKeySecretRef, read)
        BY <2>2 DEF compileProwlarrIndexers, Resource
    <2>4. /\ \A r \in i.apiKeySecretRef : Ref(6, r.name, <<r.key>>) \in SecretsOf(app, s)
          /\ UsedIndexers(s) = s.indexers
        BY ProwlarrRefs DEF UsedIndexers
    <2>. QED
        BY <1>2, <2>3, <2>4
<1>5. ASSUME NEW d \in Of(ir, "IndexerProxy")
      PROVE  \E p \in s.proxies :
                 /\ d.name = Owned(Config, p.name)
                 /\ p.credentialsSecretRef # None => FromPair(p.credentialsSecretRef, d.cfg.user, d.cfg.cred)
    <2>1. d \in compileProwlarrProxies(s.proxies, Config, read)
        BY ProwlarrKinds DEF Of
    <2>2. PICK p \in s.proxies :
              /\ d.name = Owned(Config, p.name)
              /\ d.cfg.user = Credentials(p.credentialsSecretRef, read)[1]
              /\ d.cfg.cred = Credentials(p.credentialsSecretRef, read)[2]
        BY <2>1 DEF compileProwlarrProxies, Resource
    <2>3. \A r \in p.credentialsSecretRef : Ref(8, r.name, <<r.usernameKey, r.passwordKey>>) \in SecretsOf(app, s)
        BY ProwlarrRefs
    <2>. QED
        BY <1>1, <2>2, <2>3
<1>6. ASSUME NEW d \in Of(ir, "Application")
      PROVE  \E a \in s.applications :
                 /\ d.name = Owned(Config, a.name)
                 /\ a.apiKeySecretRef # None => FromKey(a.apiKeySecretRef, d.cfg.key)
    <2>1. d \in compileProwlarrApplications(s.applications, Config, Text(s.connection.url), read)
        BY ProwlarrKinds DEF Of
    <2>2. PICK a \in s.applications : d.name = Owned(Config, a.name) /\ d.cfg.key = KeyOf(a.apiKeySecretRef, read)
        BY <2>1 DEF compileProwlarrApplications, Resource
    <2>3. \A r \in a.apiKeySecretRef : Ref(10, r.name, <<r.key>>) \in SecretsOf(app, s)
        BY ProwlarrRefs
    <2>. QED
        BY <1>2, <2>2, <2>3
<1>. HIDE DEF ir
<1>7. FoundedProwlarr(s, ir)
    BY <1>5, <1>6, Zenon DEF FoundedProwlarr
<1>. QED
    BY <1>3, <1>4, <1>7 DEF Founded, ir

(***************************************************************************)
(* What a step leaves alone.  The application never changes.               *)
(***************************************************************************)
\* What depends on the application alone.
LEMMA SceneKept ==
    ASSUME app' = app
    PROVE  /\ scene' = scene
           /\ \A n : SpecOf(n)' = SpecOf(n)
           /\ \A n : Data(n)' = Data(n)
<1>1. scene' = scene
    BY DEF scene
<1>. QED
    BY <1>1 DEF SpecOf, Data

\* What depends on the secrets during the Gets as well.
LEMMA FoundedKept ==
    ASSUME app' = app, pass'.stores = pass.stores
    PROVE  /\ \A e : Had(e)' = Had(e)
           /\ \A name, read : Taken(name, read)' <=> Taken(name, read)
           /\ \A s, d : Founded(s, d)' <=> Founded(s, d)
<1>1. \A n : Data(n)' = Data(n)
    BY SceneKept
<1>2. \A e : Had(e)' = Had(e)
    BY <1>1 DEF Had
<1>3. \A name, read : Taken(name, read)' <=> Taken(name, read)
    BY <1>1 DEF Taken
<1>4. \A n, k : SecretValues(n, k)' = SecretValues(n, k)
    BY <1>1 DEF SecretValues
<1>5. \A ref, v : FromKey(ref, v)' <=> FromKey(ref, v)
    BY <1>4 DEF FromKey
<1>6. \A ref, u, v : FromPair(ref, u, v)' <=> FromPair(ref, u, v)
    BY <1>4 DEF FromPair
<1>7. \A ref, k, v : FromSecret(ref, k, v)' <=> FromSecret(ref, k, v)
    BY <1>4 DEF FromSecret
<1>8. \A ref, given, settings : FromSettings(ref, given, settings)' <=> FromSettings(ref, given, settings)
    BY <1>1, <1>7 DEF FromSettings
<1>9. \A s : UsedIndexers(s)' = UsedIndexers(s)
    BY DEF UsedIndexers
<1>10. \A s, d : FoundedClients(s, d)' <=> FoundedClients(s, d)
    BY <1>6 DEF FoundedClients
<1>11. \A s, d : FoundedIndexers(s, d)' <=> FoundedIndexers(s, d)
    BY <1>5, <1>9 DEF FoundedIndexers
<1>12. \A s, d : FoundedProwlarr(s, d)' <=> FoundedProwlarr(s, d)
    BY <1>5, <1>6 DEF FoundedProwlarr
<1>13. \A s, d : FoundedArr(s, d)' <=> FoundedArr(s, d)
    BY <1>5, <1>7, <1>8 DEF FoundedArr
<1>14. \A s, d : Founded(s, d)' <=> Founded(s, d)
    BY <1>10, <1>11, <1>12, <1>13 DEF Founded
<1>. QED
    BY <1>2, <1>3, <1>14

\* A step that does not touch the pass.
LEMMA PassKept ==
    ASSUME app' = app, pass' = pass, store' = store, PassInv
    PROVE  PassInv'
<1>1. PassTyped'
    BY SceneKept DEF PassInv, PassTyped, Waiting
<1>2. ReadIsHad'
    BY FoundedKept DEF PassInv, ReadIsHad
<1>3. Owed'
    BY SceneKept, FoundedKept DEF PassInv, Owed
<1>4. CredentialsFromSecrets'
    BY SceneKept, FoundedKept DEF PassInv, CredentialsFromSecrets
<1>. QED
    BY <1>1, <1>2, <1>3, <1>4 DEF PassInv

\* Of nothing there is nothing to found.
LEMMA NothingIsFounded ==
    \A s : Founded(s, {})'
<1>1. \A kind : Of({}, kind) = {}
    BY DEF Of
<1>. QED
    BY <1>1 DEF Founded, FoundedClients, FoundedIndexers, FoundedProwlarr, FoundedArr

\* A pass that starts, or ends: nothing is desired, nothing has been read.
LEMMA PassFresh ==
    ASSUME app' = app, DOMAIN pass' = PassFields, pass'.phase \in Phases, pass'.cleanup \in BOOLEAN,
           pass'.spec \subseteq DOMAIN scene.specs, \A s, t \in pass'.spec : s = t,
           pass'.desired = {}, pass'.resolved = <<>>, \A q \in pass'.refs : Waiting(q),
           pass'.stores \subseteq DOMAIN scene.secretSets, pass'.phase = "resolve" => store' \in pass'.stores,
           pass'.phase = "resolve" /\ ~pass'.cleanup =>
               \A s \in pass'.spec : SecretsOf(app, SpecOf(s)) \subseteq pass'.refs
    PROVE  PassInv'
<1>1. PassTyped'
    BY SceneKept DEF PassTyped, Waiting
<1>2. DOMAIN pass'.resolved = {}
    OBVIOUS
<1>3. ReadIsHad'
    BY <1>2 DEF ReadIsHad
<1>4. Owed'
    BY SceneKept DEF Owed, Needed
<1>5. CredentialsFromSecrets'
    BY NothingIsFounded DEF CredentialsFromSecrets
<1>. QED
    BY <1>1, <1>3, <1>4, <1>5 DEF PassInv

\* A step that ends the pass.
LEMMA PassEnded ==
    ASSUME app' = app, pass' = NoPass
    PROVE  PassInv'
<1>1. /\ DOMAIN NoPass = PassFields /\ NoPass.phase = "idle" /\ NoPass.cleanup = FALSE /\ NoPass.spec = {}
      /\ NoPass.desired = {} /\ NoPass.resolved = <<>> /\ NoPass.refs = {} /\ NoPass.stores = {}
    BY DEF NoPass, PassFields, None
<1>. QED
    BY <1>1, PassFresh DEF Phases

\* A step that moves it on after compilation.
LEMMA PassMoved ==
    ASSUME app' = app, PassInv, DOMAIN pass' = DOMAIN pass, pass'.phase \in Phases \ {"resolve"},
           pass'.cleanup = pass.cleanup, pass'.spec = pass.spec, pass'.refs = pass.refs,
           pass'.resolved = pass.resolved, pass'.desired = pass.desired, pass'.stores = pass.stores
    PROVE  PassInv'
<1>1. PassTyped'
    BY SceneKept DEF PassInv, PassTyped, Waiting
<1>2. ReadIsHad'
    BY FoundedKept DEF PassInv, ReadIsHad
<1>3. Owed'
    BY DEF Owed
<1>4. CredentialsFromSecrets'
    BY SceneKept, FoundedKept DEF PassInv, CredentialsFromSecrets
<1>. QED
    BY <1>1, <1>2, <1>3, <1>4 DEF PassInv

\* The secrets change: between two Gets that is one more state of theirs, and
\* after the Gets it is none of this pass.
LEMMA SecretsStep ==
    ASSUME PassInv, NEW s \in DOMAIN scene.secretSets, SecretsChange(s)
    PROVE  PassInv'
<1>1. app' = app /\ store' = s
    BY DEF SecretsChange
<1>2. CASE pass.phase = "resolve"
    <2>1. pass' = [pass EXCEPT !.stores = @ \cup {s}]
        BY <1>2 DEF SecretsChange
    <2>2. /\ DOMAIN pass' = PassFields /\ pass'.phase = pass.phase /\ pass'.cleanup = pass.cleanup
          /\ pass'.spec = pass.spec /\ pass'.refs = pass.refs /\ pass'.resolved = pass.resolved
          /\ pass'.desired = {} /\ pass'.stores = pass.stores \cup {s}
        BY <1>2, <2>1 DEF PassInv, PassTyped, PassFields
    <2>3. PassTyped'
        BY <1>1, <2>2, SceneKept DEF PassInv, PassTyped, Waiting
    <2>4. \A e : Had(e) \subseteq Had(e)'
        BY <1>1, <2>2, SceneKept DEF Had
    <2>5. \A name, read : Taken(name, read) => Taken(name, read)'
        BY <1>1, <2>2, SceneKept DEF Taken
    <2>6. ReadIsHad'
        BY <2>2, <2>4 DEF PassInv, ReadIsHad
    <2>7. Owed'
        BY <1>1, <2>2, <2>5, SceneKept DEF PassInv, Owed
    <2>8. CredentialsFromSecrets'
        BY <2>2, NothingIsFounded DEF CredentialsFromSecrets
    <2>. QED
        BY <2>3, <2>6, <2>7, <2>8 DEF PassInv
<1>3. CASE pass.phase # "resolve"
    <2>1. pass' = pass
        BY <1>3 DEF SecretsChange
    <2>2. PassTyped'
        BY <1>1, <1>3, <2>1, SceneKept DEF PassInv, PassTyped, Waiting
    <2>3. ReadIsHad' /\ CredentialsFromSecrets'
        BY <1>1, <2>1, SceneKept, FoundedKept DEF PassInv, ReadIsHad, CredentialsFromSecrets
    <2>4. Owed'
        BY <1>3, <2>1 DEF Owed
    <2>. QED
        BY <2>2, <2>3, <2>4 DEF PassInv
<1>. QED
    BY <1>2, <1>3

(***************************************************************************)
(* The steps of a pass before and at compilation.                          *)
(***************************************************************************)

\* A sequence of one key.
LEMMA OneKey ==
    ASSUME NEW k
    PROVE  /\ Len(<<k>>) = 1 /\ Head(<<k>>) = k /\ DOMAIN <<k>> = {1} /\ <<k>> # <<>>
           /\ <<k>>[1] = k
OBVIOUS

\* A sequence of two keys.
LEMMA TwoKeys ==
    ASSUME NEW k, NEW l
    PROVE  /\ Len(<<k, l>>) = 2 /\ Head(<<k, l>>) = k /\ Tail(<<k, l>>) = <<l>> /\ <<k, l>> # <<>>
           /\ DOMAIN <<k, l>> = {1, 2}
OBVIOUS

\* A Get brings values that the entries have, and what it is for.
LEMMA FetchedIsHad ==
    ASSUME ObjTyped, store \in pass.stores, NEW r, Waiting(r), Gettable(r)
    PROVE  /\ \A e \in DOMAIN Fetched(r) :
                  /\ Fetched(r)[e] \in STRING
                  /\ e # ConnectionKey => Fetched(r)[e] \in Had(e)
           /\ r.rank # 2 /\ r.keys # <<>> => <<r.name, r.keys[1]>> \in DOMAIN Fetched(r)
           /\ r.keys = <<>> => \A read : DOMAIN Fetched(r) \subseteq DOMAIN read => Taken(r.name, read)
<1>1. \A e \in DOMAIN secrets : secrets[e] \in STRING /\ secrets[e] \in Had(e)
    <2>1. app \in DOMAIN Scenes /\ store \in DOMAIN Scenes[app].secretSets
        BY DEF ObjTyped, scene
    <2>2. \A e \in DOMAIN Scenes[app].secretSets[store].data : Scenes[app].secretSets[store].data[e] \in STRING
        BY <2>1, ScenesAssumption, Zenon
    <2>3. secrets = Data(store) /\ Data(store) = Scenes[app].secretSets[store].data
        BY DEF secrets, Data, scene
    <2>4. \A e \in DOMAIN Data(store) : Data(store)[e] \in Had(e)
        BY DEF Had
    <2>. QED
        BY <2>2, <2>3, <2>4
<1>2. CASE r.keys = <<>>
    <2>1. Fetched(r) = [e \in SecretData(r.name) |-> secrets[e]]
        BY <1>2 DEF Fetched, AllKeys
    <2>2. DOMAIN Fetched(r) = {e \in DOMAIN Data(store) : e[1] = r.name}
        BY <2>1 DEF SecretData, secrets
    <2>3. \A read : DOMAIN Fetched(r) \subseteq DOMAIN read => Taken(r.name, read)
        BY <2>2 DEF Taken
    <2>4. \A e \in DOMAIN Fetched(r) : Fetched(r)[e] \in STRING /\ Fetched(r)[e] \in Had(e)
        BY <1>1, <2>1 DEF SecretData
    <2>. QED
        BY <1>2, <2>3, <2>4
<1>3. CASE r.keys # <<>>
    <2>. DEFINE key   == r.keys[1]
                entry == IF r.rank = 2 THEN ConnectionKey ELSE <<r.name, key>>
                found == ResolveSecretValue(secrets, r.name, key)
    <2>1. Head(r.keys) = key
        <3>1. r.keys = <<r.keys[1]>> \/ r.keys = <<r.keys[1], r.keys[2]>>
            BY <1>3 DEF Waiting
        <3>. QED  BY <3>1, OneKey, TwoKeys
    <2>2. Fetched(r) = [e \in {entry : v \in found} |-> CHOOSE v \in found : TRUE]
        BY <1>3, <2>1 DEF Fetched, AllKeys
    <2>3. <<r.name, key>> \in DOMAIN secrets
        BY <1>3, <2>1 DEF Gettable, AllKeys, ResolveSecretValue
    <2>4. found = {secrets[<<r.name, key>>]}
        BY <2>3 DEF ResolveSecretValue
    <2>5. DOMAIN Fetched(r) = {entry} /\ Fetched(r)[entry] = secrets[<<r.name, key>>]
        BY <2>2, <2>4
    <2>. QED
        BY <1>1, <1>3, <2>3, <2>5
<1>. QED
    BY <1>2, <1>3

\* One Get: what it is for is read, and the second key of a pair is still owed.
LEMMA ResolveStep ==
    ASSUME ObjTyped, PassInv, app' = app, NEW r \in pass.refs, Resolve(r)
    PROVE  PassInv'
<1>. DEFINE got  == Fetched(r)
            more == IF Len(r.keys) > 1 THEN {[r EXCEPT !.rank = @ - 1, !.keys = Tail(@)]} ELSE {}
<1>1. CASE pass' = NoPass
    BY <1>1, PassEnded
<1>2. CASE pass' # NoPass
    <2>1. /\ Gettable(r) /\ pass.phase = "resolve"
          /\ pass' = [pass EXCEPT !.refs = (@ \ {r}) \cup more,
                                  !.resolved = [e \in DOMAIN got \cup DOMAIN @ |->
                                                   IF e \in DOMAIN got THEN got[e] ELSE @[e]]]
        BY <1>2 DEF Resolve, Stop
    <2>2. /\ DOMAIN pass' = PassFields /\ pass'.phase = pass.phase /\ pass'.cleanup = pass.cleanup
          /\ pass'.spec = pass.spec /\ pass'.desired = pass.desired /\ pass'.stores = pass.stores
          /\ pass'.refs = (pass.refs \ {r}) \cup more
          /\ DOMAIN pass'.resolved = DOMAIN got \cup DOMAIN pass.resolved
          /\ \A e \in DOMAIN pass'.resolved :
                 pass'.resolved[e] = IF e \in DOMAIN got THEN got[e] ELSE pass.resolved[e]
        BY <2>1 DEF PassInv, PassTyped, PassFields
    <2>3. Waiting(r) /\ store \in pass.stores
        BY <2>1 DEF PassInv, PassTyped
    <2>4. /\ \A q \in more : Waiting(q)
          /\ \A e \in Entries(r) : e \in DOMAIN got \/ \E q \in more : e \in Entries(q)
        <3>1. CASE r.keys = <<>>
            <4>1. more = {} /\ DOMAIN r.keys = {}
                BY <3>1
            <4>. QED
                BY <4>1 DEF Entries
        <3>2. CASE r.keys = <<r.keys[1]>>
            <4>1. DOMAIN r.keys = {1} /\ Len(r.keys) = 1 /\ r.keys # <<>>
                BY <3>2, OneKey
            <4>2. r.rank # 2 => <<r.name, r.keys[1]>> \in DOMAIN got
                BY <2>1, <2>3, <4>1, FetchedIsHad
            <4>. QED
                BY <4>1, <4>2 DEF Entries
        <3>3. CASE r.keys = <<r.keys[1], r.keys[2]>> /\ r.rank \in {4, 8}
            <4>. DEFINE q == [r EXCEPT !.rank = @ - 1, !.keys = Tail(@)]
            <4>1. /\ Len(r.keys) = 2 /\ Tail(r.keys) = <<r.keys[2]>> /\ r.keys # <<>>
                  /\ DOMAIN r.keys = {1, 2}
                <5>1. PICK k, l : k = r.keys[1] /\ l = r.keys[2]
                    OBVIOUS
                <5>2. r.keys = <<k, l>>
                    BY <3>3, <5>1
                <5>3. /\ Len(<<k, l>>) = 2 /\ Tail(<<k, l>>) = <<l>> /\ <<k, l>> # <<>>
                      /\ DOMAIN <<k, l>> = {1, 2}
                    BY TwoKeys
                <5>. QED  BY ONLY <5>1, <5>2, <5>3
            <4>2. more = {q}
                BY <4>1
            <4>3. DOMAIN r = {"rank", "name", "keys"}
                BY <2>3 DEF Waiting
            <4>4. DOMAIN q = DOMAIN r /\ q.rank = r.rank - 1 /\ q.name = r.name /\ q.keys = <<r.keys[2]>>
                BY <4>1, <4>3
            <4>5. DOMAIN q.keys = {1} /\ q.keys[1] = r.keys[2] /\ q.keys = <<q.keys[1]>>
                BY <4>4, OneKey
            <4>6. Waiting(q)
                BY <4>3, <4>4, <4>5 DEF Waiting
            <4>7. Entries(r) = {<<r.name, r.keys[1]>>, <<r.name, r.keys[2]>>}
                BY <3>3, <4>1 DEF Entries
            <4>8. <<r.name, r.keys[2]>> \in Entries(q)
                <5>1. q.rank # 2
                    <6>1. r.rank \in {4, 8}
                        BY <3>3
                    <6>. QED  BY <4>4, <6>1
                <5>2. 1 \in DOMAIN q.keys /\ <<q.name, q.keys[1]>> = <<r.name, r.keys[2]>>
                    BY <4>4, <4>5
                <5>. QED
                    BY <5>1, <5>2 DEF Entries
            <4>9. <<r.name, r.keys[1]>> \in DOMAIN got
                BY <2>1, <2>3, <3>3, <4>1, FetchedIsHad
            <4>. QED
                BY <4>2, <4>6, <4>7, <4>8, <4>9
        <3>. QED
            BY <2>3, <3>1, <3>2, <3>3 DEF Waiting
    <2>0. store' = store
        BY DEF Resolve
    <2>. HIDE DEF got, more
    <2>5. PassTyped'
        BY <2>0, <2>2, <2>4, SceneKept DEF PassInv, PassTyped, Waiting
    <2>6. ReadIsHad'
        <3>1. \A e \in DOMAIN got : got[e] \in STRING /\ (e # ConnectionKey => got[e] \in Had(e))
            BY <2>1, <2>3, FetchedIsHad DEF got
        <3>. QED
            BY <2>2, <3>1, FoundedKept DEF PassInv, ReadIsHad
    <2>7. Owed'
        <3>1. ASSUME ~pass.cleanup, NEW s \in pass.spec, NEW e \in Needed(app, SpecOf(s))
              PROVE  e \in DOMAIN pass'.resolved \/ \E q \in pass'.refs : e \in Entries(q)
            BY <2>1, <2>2, <2>4, <3>1 DEF PassInv, Owed
        <3>2. ASSUME ~pass.cleanup, NEW s \in pass.spec, NEW q \in SecretsOf(app, SpecOf(s)), q.keys = AllKeys
              PROVE  q \in pass'.refs \/ Taken(q.name, pass'.resolved)
            <4>1. q \in pass.refs \/ Taken(q.name, pass.resolved)
                BY <2>1, <3>2 DEF PassInv, Owed
            <4>2. CASE q = r
                BY <2>1, <2>2, <2>3, <3>2, <4>2, FetchedIsHad DEF got, AllKeys
            <4>3. CASE Taken(q.name, pass.resolved)
                BY <2>2, <4>3 DEF Taken
            <4>. QED
                BY <2>2, <4>1, <4>2, <4>3
        <3>. QED
            BY <2>2, <3>1, <3>2, SceneKept, FoundedKept DEF Owed
    <2>8. CredentialsFromSecrets'
        BY <2>2, SceneKept, FoundedKept DEF PassInv, CredentialsFromSecrets
    <2>. QED
        BY <2>5, <2>6, <2>7, <2>8 DEF PassInv
<1>. QED
    BY <1>1, <1>2

\* Compilation: nothing is owed any more.
LEMMA CompileStep ==
    ASSUME ObjTyped, PassInv, app' = app, NEW lost, CompileConfig(lost)
    PROVE  PassInv'
<1>. DEFINE ir(s) == Compile(app, SpecOf(s), Config, pass.resolved, Discover(lost))
<1>1. /\ pass.phase = "resolve" /\ pass.refs = {} /\ ~pass.cleanup
      /\ DOMAIN pass' = PassFields /\ pass'.phase = "connect" /\ pass'.cleanup = pass.cleanup
      /\ pass'.spec = pass.spec /\ pass'.refs = {} /\ pass'.resolved = pass.resolved
      /\ pass'.stores = pass.stores
      /\ pass'.desired = UNION {ir(s) : s \in pass.spec}
    BY DEF CompileConfig, PassInv, PassTyped, PassFields
<1>2. app \in DOMAIN Scenes /\ app \in Apps
    BY ScenesAssumption DEF ObjTyped
<1>3. ASSUME NEW s \in pass.spec
      PROVE  Founded(SpecOf(s), ir(s))
    <2>1. \A e \in Needed(app, SpecOf(s)) : e \in DOMAIN pass.resolved
        BY <1>1 DEF PassInv, Owed
    <2>2. \A e \in Needed(app, SpecOf(s)) : e # ConnectionKey
        <3>1. ASSUME NEW q \in SecretsOf(app, SpecOf(s)), NEW e \in Entries(q)
              PROVE  e # ConnectionKey
            <4>1. q.name # ""
                BY <1>2, ScenesAssumption DEF PassInv, PassTyped, SpecOf, scene
            <4>2. PICK i \in DOMAIN q.keys : e = <<q.name, q.keys[i]>>
                BY DEF Entries
            <4>. QED
                BY <4>1, <4>2 DEF ConnectionKey
        <3>. QED
            BY <3>1 DEF Needed
    <2>3. \A e \in Needed(app, SpecOf(s)) : Backed(pass.resolved, e)
        BY <2>1, <2>2 DEF PassInv, ReadIsHad, Backed
    <2>4. Sound(pass.resolved)
        <3>1. \A n \in pass.stores : \A e \in DOMAIN Data(n) : e = <<e[1], e[2]>>
            <4>1. \A n \in pass.stores : n \in DOMAIN Scenes[app].secretSets
                BY DEF PassInv, PassTyped, scene
            <4>2. \A n \in pass.stores : Data(n) = Scenes[app].secretSets[n].data
                BY DEF Data, scene
            <4>3. \A n \in DOMAIN Scenes[app].secretSets : \A e \in DOMAIN Scenes[app].secretSets[n].data :
                      e = <<e[1], e[2]>>
                BY <1>2, ScenesAssumption, Zenon
            <4>. QED
                BY <4>1, <4>2, <4>3
        <3>. QED
            BY <3>1 DEF Sound, PassInv, ReadIsHad
    <2>5. \A q \in SecretsOf(app, SpecOf(s)) : q.keys = AllKeys => Proper(q.name) /\ Taken(q.name, pass.resolved)
        <3>1. \A q \in SecretsOf(app, SpecOf(s)) : q.name # ""
            <4>1. s \in DOMAIN Scenes[app].specs /\ SpecOf(s) = Scenes[app].specs[s]
                BY DEF PassInv, PassTyped, SpecOf, scene
            <4>. QED
                BY <1>2, <4>1, ScenesAssumption, Zenon
        <3>2. \A q \in SecretsOf(app, SpecOf(s)) : q.keys = AllKeys => Taken(q.name, pass.resolved)
            BY <1>1 DEF PassInv, Owed
        <3>. QED
            BY <3>1, <3>2, Zenon DEF Proper
    <2>. QED
        BY <1>2, <2>3, <2>4, <2>5, ArrIsFounded, ProwlarrIsFounded
<1>4. ASSUME NEW s \in pass.spec
      PROVE  pass'.desired = ir(s)
    <2>1. pass.spec = {s}
        BY DEF PassInv, PassTyped
    <2>. QED
        BY <1>1, <2>1
<1>5. PassTyped'
    BY <1>1, SceneKept DEF PassInv, PassTyped, Phases, Waiting
<1>6. ReadIsHad'
    BY <1>1, FoundedKept DEF PassInv, ReadIsHad
<1>7. Owed'
    BY <1>1 DEF Owed
<1>8. CredentialsFromSecrets'
    <2>. HIDE DEF ir
    <2>1. \A s \in pass.spec : Founded(SpecOf(s), pass'.desired)
        BY <1>3, <1>4
    <2>2. \A s \in pass.spec : Founded(SpecOf(s), pass.desired)'
        BY <1>1, <2>1, SceneKept, FoundedKept
    <2>. QED
        BY <1>1, <2>2 DEF CredentialsFromSecrets
<1>. QED
    BY <1>5, <1>6, <1>7, <1>8 DEF PassInv

\* The start of a pass: everything that is needed is owed.
LEMMA ReconcileStep ==
    ASSUME ObjTyped, app' = app, Reconcile
    PROVE  PassInv'
<1>1. /\ DOMAIN pass' = PassFields /\ pass'.phase = "resolve" /\ pass'.cleanup = obj.deleting
      /\ pass'.spec = {obj.spec} /\ pass'.desired = {} /\ pass'.resolved = <<>>
      /\ pass'.stores = {store} /\ store' = store
      /\ pass'.refs = IF obj.deleting THEN ConnectionSecrets(SpecOf(obj.spec))
                      ELSE SecretsOf(app, SpecOf(obj.spec))
    BY DEF Reconcile, NoPass, PassFields
<1>2. obj.deleting \in BOOLEAN /\ obj.spec \in DOMAIN scene.specs /\ store \in DOMAIN scene.secretSets
    BY DEF ObjTyped
<1>3. ConnectionSecrets(SpecOf(obj.spec)) \subseteq SecretsOf(app, SpecOf(obj.spec))
    BY DEF SecretsOf
<1>4. \A q \in pass'.refs : Waiting(q)
    BY <1>1, <1>2, <1>3, RefsWait
<1>. QED
    BY <1>1, <1>2, <1>4, PassFresh DEF Phases

(***************************************************************************)
(* The service: an id is given out once, and only an id that there is can  *)
(* be written to.                                                          *)
(***************************************************************************)
LEMMA ServeStep ==
    ASSUME SvcTyped, NEW q, NEW out, Send(q, out)
    PROVE  SvcTyped'
<1>. DEFINE rest == {x \in svc.items : ~(x.kind = q.kind /\ x.id = q.id)}
            new(id) == [kind |-> q.kind, id |-> id, name |-> q.name, cfg |-> q.cfg, ours |-> q.ours]
<1>1. CASE svc' = svc
    BY <1>1 DEF SvcTyped
<1>2. CASE svc' = Serve(svc, q) /\ Accepts(svc, q)
    <2>0. \A id : new(id).id = id
        OBVIOUS
    <2>1. CASE q.verb = "POST"
        <3>1. svc' = [svc EXCEPT !.items = @ \cup {new(svc.next)}, !.next = @ + 1]
            BY <1>2, <2>1 DEF Serve
        <3>2. DOMAIN svc' = DOMAIN svc /\ svc'.items = svc.items \cup {new(svc.next)} /\ svc'.next = svc.next + 1
            BY <3>1 DEF SvcTyped
        <3>. QED
            BY <2>0, <3>2 DEF SvcTyped
    <2>2. CASE q.verb = "PUT"
        <3>1. svc' = [svc EXCEPT !.items = rest \cup {new(q.id)}]
            BY <1>2, <2>2 DEF Serve
        <3>2. DOMAIN svc' = DOMAIN svc /\ svc'.items = rest \cup {new(q.id)} /\ svc'.next = svc.next
            BY <3>1 DEF SvcTyped
        <3>3. \E x \in svc.items : x.id = q.id
            BY <1>2, <2>2 DEF Accepts, Get
        <3>. QED
            BY <2>0, <3>2, <3>3 DEF SvcTyped
    <2>3. CASE q.verb = "DELETE"
        <3>1. svc' = [svc EXCEPT !.items = rest]
            BY <1>2, <2>3 DEF Serve
        <3>2. DOMAIN svc' = DOMAIN svc /\ svc'.items = rest /\ svc'.next = svc.next
            BY <3>1 DEF SvcTyped
        <3>. QED
            BY <3>2 DEF SvcTyped
    <2>4. CASE q.verb \notin {"POST", "PUT", "DELETE"}
        BY <1>1, <1>2, <2>4 DEF Serve
    <2>. QED
        BY <2>1, <2>2, <2>3, <2>4
<1>. QED
    BY <1>1, <1>2 DEF Send, Served

\* The ownership tag has no id of a resource.
LEMMA TagStep ==
    ASSUME SvcTyped, svc' = svc \/ svc' = EnsureOwnershipTag(svc)
    PROVE  SvcTyped'
<1>1. DOMAIN svc' = DOMAIN svc /\ svc'.items = svc.items /\ svc'.next = svc.next
    BY DEF EnsureOwnershipTag, SvcTyped
<1>. QED
    BY <1>1 DEF SvcTyped

(***************************************************************************)
(* The object.                                                             *)
(***************************************************************************)

\* An object that goes has no finalizer left, and is gone.
LEMMA StopStep ==
    ASSUME ObjTyped, app' = app, store' = store, NEW reason \in Reasons, Stop(reason)
    PROVE  ObjTyped'
<1>1. /\ Gone(obj) \in [exists : BOOLEAN, spec : DOMAIN scene.specs, suspended : BOOLEAN,
                        deleting : BOOLEAN, finalizer : BOOLEAN]
      /\ ~Gone(obj).exists
    BY DEF ObjTyped, Gone
<1>2. obj' = obj \/ obj' = Gone(obj)
    BY DEF Stop
<1>3. ready' \in Reasons
    BY DEF Stop, ObjTyped
<1>. QED
    BY <1>1, <1>2, <1>3, SceneKept DEF ObjTyped

\* The object, the secrets and the status are left as they are.
LEMMA ObjKept ==
    ASSUME ObjTyped, app' = app, store' = store, obj' = obj, ready' = ready
    PROVE  ObjTyped'
BY SceneKept DEF ObjTyped

\* The invariant is inductive.
LEMMA Step ==
    ASSUME IInv, [Next]_vars
    PROVE  IInv'
<1>. USE DEF IInv
<1>1. CASE UNCHANGED vars
    BY <1>1, ObjKept, TagStep, PassKept DEF vars
<1>2. ASSUME NEW s \in DOMAIN scene.specs, UserEdits(s)
      PROVE  IInv'
    <2>1. app' = app /\ store' = store /\ svc' = svc /\ pass' = pass /\ ready' = ready
        BY <1>2 DEF UserEdits, Edit
    <2>2. ObjTyped'
        BY <1>2, <2>1, SceneKept DEF ObjTyped, UserEdits
    <2>. QED
        BY <2>1, <2>2, TagStep, PassKept
<1>3. CASE UserSuspends
    <2>1. app' = app /\ store' = store /\ svc' = svc /\ pass' = pass /\ ready' = ready
        BY <1>3 DEF UserSuspends, Edit
    <2>2. ObjTyped'
        BY <1>3, <2>1, SceneKept DEF ObjTyped, UserSuspends
    <2>. QED
        BY <2>1, <2>2, TagStep, PassKept
<1>4. CASE UserDeletes
    <2>1. app' = app /\ store' = store /\ svc' = svc /\ pass' = pass /\ ready' = ready
        BY <1>4 DEF UserDeletes, Edit
    <2>2. ObjTyped'
        BY <1>4, <2>1, SceneKept DEF ObjTyped, UserDeletes
    <2>. QED
        BY <2>1, <2>2, TagStep, PassKept
<1>5. ASSUME NEW s \in DOMAIN scene.secretSets, SecretsChange(s)
      PROVE  IInv'
    <2>1. app' = app /\ store' = s /\ svc' = svc /\ ready' = ready /\ obj' = obj
        BY <1>5 DEF SecretsChange
    <2>2. ObjTyped'
        BY <2>1, SceneKept DEF ObjTyped
    <2>. QED
        BY <1>5, <2>1, <2>2, TagStep, SecretsStep
<1>6. CASE AddFinalizer
    <2>1. app' = app /\ store' = store /\ svc' = svc /\ pass' = pass /\ ready' = ready
        BY <1>6 DEF AddFinalizer
    <2>2. ObjTyped'
        BY <1>6, <2>1, SceneKept DEF ObjTyped, AddFinalizer
    <2>. QED
        BY <2>1, <2>2, TagStep, PassKept
<1>7. CASE Reconcile
    BY <1>7, ObjKept, TagStep, ReconcileStep DEF Reconcile
<1>8. ASSUME NEW r \in pass.refs, Resolve(r)
      PROVE  IInv'
    <2>1. app' = app /\ store' = store /\ svc' = svc
        BY <1>8 DEF Resolve
    <2>2. (obj' = obj /\ ready' = ready) \/ Stop("SecretResolutionFailed")
        BY <1>8 DEF Resolve
    <2>. QED
        BY <1>8, <2>1, <2>2, ObjKept, StopStep, TagStep, ResolveStep DEF Reasons
<1>9. ASSUME NEW lost, CompileConfig(lost)
      PROVE  IInv'
    <2>1. app' = app /\ store' = store /\ svc' = svc /\ obj' = obj /\ ready' = ready
        BY <1>9 DEF CompileConfig
    <2>. QED
        BY <1>9, <2>1, ObjKept, TagStep, CompileStep
<1>10. ASSUME NEW out, Connect(out)
       PROVE  IInv'
    <2>1. app' = app /\ store' = store /\ svc' = svc
        BY <1>10 DEF Connect
    <2>2. CASE Stop("ConnectionFailed")
        <3>1. pass' = NoPass
            BY <2>2 DEF Stop
        <3>. QED
            BY <2>1, <2>2, <3>1, StopStep, TagStep, PassEnded DEF Reasons
    <2>3. CASE pass' = [pass EXCEPT !.phase = "read"] /\ UNCHANGED <<obj, ready>>
        <3>1. PassInv'
            BY <2>1, <2>3, PassMoved DEF PassInv, PassTyped, PassFields, Phases
        <3>. QED
            BY <2>1, <2>3, <3>1, ObjKept, TagStep
    <2>. QED
        BY <1>10, <2>2, <2>3 DEF Connect
<1>11. ASSUME NEW lost, Read(lost)
       PROVE  IInv'
    <2>1. app' = app /\ store' = store /\ svc' = svc /\ obj' = obj /\ ready' = ready
        BY <1>11 DEF Read
    <2>2. \E phase \in {"direct", "tag"} : \E todo, kinds :
              pass' = [pass EXCEPT !.phase = phase, !.todo = todo, !.kinds = kinds]
        BY <1>11 DEF Read
    <2>3. PassInv'
        BY <2>1, <2>2, PassMoved DEF PassInv, PassTyped, PassFields, Phases
    <2>. QED
        BY <2>1, <2>3, ObjKept, TagStep
<1>12. ASSUME NEW out, EnsureTag(out)
       PROVE  IInv'
    <2>1. app' = app /\ store' = store /\ (svc' = svc \/ svc' = EnsureOwnershipTag(svc))
        BY <1>12 DEF EnsureTag
    <2>2. CASE Stop(ready)
        <3>1. pass' = NoPass /\ ready \in Reasons
            BY <2>2 DEF Stop, ObjTyped
        <3>. QED
            BY <2>1, <2>2, <3>1, StopStep, TagStep, PassEnded
    <2>3. CASE pass' = [pass EXCEPT !.phase = "apply"] /\ UNCHANGED <<obj, ready>>
        <3>1. PassInv'
            BY <2>1, <2>3, PassMoved DEF PassInv, PassTyped, PassFields, Phases
        <3>. QED
            BY <2>1, <2>3, <3>1, ObjKept, TagStep
    <2>. QED
        BY <1>12, <2>2, <2>3 DEF EnsureTag
<1>13. ASSUME NEW ch, NEW out, ApplyOne(ch, out)
       PROVE  IInv'
    <2>1. app' = app /\ store' = store /\ obj' = obj /\ ready' = ready
        BY <1>13 DEF ApplyOne
    <2>2. \E q : Send(q, out)
        BY <1>13, Zenon DEF ApplyOne
    <2>3. pass' = [pass EXCEPT !.todo = @ \ {ch}, !.phase = IF pass.todo = {ch} THEN "direct" ELSE @]
        BY <1>13 DEF ApplyOne
    <2>4. pass.phase = "apply"
        BY <1>13 DEF ApplyOne
    <2>5. PassInv'
        BY <2>1, <2>3, <2>4, PassMoved DEF PassInv, PassTyped, PassFields, Phases
    <2>. QED
        BY <2>1, <2>2, <2>5, ObjKept, ServeStep
<1>14. ASSUME NEW kind, NEW out, ReadDirect(kind, out)
       PROVE  IInv'
    <2>1. /\ app' = app /\ store' = store /\ obj' = obj /\ ready' = ready
          /\ svc' = svc \/ svc' = EnsureOwnershipTag(svc)
        BY <1>14 DEF ReadDirect
    <2>2. PICK requests : pass' = [pass EXCEPT !.kinds = @ \ {kind}, !.requests = requests]
        BY <1>14 DEF ReadDirect
    <2>3. pass.phase = "direct"
        BY <1>14 DEF ReadDirect
    <2>4. PassInv'
        BY <2>1, <2>2, <2>3, PassMoved DEF PassInv, PassTyped, PassFields, Phases
    <2>. QED
        BY <2>1, <2>4, ObjKept, TagStep
<1>15. ASSUME NEW q, NEW out, SendDirect(q, out)
       PROVE  IInv'
    <2>1. app' = app /\ store' = store /\ obj' = obj /\ ready' = ready /\ Send(q, out)
        BY <1>15 DEF SendDirect
    <2>2. pass' = [pass EXCEPT !.requests = @ \ {q}] /\ pass.phase = "direct"
        BY <1>15 DEF SendDirect
    <2>3. PassInv'
        BY <2>1, <2>2, PassMoved DEF PassInv, PassTyped, PassFields, Phases
    <2>. QED
        BY <2>1, <2>3, ObjKept, ServeStep
<1>16. CASE Finish
    <2>1. app' = app /\ store' = store /\ svc' = svc /\ pass' = NoPass /\ Stop("Ready")
        BY <1>16 DEF Finish, Stop
    <2>. QED
        BY <2>1, StopStep, TagStep, PassEnded DEF Reasons
<1>17. CASE Restart
    BY <1>17, ObjKept, TagStep, PassEnded DEF Restart
<1>18. CASE UserStep
    BY <1>2, <1>3, <1>4, <1>5, <1>18 DEF UserStep
<1>19. CASE PassStep
    BY <1>6, <1>7, <1>8, <1>9, <1>10, <1>11, <1>12, <1>13, <1>14, <1>15, <1>16, <1>19 DEF PassStep
<1>. QED
    BY <1>1, <1>17, <1>18, <1>19 DEF Next

\* It holds at the start.
LEMMA Start ==
    ASSUME Init
    PROVE  IInv
<1>1. ObjTyped
    <2>1. app \in DOMAIN Scenes /\ store \in DOMAIN scene.secretSets /\ ready \in Reasons
        BY DEF Init, Reasons
    <2>2. PICK s \in DOMAIN scene.specs :
              obj = [exists |-> TRUE, spec |-> s, suspended |-> FALSE, deleting |-> FALSE,
                     finalizer |-> FALSE]
        BY DEF Init
    <2>3. obj.deleting = FALSE
        BY <2>2
    <2>4. obj \in [exists : BOOLEAN, spec : DOMAIN scene.specs, suspended : BOOLEAN,
                   deleting : BOOLEAN, finalizer : BOOLEAN]
        BY <2>2
    <2>. QED
        BY <2>1, <2>3, <2>4 DEF ObjTyped
<1>2. SvcTyped
    <2>1. \A x \in scene.installed : x.id \in 1 .. 9
        BY ScenesAssumption DEF Init, scene
    <2>2. svc = [tag |-> FALSE, items |-> scene.installed, next |-> 10]
        BY DEF Init
    <2>. QED
        BY <2>1, <2>2 DEF SvcTyped
<1>3. PassInv
    <2>1. /\ DOMAIN NoPass = PassFields /\ NoPass.phase = "idle" /\ NoPass.cleanup = FALSE /\ NoPass.spec = {}
          /\ NoPass.desired = {} /\ NoPass.resolved = <<>> /\ NoPass.refs = {} /\ DOMAIN NoPass.resolved = {}
          /\ NoPass.stores = {}
        BY DEF NoPass, PassFields, None
    <2>. QED
        BY <2>1 DEF Init, PassInv, PassTyped, ReadIsHad, Owed, CredentialsFromSecrets, Phases
<1>. QED
    BY <1>1, <1>2, <1>3 DEF IInv

\* The invariant holds in every behaviour of a pass, its object and its secrets.
THEOREM Invariant == Spec => []IInv
<1>. QED
    BY Start, Step, PTL DEF Spec

\* For all scenes: what a pass works towards comes from its specification, and
\* every user name, password, key and secret setting in it, of clients, indexers,
\* proxies, applications, lists, notifications and the authentication, is a value
\* that the very key had while this pass resolved secrets, though every secret
\* may change or go between any two Gets and before the compilation.
THEOREM CredentialsAreReal == Spec => []CredentialsFromSecrets
<1>1. IInv => CredentialsFromSecrets
    BY DEF IInv, PassInv
<1>. QED
    BY <1>1, Invariant, PTL

-----------------------------------------------------------------------------
(***************************************************************************)
(* What a pass takes away: the second invariant, for KeepsDeclared.        *)
(***************************************************************************)

\* The kinds that KeepsDeclared is about.
Guarded == {"DownloadClient", "Indexer"}

\* The service: an id is given out once for a kind, and the settings that are
\* only updated are there.
Stock(sv) ==
    /\ DOMAIN sv = {"tag", "items", "next"} /\ sv.next \in Nat \ {0}
    /\ \A x \in sv.items :
           DOMAIN x = {"kind", "id", "name", "cfg", "ours"} /\ x.id \in 1 .. sv.next - 1
    /\ \A x, y \in sv.items : x.kind = y.kind /\ x.id = y.id => x = y
    /\ app \in DirectAppliers => \A k \in Singletons : \E x \in sv.items : x.kind = k

\* Behind the id there is the resource of the kind and name, or none any more.
Behind(sv, kind, id, name) ==
    /\ id \in Nat /\ id < sv.next
    /\ kind \in Guarded => \A x \in sv.items : x.kind = kind /\ x.id = id => x.name = name

\* A cached id leads to the resource that it is cached for.
Remembers(sv, ids) == \A k \in DOMAIN ids : Behind(sv, k[1], ids[k], k[2])

\* A change keeps to what its kind knows.
Known(ch) ==
    /\ ch.op \in {"create", "update", "delete"} /\ ch.kind \in DOMAIN AdapterKindRank(app)
    /\ ch.kind = "NamingConfig" => ch.op = "update"
    /\ ch.kind = "RootFolder" => ch.op = "create"
    /\ ch.kind = "QualityProfile" /\ app \in {"radarr", "readarr"} => ch.op = "create"

\* A change that carries an id leads to the resource that it names, and what it
\* deletes is not desired.
Justified(sv, desired, ch) ==
    /\ Known(ch)
    /\ ch.kind \in Guarded /\ ch.op # "create" /\ app \in {"sonarr", "lidarr"} =>
           Behind(sv, ch.kind, ch.id, ch.name)
    /\ ch.kind \in Guarded /\ ch.op = "delete" => ch.name \notin Names(Of(desired, ch.kind))

\* What a pass works towards has everything that its specification calls for.
Covers(p) ==
    p.phase \in {"connect", "read", "tag", "apply"} /\ ~p.cleanup =>
        \A s \in p.spec : \A kind \in Guarded :
            CalledFor(SpecOf(s))[kind] \subseteq Names(Of(p.desired, kind))

\* What a pass has in hand.  The direct requests keep to the kinds of theirs.
Working(p, sv) ==
    /\ p.phase # "idle" => p.spec # {}
    /\ Covers(p)
    /\ \A d \in p.desired : DOMAIN d = {"kind", "id", "name", "cfg"}
    /\ p.todo # {} => p.phase \in {"tag", "apply"}
    /\ \A ch \in p.todo : Justified(sv, p.desired, ch)
    /\ p.kinds \subseteq DOMAIN DirectOrder
    /\ p.kinds # {} => app \in DirectAppliers
    /\ \A q \in p.requests : \E kind \in DOMAIN DirectOrder : RequestOK(q, kind)

KeepInv == Stock(svc) /\ Remembers(svc, cache) /\ Working(pass, svc)

\* From one state of the service to the next: of the guarded kinds, who keeps an
\* id keeps the name, and ids are not used twice.
Moves(sv, tv) ==
    /\ tv.next \in Nat /\ sv.next <= tv.next
    /\ \A y \in tv.items : y.kind \in Guarded =>
           y.id >= sv.next \/ \E x \in sv.items : x.kind = y.kind /\ x.id = y.id /\ x.name = y.name

\* The request stays in its kind, writes under the name of the resource that it
\* writes to, and removes only where the change says so.
Faithful(sv, q, ch) ==
    /\ RequestOK(q, ch.kind)
    /\ q.verb = "DELETE" => ch.op = "delete"
    /\ ch.kind \in Guarded /\ q.verb = "PUT" => q.name = ch.name
    /\ ch.kind \in Guarded /\ q.verb \in {"PUT", "DELETE"} =>
           \A x \in sv.items : x.kind = ch.kind /\ x.id = q.id => x.name = ch.name

\* What the service has after a request.
LEMMA AfterServe ==
    ASSUME NEW sv, Stock(sv), NEW q
    PROVE  LET rest    == {x \in sv.items : ~(x.kind = q.kind /\ x.id = q.id)}
               new(id) == [kind |-> q.kind, id |-> id, name |-> q.name, cfg |-> q.cfg, ours |-> q.ours]
               tv      == Serve(sv, q)
           IN  /\ DOMAIN tv = {"tag", "items", "next"}
               /\ q.verb = "POST" => tv.items = sv.items \cup {new(sv.next)} /\ tv.next = sv.next + 1
               /\ q.verb = "PUT" => tv.items = rest \cup {new(q.id)} /\ tv.next = sv.next
               /\ q.verb = "DELETE" => tv.items = rest /\ tv.next = sv.next
               /\ q.verb \in {"none", "bad"} => tv = sv
BY DEF Serve, Stock

\* Requests that keep to their kind keep the service in order.
LEMMA ServeKeepsStock ==
    ASSUME NEW sv, Stock(sv), NEW q, NEW kind, RequestOK(q, kind), Accepts(sv, q)
    PROVE  Stock(Serve(sv, q))
<1>. DEFINE rest    == {x \in sv.items : ~(x.kind = q.kind /\ x.id = q.id)}
            new(id) == [kind |-> q.kind, id |-> id, name |-> q.name, cfg |-> q.cfg, ours |-> q.ours]
            tv      == Serve(sv, q)
<1>1. /\ DOMAIN tv = {"tag", "items", "next"}
      /\ q.verb = "POST" => tv.items = sv.items \cup {new(sv.next)} /\ tv.next = sv.next + 1
      /\ q.verb = "PUT" => tv.items = rest \cup {new(q.id)} /\ tv.next = sv.next
      /\ q.verb = "DELETE" => tv.items = rest /\ tv.next = sv.next
      /\ q.verb \in {"none", "bad"} => tv = sv
    BY AfterServe
<1>2. \A id : /\ DOMAIN new(id) = {"kind", "id", "name", "cfg", "ours"}
              /\ new(id).kind = q.kind /\ new(id).id = id
    OBVIOUS
<1>3. SUFFICES Stock(tv)
    OBVIOUS
<1>. HIDE DEF tv, new
<1>4. CASE q.verb = "POST"
    <2>1. \A x \in sv.items : x.id # sv.next
        BY DEF Stock
    <2>. QED
        BY <1>1, <1>2, <1>4, <2>1 DEF Stock
<1>5. CASE q.verb = "PUT"
    <2>1. q.id \in 1 .. sv.next - 1
        BY <1>5 DEF Accepts, Get, Stock
    <2>2. \A x \in rest : x \in sv.items /\ ~(x.kind = q.kind /\ x.id = q.id)
        OBVIOUS
    <2>3. \A x \in sv.items : x \in rest \/ x.kind = q.kind
        OBVIOUS
    <2>. HIDE DEF rest
    <2>. QED
        BY <1>1, <1>2, <1>5, <2>1, <2>2, <2>3 DEF Stock
<1>6. CASE q.verb = "DELETE"
    <2>1. q.kind \notin Singletons
        BY <1>6 DEF RequestOK
    <2>. QED
        BY <1>1, <1>6, <2>1 DEF Stock
<1>7. CASE q.verb \in {"none", "bad"}
    BY <1>1, <1>7
<1>. QED
    BY <1>4, <1>5, <1>6, <1>7 DEF RequestOK

\* Requests that write under the name of the resource move the service so.
LEMMA ServeMoves ==
    ASSUME NEW sv, Stock(sv), NEW q, NEW kind, RequestOK(q, kind), Accepts(sv, q),
           kind \in Guarded /\ q.verb = "PUT" =>
               \A x \in sv.items : x.kind = kind /\ x.id = q.id => x.name = q.name
    PROVE  Moves(sv, Serve(sv, q))
<1>. DEFINE rest    == {x \in sv.items : ~(x.kind = q.kind /\ x.id = q.id)}
            new(id) == [kind |-> q.kind, id |-> id, name |-> q.name, cfg |-> q.cfg, ours |-> q.ours]
            tv      == Serve(sv, q)
<1>1. /\ q.verb = "POST" => tv.items = sv.items \cup {new(sv.next)} /\ tv.next = sv.next + 1
      /\ q.verb = "PUT" => tv.items = rest \cup {new(q.id)} /\ tv.next = sv.next
      /\ q.verb = "DELETE" => tv.items = rest /\ tv.next = sv.next
      /\ q.verb \in {"none", "bad"} => tv = sv
    BY AfterServe
<1>2. \A id : new(id).kind = q.kind /\ new(id).id = id /\ new(id).name = q.name
    OBVIOUS
<1>3. SUFFICES Moves(sv, tv)
    OBVIOUS
<1>4. sv.next \in Nat
    BY DEF Stock
<1>. HIDE DEF tv, new
<1>5. CASE q.verb = "PUT"
    <2>1. PICK x \in sv.items : x.kind = q.kind /\ x.id = q.id
        BY <1>5 DEF Accepts, Get
    <2>2. q.kind = kind
        BY <1>5 DEF RequestOK
    <2>3. q.kind \in Guarded => x.name = q.name
        BY <1>5, <2>1, <2>2
    <2>. QED
        BY <1>1, <1>2, <1>4, <1>5, <2>1, <2>3 DEF Moves
<1>. QED
    BY <1>1, <1>2, <1>4, <1>5 DEF Moves, RequestOK

\* What stood behind an id stands there still, or nothing does.
LEMMA BehindMoves ==
    ASSUME NEW sv, NEW tv, Moves(sv, tv), sv.next \in Nat, NEW kind, NEW id, NEW name,
           Behind(sv, kind, id, name)
    PROVE  Behind(tv, kind, id, name)
BY DEF Moves, Behind

\* The cached ids stay right when the service moves on.
LEMMA RemembersMoves ==
    ASSUME NEW sv, NEW tv, Moves(sv, tv), sv.next \in Nat, NEW ids, Remembers(sv, ids)
    PROVE  Remembers(tv, ids)
BY BehindMoves DEF Remembers

\* So do the changes that wait.
LEMMA JustifiedMoves ==
    ASSUME NEW sv, NEW tv, Moves(sv, tv), sv.next \in Nat, NEW desired, NEW ch, Justified(sv, desired, ch)
    PROVE  Justified(tv, desired, ch)
BY BehindMoves DEF Justified

(***************************************************************************)
(* The requests for changes that are justified.                            *)
(***************************************************************************)

\* Settings that are there once are only updated.
LEMMA KnownSettings ==
    ASSUME app \in Apps, NEW ch, Known(ch)
    PROVE  /\ ch.kind \in Singletons => ch.op = "update" /\ app \in DirectAppliers
           /\ ch.kind \in DOMAIN DirectOrder => FALSE
<1>1. CASE app = "radarr"
    BY <1>1 DEF Known, AdapterKindRank, Radarr!KindRank, Singletons, DirectAppliers, DirectOrder
<1>2. CASE app = "sonarr"
    BY <1>2 DEF Known, AdapterKindRank, Sonarr!KindRank, Singletons, DirectAppliers, DirectOrder
<1>3. CASE app = "lidarr"
    BY <1>3 DEF Known, AdapterKindRank, Lidarr!KindRank, Singletons, DirectAppliers, DirectOrder
<1>4. CASE app = "readarr"
    BY <1>4 DEF Known, AdapterKindRank, Readarr!KindRank, Singletons, DirectAppliers, DirectOrder
<1>5. CASE app = "prowlarr"
    BY <1>5 DEF Known, AdapterKindRank, Prowlarr!KindRank, Singletons, DirectAppliers, DirectOrder
<1>. QED
    BY <1>1, <1>2, <1>3, <1>4, <1>5 DEF Apps

\* The adapters find what they look for.
LEMMA StockIsStocked ==
    ASSUME app \in Apps, NEW sv, Stock(sv), NEW kind, kind \in Singletons => app \in DirectAppliers
    PROVE  Stocked(sv, kind)
BY DEF Stock, Stocked

\* A request that does what the change says to the resource of its name.
LEMMA ConformingIsFaithful ==
    ASSUME app \in Apps, NEW sv, NEW ch, Known(ch), NEW q, NEW id, Conforms(q, ch, id),
           ch.kind \in Guarded /\ ch.op # "create" =>
               \A x \in sv.items : x.kind = ch.kind /\ x.id = id => x.name = ch.name
    PROVE  Faithful(sv, q, ch)
<1>1. ch.kind \in Singletons => ch.op = "update"
    BY KnownSettings
<1>. QED
    BY <1>1 DEF Faithful, RequestOK, Conforms, Posts, Puts, Deletes

\* One that was found under the name is the only one with its id.
LEMMA FoundIsFaithful ==
    ASSUME app \in Apps, NEW sv, Stock(sv), NEW ch, Known(ch), NEW q,
           NEW x \in sv.items, x.kind = ch.kind, x.name = ch.name, Conforms(q, ch, x.id)
    PROVE  Faithful(sv, q, ch)
<1>1. \A y \in sv.items : y.kind = ch.kind /\ y.id = x.id => y.name = ch.name
    BY DEF Stock
<1>. QED
    BY <1>1, ConformingIsFaithful

\* No request at all.
LEMMA GivenUpIsFaithful ==
    ASSUME NEW sv, NEW ch, NEW q, q.verb \in {"none", "bad"}
    PROVE  Faithful(sv, q, ch)
BY DEF Faithful, RequestOK

\* Sonarr and Lidarr go by the id of the change.
LEMMA ById ==
    ASSUME app \in {"sonarr", "lidarr"}, NEW sv, NEW desired, NEW schema, NEW ids, NEW ch,
           Justified(sv, desired, ch)
    PROVE  Faithful(sv, AdapterApply(app, sv, schema, ids, ch), ch)
<1>. DEFINE q == AdapterApply(app, sv, schema, ids, ch)
<1>1. app \in Apps /\ Known(ch)
    BY DEF Apps, Justified
<1>2. Conforms(q, ch, ch.id)
    <2>1. CASE app = "sonarr"
        <3>1. q = Sonarr!Apply(sv, schema, ch)
            BY <2>1 DEF AdapterApply
        <3>2. /\ ch.op \in {"create", "update", "delete"} /\ ch.kind \in DOMAIN Sonarr!KindRank
              /\ ch.kind = "NamingConfig" => ch.op = "update"
              /\ ch.kind = "RootFolder" => ch.op = "create"
            BY <1>1, <2>1 DEF Known, AdapterKindRank
        <3>. QED  BY <3>1, <3>2, SonarrRequest
    <2>2. CASE app = "lidarr"
        <3>1. q = Lidarr!Apply(sv, schema, ch)
            BY <2>2 DEF AdapterApply
        <3>2. /\ ch.op \in {"create", "update", "delete"} /\ ch.kind \in DOMAIN Lidarr!KindRank
              /\ ch.kind = "NamingConfig" => ch.op = "update"
              /\ ch.kind = "RootFolder" => ch.op = "create"
            BY <1>1, <2>2 DEF Known, AdapterKindRank
        <3>. QED  BY <3>1, <3>2, LidarrRequest
    <2>. QED  BY <2>1, <2>2
<1>3. ch.kind \in Guarded /\ ch.op # "create" =>
          \A x \in sv.items : x.kind = ch.kind /\ x.id = ch.id => x.name = ch.name
    BY DEF Justified, Behind
<1>. HIDE DEF q
<1>4. Faithful(sv, q, ch)
    BY <1>1, <1>2, <1>3, ConformingIsFaithful
<1>. QED
    BY <1>4 DEF q

\* Radarr looks clients and indexers up by their names.
LEMMA ByRadarr ==
    ASSUME app = "radarr", NEW sv, Stock(sv), NEW schema, NEW ch, Known(ch)
    PROVE  Faithful(sv, Radarr!Apply(sv, schema, ch), ch)
<1>. DEFINE q == Radarr!Apply(sv, schema, ch)
<1>0. SUFFICES Faithful(sv, q, ch)
    OBVIOUS
<1>1. app \in Apps /\ app \in DirectAppliers
    BY DEF Apps, DirectAppliers
<1>2. Stocked(sv, ch.kind)
    BY <1>1, StockIsStocked
<1>3. /\ ch.op \in {"create", "update", "delete"} /\ ch.kind \in DOMAIN Radarr!KindRank
      /\ ch.kind = "NamingConfig" => ch.op = "update"
      /\ ch.kind = "RootFolder" => ch.op = "create"
      /\ ch.kind = "QualityProfile" => ch.op = "create"
    BY DEF Known, AdapterKindRank
<1>4. IF ch.kind = "NamingConfig" THEN q.verb = "PUT" /\ q.kind = ch.kind
      ELSE \/ Conforms(q, ch, ch.id) /\ ch.kind \notin {"CustomFormat", "DownloadClient", "Indexer"}
           \/ Conforms(q, ch, NoId) /\ (ch.op = "create" \/ q.verb = "bad")
           \/ \E x \in sv.items : x.kind = ch.kind /\ x.name = ch.name /\ Conforms(q, ch, x.id)
    BY <1>2, <1>3, RadarrRequest
<1>. HIDE DEF q
<1>5. CASE ch.kind = "NamingConfig"
    BY <1>4, <1>5 DEF Faithful, RequestOK, Guarded
<1>6. CASE Conforms(q, ch, ch.id) /\ ch.kind \notin {"CustomFormat", "DownloadClient", "Indexer"}
    BY <1>1, <1>6, ConformingIsFaithful DEF Guarded
<1>7. CASE Conforms(q, ch, NoId) /\ ch.op = "create"
    BY <1>1, <1>7, ConformingIsFaithful
<1>8. CASE q.verb = "bad"
    BY <1>8, GivenUpIsFaithful
<1>9. CASE \E x \in sv.items : x.kind = ch.kind /\ x.name = ch.name /\ Conforms(q, ch, x.id)
    BY <1>1, <1>9, FoundIsFaithful
<1>. QED
    BY <1>4, <1>5, <1>6, <1>7, <1>8, <1>9

\* So does Readarr, which does not update them.
LEMMA ByReadarr ==
    ASSUME app = "readarr", NEW sv, Stock(sv), NEW schema, NEW ch, Known(ch)
    PROVE  Faithful(sv, Readarr!Apply(sv, schema, ch), ch)
<1>. DEFINE q == Readarr!Apply(sv, schema, ch)
<1>0. SUFFICES Faithful(sv, q, ch)
    OBVIOUS
<1>1. app \in Apps
    BY DEF Apps
<1>2. Stocked(sv, ch.kind)
    BY <1>1, StockIsStocked, KnownSettings
<1>3. /\ ch.op \in {"create", "update", "delete"} /\ ch.kind \in DOMAIN Readarr!KindRank
      /\ ch.kind \in {"QualityProfile", "RootFolder"} => ch.op = "create"
    BY DEF Known, AdapterKindRank
<1>4. \/ ch.op = "create" /\ Conforms(q, ch, NoId)
      \/ ch.op = "update" /\ ch.kind \notin {"DownloadClient", "Indexer"} /\ Conforms(q, ch, ch.id)
      \/ q.verb = "none"
      \/ \E x \in sv.items : x.kind = ch.kind /\ x.name = ch.name /\ Conforms(q, ch, x.id)
    BY <1>2, <1>3, ReadarrRequest
<1>. HIDE DEF q
<1>5. CASE ch.op = "create" /\ Conforms(q, ch, NoId)
    BY <1>1, <1>5, ConformingIsFaithful
<1>6. CASE ch.kind \notin {"DownloadClient", "Indexer"} /\ Conforms(q, ch, ch.id)
    BY <1>1, <1>6, ConformingIsFaithful DEF Guarded
<1>7. CASE q.verb = "none"
    BY <1>7, GivenUpIsFaithful
<1>8. CASE \E x \in sv.items : x.kind = ch.kind /\ x.name = ch.name /\ Conforms(q, ch, x.id)
    BY <1>1, <1>8, FoundIsFaithful
<1>. QED
    BY <1>4, <1>5, <1>6, <1>7, <1>8

\* Prowlarr's lookup: behind the cached id, or the one found, is the resource of
\* the name.
LEMMA IdForIsBehind ==
    ASSUME NEW sv, Stock(sv), NEW ids, Remembers(sv, ids), NEW kind, NEW name,
           NEW id, id = Prowlarr!IdFor(sv, ids, kind, name), id # NoId
    PROVE  Behind(sv, kind, id, name)
<1>. DEFINE key   == <<kind, name>>
            found == {x \in Get(sv, kind) : x.name = name}
<1>1. CASE key \in DOMAIN ids
    <2>1. id = ids[key]
        BY <1>1 DEF Prowlarr!IdFor
    <2>2. Behind(sv, key[1], ids[key], key[2])
        BY <1>1 DEF Remembers
    <2>. QED  BY <2>1, <2>2
<1>2. CASE key \notin DOMAIN ids
    <2>1. id = IF found = {} THEN NoId ELSE First(found).id
        BY <1>2
        DEF Prowlarr!IdFor, Prowlarr!Get, Prowlarr!First, Prowlarr!NoId, Get, First, NoId
    <2>2. found # {} /\ id = First(found).id
        BY <2>1
    <2>3. \A x \in found : x \in sv.items /\ x.kind = kind /\ x.name = name /\ x.id \in Nat
        BY DEF Get, Stock
    <2>. HIDE DEF found
    <2>4. First(found) \in found
        BY <2>2, <2>3, FirstIsThere
    <2>5. PICK x \in sv.items : x.kind = kind /\ x.name = name /\ x.id = id
        BY <2>2, <2>3, <2>4
    <2>. QED
        BY <2>5 DEF Behind, Stock
<1>. QED
    BY <1>1, <1>2

\* The request of a change of Prowlarr, whose id is cached or found by name.
LEMMA ByProwlarr ==
    ASSUME app = "prowlarr", NEW sv, Stock(sv), NEW ids, Remembers(sv, ids), NEW ch, Known(ch)
    PROVE  Faithful(sv, Prowlarr!Apply(sv, ids, ch), ch)
<1>. DEFINE q  == Prowlarr!Apply(sv, ids, ch)
            id == Prowlarr!IdFor(sv, ids, ch.kind, ch.name)
<1>0. SUFFICES Faithful(sv, q, ch)
    OBVIOUS
<1>1. app \in Apps
    BY DEF Apps
<1>2. ch.op \in {"create", "update", "delete"} /\ ch.kind \in DOMAIN Prowlarr!KindRank
    BY DEF Known, AdapterKindRank
<1>3. \/ ch.op = "create" /\ Posts(q, ch)
      \/ ch.op # "create" /\ q.verb \in {"none", "bad"}
      \/ ch.op # "create" /\ Conforms(q, ch, id)
    BY <1>2, ProwlarrRequest
<1>4. id # NoId => Behind(sv, ch.kind, id, ch.name)
    BY IdForIsBehind
<1>5. \A x \in sv.items : x.id # NoId
    BY DEF Stock, NoId
<1>. HIDE DEF q, id
<1>6. CASE ch.op = "create" /\ Posts(q, ch)
    <2>1. Conforms(q, ch, NoId)
        BY <1>6 DEF Conforms
    <2>. QED  BY <1>1, <1>6, <2>1, ConformingIsFaithful
<1>7. CASE q.verb \in {"none", "bad"}
    BY <1>7, GivenUpIsFaithful
<1>8. CASE Conforms(q, ch, id)
    <2>1. ch.kind \in Guarded => \A x \in sv.items : x.kind = ch.kind /\ x.id = id => x.name = ch.name
        BY <1>4, <1>5 DEF Behind
    <2>. QED
        BY <1>1, <1>8, <2>1, ConformingIsFaithful
<1>. QED
    BY <1>3, <1>6, <1>7, <1>8

\* Every adapter makes a faithful request of a justified change.
LEMMA RequestFaithful ==
    ASSUME app \in Apps, NEW sv, Stock(sv), NEW ids, Remembers(sv, ids), NEW schema, NEW desired,
           NEW ch, Justified(sv, desired, ch)
    PROVE  Faithful(sv, AdapterApply(app, sv, schema, ids, ch), ch)
<1>1. Known(ch)
    BY DEF Justified
<1>2. CASE app \in {"sonarr", "lidarr"}
    BY <1>2, ById
<1>3. CASE app = "radarr"
    <2>1. AdapterApply(app, sv, schema, ids, ch) = Radarr!Apply(sv, schema, ch)
        BY <1>3 DEF AdapterApply
    <2>. QED  BY <1>1, <1>3, <2>1, ByRadarr
<1>4. CASE app = "readarr"
    <2>1. AdapterApply(app, sv, schema, ids, ch) = Readarr!Apply(sv, schema, ch)
        BY <1>4 DEF AdapterApply
    <2>. QED  BY <1>1, <1>4, <2>1, ByReadarr
<1>5. CASE app = "prowlarr"
    <2>1. AdapterApply(app, sv, schema, ids, ch) = Prowlarr!Apply(sv, ids, ch)
        BY <1>5 DEF AdapterApply
    <2>. QED  BY <1>1, <1>5, <2>1, ByProwlarr
<1>. QED
    BY <1>2, <1>3, <1>4, <1>5 DEF Apps

(***************************************************************************)
(* What Read plans is justified.                                           *)
(***************************************************************************)

\* A change of a diff by name.
LEMMA PlannedIsJustified ==
    ASSUME NEW sv, Stock(sv), NEW desired, NEW current, NEW ch, NEW kind, NEW by,
           Planned(ch, kind, current, desired, by),
           kind \in DOMAIN AdapterKindRank(app) \ {"NamingConfig", "RootFolder", "QualityProfile"},
           app \in {"sonarr", "lidarr"} => by = "id" /\ \A c \in current : Listed(sv, c)
    PROVE  Justified(sv, desired, ch)
<1>1. Known(ch)
    BY DEF Known, Planned
<1>2. ASSUME ch.op # "create", app \in {"sonarr", "lidarr"}
      PROVE  Behind(sv, ch.kind, ch.id, ch.name)
    <2>1. PICK c \in current : c.kind = ch.kind /\ c.name = ch.name /\ ch.id = c.id
        BY <1>2 DEF Planned
    <2>2. PICK x \in sv.items : Mirror(c, x) /\ c.id = x.id
        BY <1>2, <2>1 DEF Listed
    <2>3. x.kind = ch.kind /\ x.name = ch.name /\ x.id = ch.id
        BY <2>1, <2>2 DEF Mirror
    <2>. QED
        BY <2>3 DEF Behind, Stock
<1>3. ch.op = "delete" => ch.name \notin Names(Of(desired, ch.kind))
    BY DEF Planned, Names, Of
<1>. QED
    BY <1>1, <1>2, <1>3 DEF Justified

\* A new profile, a new root folder, other naming settings.
LEMMA OthersAreJustified ==
    ASSUME NEW sv, NEW desired, NEW current, NEW ch, ch.kind \in DOMAIN AdapterKindRank(app),
           \/ ch.op = "create" /\ PlannedProfile(ch, current, desired, NoId)
           \/ PlannedNaming(ch, desired) \/ PlannedFolder(ch, current, desired)
    PROVE  Justified(sv, desired, ch)
<1>1. \/ ch.op = "create" /\ ch.kind \in {"QualityProfile", "RootFolder"}
      \/ ch.op = "update" /\ ch.kind = "NamingConfig"
    BY DEF PlannedProfile, PlannedNaming, PlannedFolder, Planned
<1>. QED
    BY <1>1 DEF Justified, Known, Guarded

\* A profile that is created, or deleted by Sonarr or Lidarr.
LEMMA ProfileIsJustified ==
    ASSUME app \in {"sonarr", "lidarr"}, NEW sv, Stock(sv), NEW desired,
           NEW current, \A c \in current : Listed(sv, c),
           NEW ch, NEW id, PlannedProfile(ch, current, desired, id)
    PROVE  Justified(sv, desired, ch)
<1>. DEFINE have == Of(current, "QualityProfile")
<1>1. have # {} => First(have).kind = "QualityProfile"
    <2>1. \A c \in have : c.kind = "QualityProfile" /\ c.id \in Nat
        BY DEF Of, Listed, Stock
    <2>. HIDE DEF have
    <2>. QED
        BY <2>1, FirstIsThere
<1>2. ch.op \in {"create", "delete"} /\ ch.kind = "QualityProfile"
    BY <1>1 DEF PlannedProfile
<1>3. "QualityProfile" \in DOMAIN AdapterKindRank(app)
    BY DEF AdapterKindRank, Sonarr!KindRank, Lidarr!KindRank
<1>. QED
    BY <1>2, <1>3 DEF Justified, Known, Guarded

\* Sonarr's and Lidarr's plans.
LEMMA PlanById ==
    ASSUME app \in {"sonarr", "lidarr"}, NEW sv, Stock(sv), NEW desired,
           NEW current, \A c \in current : Listed(sv, c), NEW ids, NEW ch,
           \/ app = "sonarr" /\ ch \in Sonarr!Diff(current, desired, ids)
           \/ app = "lidarr" /\ ch \in Lidarr!Diff(current, desired, ids)
    PROVE  Justified(sv, desired, ch)
<1>1. \/ PlannedProfile(ch, current, desired, ids.profile)
      \/ PlannedNaming(ch, desired) \/ PlannedFolder(ch, current, desired)
      \/ \E kind \in {"DownloadClient", "Indexer", "RemotePathMapping", "Notification",
                      "CustomFormat", "DelayProfile"} :
             Planned(ch, kind, current, desired, "id")
    BY SonarrPlans, LidarrPlans
<1>2. {"DownloadClient", "Indexer", "RemotePathMapping", "Notification", "CustomFormat",
       "DelayProfile", "NamingConfig", "RootFolder"} \subseteq DOMAIN AdapterKindRank(app)
    BY DEF AdapterKindRank, Sonarr!KindRank, Lidarr!KindRank
<1>3. CASE PlannedProfile(ch, current, desired, ids.profile)
    BY <1>3, ProfileIsJustified
<1>4. CASE PlannedNaming(ch, desired) \/ PlannedFolder(ch, current, desired)
    <2>1. ch.kind \in {"NamingConfig", "RootFolder"}
        BY <1>4 DEF PlannedNaming, PlannedFolder, Planned
    <2>. QED
        BY <1>2, <1>4, <2>1, OthersAreJustified
<1>5. CASE \E kind \in {"DownloadClient", "Indexer", "RemotePathMapping", "Notification",
                        "CustomFormat", "DelayProfile"} :
               Planned(ch, kind, current, desired, "id")
    <2>1. PICK kind \in {"DownloadClient", "Indexer", "RemotePathMapping", "Notification",
                         "CustomFormat", "DelayProfile"} :
              Planned(ch, kind, current, desired, "id")
        BY <1>5
    <2>2. kind \in DOMAIN AdapterKindRank(app) \ {"NamingConfig", "RootFolder", "QualityProfile"}
        BY <1>2
    <2>. QED
        BY <2>1, <2>2, PlannedIsJustified
<1>. QED
    BY <1>1, <1>3, <1>4, <1>5

\* Radarr's plan.
LEMMA PlanByRadarr ==
    ASSUME app = "radarr", NEW sv, Stock(sv), NEW desired, NEW current,
           NEW ch \in Radarr!Diff(current, desired)
    PROVE  Justified(sv, desired, ch)
<1>1. \/ ch.op = "create" /\ PlannedProfile(ch, current, desired, NoId)
      \/ PlannedNaming(ch, desired) \/ PlannedFolder(ch, current, desired)
      \/ \E kind \in {"RemotePathMapping", "Notification", "DelayProfile"} :
             Planned(ch, kind, current, desired, "id")
      \/ \E kind \in {"CustomFormat", "DownloadClient", "Indexer"} :
             Planned(ch, kind, current, desired, "name")
    BY RadarrPlans
<1>2. {"DownloadClient", "Indexer", "RemotePathMapping", "Notification", "CustomFormat",
       "DelayProfile", "NamingConfig", "RootFolder", "QualityProfile"} \subseteq DOMAIN AdapterKindRank(app)
    BY DEF AdapterKindRank, Radarr!KindRank
<1>3. CASE \/ ch.op = "create" /\ PlannedProfile(ch, current, desired, NoId)
           \/ PlannedNaming(ch, desired) \/ PlannedFolder(ch, current, desired)
    <2>1. ch.kind \in {"NamingConfig", "RootFolder", "QualityProfile"}
        BY <1>3 DEF PlannedProfile, PlannedNaming, PlannedFolder, Planned
    <2>. QED
        BY <1>2, <1>3, <2>1, OthersAreJustified
<1>4. ASSUME NEW kind \in {"RemotePathMapping", "Notification", "DelayProfile", "CustomFormat",
                           "DownloadClient", "Indexer"},
             NEW by, Planned(ch, kind, current, desired, by)
      PROVE  Justified(sv, desired, ch)
    <2>1. kind \in DOMAIN AdapterKindRank(app) \ {"NamingConfig", "RootFolder", "QualityProfile"}
        BY <1>2
    <2>. QED
        BY <1>4, <2>1, PlannedIsJustified
<1>. QED
    BY <1>1, <1>3, <1>4

\* Readarr's plan.
LEMMA PlanByReadarr ==
    ASSUME app = "readarr", NEW sv, Stock(sv), NEW desired, NEW current,
           NEW ch \in Readarr!Diff(current, desired)
    PROVE  Justified(sv, desired, ch)
<1>1. \/ ch.op = "create" /\ PlannedProfile(ch, current, desired, NoId)
      \/ PlannedFolder(ch, current, desired)
      \/ Planned(ch, "MetadataProfile", current, desired, "id")
      \/ \E kind \in {"DownloadClient", "Indexer"} : Planned(ch, kind, current, desired, "name")
    BY ReadarrPlans
<1>2. {"DownloadClient", "Indexer", "MetadataProfile", "RootFolder", "QualityProfile"}
          \subseteq DOMAIN AdapterKindRank(app)
    BY DEF AdapterKindRank, Readarr!KindRank
<1>3. CASE \/ ch.op = "create" /\ PlannedProfile(ch, current, desired, NoId)
           \/ PlannedFolder(ch, current, desired)
    <2>1. ch.kind \in {"RootFolder", "QualityProfile"}
        BY <1>3 DEF PlannedProfile, PlannedFolder, Planned
    <2>. QED
        BY <1>2, <1>3, <2>1, OthersAreJustified
<1>4. ASSUME NEW kind \in {"MetadataProfile", "DownloadClient", "Indexer"},
             NEW by, Planned(ch, kind, current, desired, by)
      PROVE  Justified(sv, desired, ch)
    <2>1. kind \in DOMAIN AdapterKindRank(app) \ {"NamingConfig", "RootFolder", "QualityProfile"}
        BY <1>2
    <2>. QED
        BY <1>4, <2>1, PlannedIsJustified
<1>. QED
    BY <1>1, <1>3, <1>4

\* Prowlarr's plan.
LEMMA PlanByProwlarr ==
    ASSUME app = "prowlarr", NEW sv, Stock(sv), NEW desired, NEW current, NEW absent,
           NEW ch \in Prowlarr!Diff(current, desired, absent)
    PROVE  Justified(sv, desired, ch)
<1>1. PICK kind \in {"Indexer", "IndexerProxy", "Application", "DownloadClient"} :
          Planned(ch, kind, current, desired, "name")
    BY ProwlarrPlans
<1>2. kind \in DOMAIN AdapterKindRank(app) \ {"NamingConfig", "RootFolder", "QualityProfile"}
    BY DEF AdapterKindRank, Prowlarr!KindRank
<1>. QED
    BY <1>1, <1>2, PlannedIsJustified

\* Every plan is justified.
LEMMA PlanJustified ==
    ASSUME app \in Apps, NEW sv, Stock(sv), NEW schema, NEW tag, NEW blind, NEW desired, NEW ids,
           NEW cleanup, NEW current, current = AdapterCurrentState(app, sv, schema, tag, blind),
           NEW ch \in AdapterDiff(app, current, desired, ids, cleanup)
    PROVE  Justified(sv, desired, ch)
<1>1. CASE app = "sonarr"
    <2>1. \A c \in current : Listed(sv, c)
        BY <1>1, SonarrLists DEF AdapterCurrentState
    <2>2. ch \in Sonarr!Diff(current, desired, ids)
        BY <1>1 DEF AdapterDiff
    <2>. QED  BY <1>1, <2>1, <2>2, PlanById
<1>2. CASE app = "lidarr"
    <2>1. \A c \in current : Listed(sv, c)
        BY <1>2, LidarrLists DEF AdapterCurrentState
    <2>2. ch \in Lidarr!Diff(current, desired, ids)
        BY <1>2 DEF AdapterDiff
    <2>. QED  BY <1>2, <2>1, <2>2, PlanById
<1>3. CASE app = "radarr"
    <2>1. ch \in Radarr!Diff(current, desired)
        BY <1>3 DEF AdapterDiff
    <2>. QED  BY <1>3, <2>1, PlanByRadarr
<1>4. CASE app = "readarr"
    <2>1. ch \in Readarr!Diff(current, desired)
        BY <1>4 DEF AdapterDiff
    <2>. QED  BY <1>4, <2>1, PlanByReadarr
<1>5. CASE app = "prowlarr"
    <2>1. ch \in Prowlarr!Diff(current, desired, cleanup)
        BY <1>5 DEF AdapterDiff
    <2>. QED  BY <1>5, <2>1, PlanByProwlarr
<1>. QED
    BY <1>1, <1>2, <1>3, <1>4, <1>5 DEF Apps

(***************************************************************************)
(* Prowlarr's cache.                                                       *)
(***************************************************************************)

\* Listing, creating and updating add entries that are right.
LEMMA CachedIsRight ==
    ASSUME NEW sv, NEW ids, Remembers(sv, ids), NEW listed,
           \A c \in listed : Behind(sv, c.kind, c.id, c.name)
    PROVE  Remembers(sv, Prowlarr!cached(ids, listed))
<1>. DEFINE keys == {<<x.kind, x.name>> : x \in listed}
            new  == Prowlarr!cached(ids, listed)
<1>1. new = [k \in DOMAIN ids \cup keys |->
                IF k \in keys THEN (CHOOSE x \in listed : <<x.kind, x.name>> = k).id ELSE ids[k]]
    BY DEF Prowlarr!cached
<1>2. DOMAIN new = DOMAIN ids \cup keys
    BY <1>1
<1>3. ASSUME NEW k \in DOMAIN new
      PROVE  Behind(sv, k[1], new[k], k[2])
    <2>1. CASE k \in keys
        <3>1. PICK x \in listed : <<x.kind, x.name>> = k
            BY <2>1
        <3>2. PICK c \in listed : <<c.kind, c.name>> = k /\ new[k] = c.id
            <4>. DEFINE c == CHOOSE y \in listed : <<y.kind, y.name>> = k
            <4>1. c \in listed /\ <<c.kind, c.name>> = k
                BY <3>1
            <4>2. new[k] = c.id
                BY <1>1, <1>2, <2>1
            <4>. HIDE DEF c
            <4>. QED  BY <4>1, <4>2
        <3>3. k[1] = c.kind /\ k[2] = c.name
            BY <3>2
        <3>. QED
            BY <3>2, <3>3
    <2>2. CASE k \notin keys
        <3>1. k \in DOMAIN ids /\ new[k] = ids[k]
            BY <1>1, <1>2, <2>2
        <3>. QED
            BY <3>1 DEF Remembers
    <2>. QED
        BY <2>1, <2>2
<1>. HIDE DEF new
<1>4. Remembers(sv, new)
    BY <1>3 DEF Remembers
<1>. QED
    BY <1>4 DEF new

\* Forgetting an entry leaves the others.
LEMMA ForgottenIsRight ==
    ASSUME NEW sv, NEW ids, Remembers(sv, ids), NEW kind, NEW name
    PROVE  Remembers(sv, Prowlarr!forget(ids, kind, name))
BY DEF Remembers, Prowlarr!forget

\* What a list adds.
LEMMA ListIsRemembered ==
    ASSUME NEW sv, Stock(sv), NEW ids, Remembers(sv, ids), NEW tag, NEW blind,
           NEW current, current = Prowlarr!CurrentState(sv, tag, blind)
    PROVE  Remembers(sv, Prowlarr!cached(ids, current))
<1>1. ASSUME NEW c \in current
      PROVE  Behind(sv, c.kind, c.id, c.name)
    <2>1. PICK x \in sv.items : Mirror(c, x) /\ c.id = x.id
        BY ProwlarrLists DEF Listed
    <2>. QED
        BY <2>1 DEF Mirror, Behind, Stock
<1>. QED
    BY <1>1, CachedIsRight

\* What a change that is applied leaves in the cache.
LEMMA CacheStep ==
    ASSUME app = "prowlarr", Stock(svc), Remembers(svc, cache), NEW ch, Known(ch),
           NEW q, q = Prowlarr!Apply(svc, cache, ch), NEW out, Send(q, out), Moves(svc, svc')
    PROVE  Remembers(svc', Prowlarr!CacheAfter(svc, cache, ch, out = "ok" /\ Served(q)))
<1>. DEFINE id     == Prowlarr!IdFor(svc, cache, ch.kind, ch.name)
            one(i) == [kind |-> ch.kind, name |-> ch.name, id |-> i]
            new    == Prowlarr!CacheAfter(svc, cache, ch, out = "ok" /\ Served(q))
<1>0. SUFFICES Remembers(svc', new)
    OBVIOUS
<1>1. svc.next \in Nat /\ ch.op \in {"create", "update", "delete"} /\ ch.kind \in DOMAIN Prowlarr!KindRank
    BY DEF Stock, Known, AdapterKindRank
<1>2. Remembers(svc', cache)
    BY <1>1, RemembersMoves
<1>3. \A i : one(i).kind = ch.kind /\ one(i).name = ch.name /\ one(i).id = i
    OBVIOUS
<1>4. /\ ch.op = "create" /\ out = "ok" /\ Served(q) => new = Prowlarr!cached(cache, {one(svc.next)})
      /\ ch.op = "update" /\ id # NoId => new = Prowlarr!cached(cache, {one(id)})
      /\ ch.op = "delete" /\ out = "ok" /\ Served(q) => new = Prowlarr!forget(cache, ch.kind, ch.name)
      /\ \/ ch.op = "create" /\ ~(out = "ok" /\ Served(q))
         \/ ch.op = "update" /\ id = NoId
         \/ ch.op = "delete" /\ ~(out = "ok" /\ Served(q))
         => new = cache
    BY DEF Prowlarr!CacheAfter, Prowlarr!NoId, NoId
<1>. HIDE DEF new, one
<1>5. CASE ch.op = "create" /\ out = "ok" /\ Served(q)
    <2>1. svc' = Serve(svc, q)
        BY <1>5 DEF Send
    <2>2. Posts(q, ch)
        BY <1>1, <1>5, ProwlarrRequest
    <2>. DEFINE x == [kind |-> q.kind, id |-> svc.next, name |-> q.name, cfg |-> q.cfg, ours |-> q.ours]
    <2>3. svc'.items = svc.items \cup {x} /\ svc'.next = svc.next + 1
        BY <2>1, <2>2, AfterServe DEF Posts
    <2>4. x.name = ch.name
        BY <2>2 DEF Posts
    <2>. HIDE DEF x
    <2>5. Behind(svc', ch.kind, svc.next, ch.name)
        BY <1>1, <2>3, <2>4 DEF Behind, Stock
    <2>6. \A c \in {one(svc.next)} : Behind(svc', c.kind, c.id, c.name)
        BY <1>3, <2>5
    <2>. QED
        BY <1>2, <1>4, <1>5, <2>6, CachedIsRight
<1>6. CASE ch.op = "update" /\ id # NoId
    <2>1. Behind(svc, ch.kind, id, ch.name)
        BY <1>6, IdForIsBehind
    <2>. HIDE DEF id
    <2>2. Behind(svc', ch.kind, id, ch.name)
        BY <1>1, <2>1, BehindMoves
    <2>3. \A c \in {one(id)} : Behind(svc', c.kind, c.id, c.name)
        BY <1>3, <2>2
    <2>. QED
        BY <1>2, <1>4, <1>6, <2>3, CachedIsRight
<1>7. CASE ch.op = "delete" /\ out = "ok" /\ Served(q)
    BY <1>2, <1>4, <1>7, ForgottenIsRight
<1>. QED
    BY <1>1, <1>2, <1>4, <1>5, <1>6, <1>7

(***************************************************************************)
(* What the compiler makes has what the specification calls for.           *)
(***************************************************************************)

\* An IR consists of resources.
LEMMA CommonAreResources ==
    ASSUME NEW a, NEW s, NEW config, NEW read, NEW d \in CommonResources(a, s, config, read)
    PROVE  DOMAIN d = {"kind", "id", "name", "cfg"}
<1>1. \A kind, id, name, cfg : DOMAIN Resource(kind, id, name, cfg) = {"kind", "id", "name", "cfg"}
    BY DEF Resource
<1>. QED
    BY <1>1, ZenonT(60)
    DEF CommonResources, compileDownloadClients, compileRemotePathMappings, compileIndexers,
        compileImportListsToIR, compileMediaManagementToIR, compileAuthenticationToIR,
        compileNotificationsToIR

\* What the compiler makes is a set of resources, for each of the services.
LEMMA CompiledAreResources ==
    ASSUME NEW a \in Apps, NEW s, NEW config, NEW read, NEW caps, NEW d \in Compile(a, s, config, read, caps)
    PROVE  DOMAIN d = {"kind", "id", "name", "cfg"}
<1>1. \A kind, id, name, cfg : DOMAIN Resource(kind, id, name, cfg) = {"kind", "id", "name", "cfg"}
    BY DEF Resource
<1>2. \A b : \A x \in pruneUnsupported(CommonResources(b, s, config, read), caps) :
          DOMAIN x = {"kind", "id", "name", "cfg"}
    BY CommonAreResources DEF pruneUnsupported
<1>3. \A x \in RootFolders(s.rootFolders) : DOMAIN x = {"kind", "id", "name", "cfg"}
    BY <1>1 DEF RootFolders
<1>4. \A b : \A x \in compileNaming(b, s.naming) : DOMAIN x = {"kind", "id", "name", "cfg"}
    BY <1>1, Zenon DEF compileNaming
<1>5. \A x \in compileDelayProfilesToIR(convertDelayProfiles(s.delayProfiles)) :
          DOMAIN x = {"kind", "id", "name", "cfg"}
    BY <1>1, Zenon DEF compileDelayProfilesToIR
<1>6. CASE a = "radarr"
    <2>1. d \in CompileRadarrConfig(s, config, read, caps)
        BY <1>6 DEF Compile
    <2>. QED
        BY <1>1, <1>2, <1>3, <1>4, <1>5, <2>1, ZenonT(60) DEF CompileRadarrConfig
<1>7. CASE a = "sonarr"
    <2>1. d \in CompileSonarrConfig(s, config, read, caps)
        BY <1>7 DEF Compile
    <2>. QED
        BY <1>1, <1>2, <1>3, <1>4, <1>5, <2>1, ZenonT(60) DEF CompileSonarrConfig, compileCustomFormatsToIR
<1>8. CASE a = "lidarr"
    <2>1. d \in CompileLidarrConfig(s, config, read, caps)
        BY <1>8 DEF Compile
    <2>. QED
        BY <1>1, <1>2, <1>4, <2>1, ZenonT(60) DEF CompileLidarrConfig
<1>9. CASE a = "readarr"
    <2>1. d \in CompileReadarrConfig(s, config, read, caps)
        BY <1>9 DEF Compile
    <2>. QED
        BY <1>1, <1>2, <1>3, <2>1, ZenonT(60) DEF CompileReadarrConfig, compileMetadataProfile
<1>10. CASE a = "prowlarr"
    <2>1. d \in CompileProwlarrConfig(s, config, read)
        BY <1>10 DEF Compile
    <2>. QED
        BY <1>1, <2>1, ZenonT(60)
        DEF CompileProwlarrConfig, compileProwlarrIndexers, compileProwlarrProxies,
            compileProwlarrApplications, compileProwlarrDownloadClients
<1>. QED
    BY <1>6, <1>7, <1>8, <1>9, <1>10 DEF Apps

\* The *arr compilers hand on the common part, pruned.
LEMMA CompiledHasCommon ==
    ASSUME NEW a \in Apps \ {"prowlarr"}, NEW s, NEW config, NEW read, NEW caps
    PROVE  pruneUnsupported(CommonResources(a, s, config, read), caps) \subseteq Compile(a, s, config, read, caps)
<1>1. CASE a = "radarr"
    BY <1>1, Zenon DEF Compile, CompileRadarrConfig
<1>2. CASE a = "sonarr"
    BY <1>2, Zenon DEF Compile, CompileSonarrConfig
<1>3. CASE a = "lidarr"
    BY <1>3, Zenon DEF Compile, CompileLidarrConfig
<1>4. CASE a = "readarr"
    BY <1>4, Zenon DEF Compile, CompileReadarrConfig
<1>. QED
    BY <1>1, <1>2, <1>3, <1>4 DEF Apps

\* A resource of the kind and name is in the IR.
LEMMA NamedInIR ==
    ASSUME NEW ir, NEW d \in ir
    PROVE  d.name \in Names(Of(ir, d.kind))
BY DEF Names, Of

\* A client that the service supports is compiled and not pruned, also when the
\* list of what the service supports did not arrive.
LEMMA ClientIsCompiled ==
    ASSUME app \in Apps, NEW s, NEW read, NEW lost, NEW c \in s.downloadClients, Supported(c)
    PROVE  Owned(Config, c.name) \in
               Names(Of(Compile(app, s, Config, read, Discover(lost)), "DownloadClient"))
<1>. DEFINE ir == Compile(app, s, Config, read, Discover(lost))
<1>1. CASE app = "prowlarr"
    <2>. DEFINE cred == Credentials(c.credentialsSecretRef, read)
                d    == Resource("DownloadClient", NoId, Owned(Config, c.name),
                                 [impl |-> Implementation(c), host |-> parseClientURL(c.url),
                                  user |-> cred[1], cred |-> cred[2], category |-> c.category])
    <2>1. d \in compileProwlarrDownloadClients(s.downloadClients, Config, read)
        BY DEF compileProwlarrDownloadClients
    <2>2. d \in ir
        BY <1>1, <2>1 DEF Compile, CompileProwlarrConfig
    <2>3. d.kind = "DownloadClient" /\ d.name = Owned(Config, c.name)
        BY DEF Resource
    <2>. HIDE DEF d, ir
    <2>4. Owned(Config, c.name) \in Names(Of(ir, "DownloadClient"))
        BY <2>2, <2>3, NamedInIR
    <2>. QED
        BY <2>4 DEF ir
<1>2. CASE app # "prowlarr"
    <2>. DEFINE i == [name |-> c.name, impl |-> normalizeImplementationName(Implementation(c)),
                      host |-> parseClientURL(c.url), cred |-> Credentials(c.credentialsSecretRef, read),
                      category |-> c.category]
                d == Resource("DownloadClient", NoId, Owned(Config, i.name),
                              [impl |-> i.impl, host |-> i.host, cred |-> i.cred, category |-> i.category])
                caps == Discover(lost)
                common == CommonResources(app, s, Config, read)
    <2>1. d \in common
        <3>1. i \in convertDownloadClients(s.downloadClients, read)
            BY DEF convertDownloadClients
        <3>2. d \in compileDownloadClients(convertDownloadClients(s.downloadClients, read), Config)
            BY <3>1 DEF compileDownloadClients
        <3>. QED  BY <3>2 DEF CommonResources
    <2>2. /\ d.kind = "DownloadClient" /\ d.name = Owned(Config, c.name)
          /\ d.cfg.impl = PascalImplementation[Implementation(c)]
        BY DEF Resource, normalizeImplementationName
    <2>3. caps.clientTypes # {} => PascalImplementation[Implementation(c)] \in caps.clientTypes
        BY <1>2 DEF Supported, Discover
    <2>. HIDE DEF d, caps, common
    <2>4. d \in pruneUnsupported(common, caps)
        BY <2>1, <2>2, <2>3 DEF pruneUnsupported
    <2>5. d \in Compile(app, s, Config, read, caps)
        BY <1>2, <2>4, CompiledHasCommon DEF common
    <2>6. Owned(Config, c.name) \in Names(Of(Compile(app, s, Config, read, caps), "DownloadClient"))
        BY <2>2, <2>5, NamedInIR
    <2>. QED
        BY <2>6 DEF caps
<1>. QED
    BY <1>1, <1>2

\* So is an indexer that is used.
LEMMA IndexerIsCompiled ==
    ASSUME app \in Apps, app \in DOMAIN Scenes, NEW s, NEW read, NEW lost, NEW x \in UsedIndexers(s)
    PROVE  Owned(Config, x.name) \in Names(Of(Compile(app, s, Config, read, Discover(lost)), "Indexer"))
<1>. DEFINE ir == Compile(app, s, Config, read, Discover(lost))
<1>1. CASE app = "prowlarr"
    <2>. DEFINE d == Resource("Indexer", NoId, Owned(Config, x.name),
                              [definition |-> x.definition, url |-> x.baseUrl,
                               key |-> KeyOf(x.apiKeySecretRef, read)])
    <2>1. d \in compileProwlarrIndexers(s.indexers, Config, read)
        BY <1>1 DEF compileProwlarrIndexers, UsedIndexers
    <2>2. d \in ir
        BY <1>1, <2>1 DEF Compile, CompileProwlarrConfig
    <2>3. d.kind = "Indexer" /\ d.name = Owned(Config, x.name)
        BY DEF Resource
    <2>. HIDE DEF d, ir
    <2>4. Owned(Config, x.name) \in Names(Of(ir, "Indexer"))
        BY <2>2, <2>3, NamedInIR
    <2>. QED
        BY <2>4 DEF ir
<1>2. CASE app # "prowlarr"
    <2>. DEFINE i == [name |-> x.name, impl |-> inferIndexerImplementation(x.type), url |-> x.url,
                      key |-> KeyOf(x.apiKeySecretRef, read)]
                d == Resource("Indexer", NoId, Owned(Config, i.name),
                              [impl |-> i.impl, url |-> i.url, key |-> i.key])
                caps == Discover(lost)
                common == CommonResources(app, s, Config, read)
    <2>1. d \in common
        <3>1. PICK y \in s.indexers : y.prowlarrRef = None /\ x \in y.direct
            BY <1>2 DEF UsedIndexers
        <3>2. x \in {e \in y.direct : y.prowlarrRef = None}
            BY <3>1
        <3>3. i \in convertIndexers(s.indexers, read)
            <4>. DEFINE part(z) ==
                     {[name |-> e.name, impl |-> inferIndexerImplementation(e.type), url |-> e.url,
                       key |-> KeyOf(e.apiKeySecretRef, read)] :
                          e \in {f \in z.direct : z.prowlarrRef = None}}
            <4>1. i \in part(y)
                BY <3>2
            <4>2. convertIndexers(s.indexers, read) = UNION {part(z) : z \in s.indexers}
                BY DEF convertIndexers
            <4>. HIDE DEF part, i
            <4>. QED  BY <4>1, <4>2
        <3>4. d \in compileIndexers(convertIndexers(s.indexers, read), Config)
            BY <3>3 DEF compileIndexers
        <3>. QED  BY <3>4 DEF CommonResources
    <2>2. /\ d.kind = "Indexer" /\ d.name = Owned(Config, x.name)
          /\ d.cfg.impl \in {"Newznab", "Torznab"}
        BY DEF Resource, inferIndexerImplementation
    <2>3. caps.indexerTypes # {} => {"Newznab", "Torznab"} \subseteq caps.indexerTypes
        <3>1. {"Newznab", "Torznab"} \subseteq scene.types.indexers
            BY <1>2, ServicesAssumption DEF scene
        <3>. QED  BY <3>1 DEF Discover
    <2>. HIDE DEF d, caps, common
    <2>4. d \in pruneUnsupported(common, caps)
        BY <2>1, <2>2, <2>3 DEF pruneUnsupported
    <2>5. d \in Compile(app, s, Config, read, caps)
        BY <1>2, <2>4, CompiledHasCommon DEF common
    <2>6. Owned(Config, x.name) \in Names(Of(Compile(app, s, Config, read, caps), "Indexer"))
        BY <2>2, <2>5, NamedInIR
    <2>. QED
        BY <2>6 DEF caps
<1>. QED
    BY <1>1, <1>2

\* Everything that the specification calls for is compiled.
LEMMA CompiledCovers ==
    ASSUME app \in Apps, app \in DOMAIN Scenes, NEW s, NEW read, NEW lost, NEW kind \in Guarded
    PROVE  CalledFor(s)[kind] \subseteq Names(Of(Compile(app, s, Config, read, Discover(lost)), kind))
<1>1. CASE kind = "DownloadClient"
    <2>1. CalledFor(s)[kind] = {Owned(Config, c.name) : c \in {d \in s.downloadClients : Supported(d)}}
        BY <1>1 DEF CalledFor
    <2>2. ASSUME NEW n \in CalledFor(s)[kind]
          PROVE  n \in Names(Of(Compile(app, s, Config, read, Discover(lost)), kind))
        <3>1. PICK c \in s.downloadClients : Supported(c) /\ n = Owned(Config, c.name)
            BY <2>1
        <3>. QED
            BY <1>1, <3>1, ClientIsCompiled
    <2>. QED
        BY <2>2
<1>2. CASE kind = "Indexer"
    <2>1. CalledFor(s)[kind] = {Owned(Config, i.name) : i \in UsedIndexers(s)}
        BY <1>2 DEF CalledFor
    <2>2. ASSUME NEW n \in CalledFor(s)[kind]
          PROVE  n \in Names(Of(Compile(app, s, Config, read, Discover(lost)), kind))
        <3>1. PICK x \in UsedIndexers(s) : n = Owned(Config, x.name)
            BY <2>1
        <3>. QED
            BY <1>2, <3>1, IndexerIsCompiled
    <2>. QED
        BY <2>2
<1>. QED
    BY <1>1, <1>2 DEF Guarded

(***************************************************************************)
(* The steps.                                                              *)
(***************************************************************************)

\* The second invariant of the next state, of an application that stays.
LEMMA KeepNext ==
    ASSUME app' = app, Stock(svc'), Remembers(svc', cache'), Working(pass', svc')
    PROVE  KeepInv'
<1>1. scene' = scene /\ \A n : SpecOf(n)' = SpecOf(n)
    BY SceneKept
<1>2. \A c : Supported(c)' <=> Supported(c)
    BY <1>1 DEF Supported
<1>3. \A s : UsedIndexers(s)' = UsedIndexers(s)
    BY DEF UsedIndexers
<1>4. \A s : CalledFor(s)' = CalledFor(s)
    BY <1>2, <1>3 DEF CalledFor
<1>5. Stock(svc)' /\ Remembers(svc, cache)'
    BY DEF Stock, Remembers, Behind
<1>6. Covers(pass)'
    BY <1>1, <1>4 DEF Working, Covers
<1>7. \A ch : Justified(svc, pass.desired, ch)' <=> Justified(svc', pass'.desired, ch)
    BY DEF Justified, Known, Behind
<1>8. Working(pass, svc)'
    BY <1>6, <1>7 DEF Working
<1>. QED
    BY <1>5, <1>8 DEF KeepInv

\* A service that stays, but for the tag.
LEMMA TagMoves ==
    ASSUME NEW sv, Stock(sv), NEW tv, tv = sv \/ tv = EnsureOwnershipTag(sv)
    PROVE  Stock(tv) /\ Moves(sv, tv) /\ sv.next \in Nat /\ tv.items = sv.items
<1>1. DOMAIN tv = DOMAIN sv /\ tv.items = sv.items /\ tv.next = sv.next
    BY DEF EnsureOwnershipTag, Stock
<1>. QED
    BY <1>1 DEF Stock, Moves

\* A pass that ends has nothing in hand.
LEMMA NothingInHand ==
    ASSUME NEW sv
    PROVE  Working(NoPass, sv)
<1>1. /\ NoPass.phase = "idle" /\ NoPass.desired = {} /\ NoPass.todo = {} /\ NoPass.kinds = {}
      /\ NoPass.requests = {}
    BY DEF NoPass
<1>. QED
    BY <1>1 DEF Working, Covers

\* A pass that goes on with part of what it has in hand.
LEMMA WorkGoesOn ==
    ASSUME NEW sv, NEW tv, Moves(sv, tv), sv.next \in Nat, NEW p, NEW r, Working(p, sv),
           p.phase # "idle", r.spec = p.spec, r.cleanup = p.cleanup, r.desired = p.desired,
           r.todo \subseteq p.todo, r.kinds \subseteq p.kinds, r.requests \subseteq p.requests,
           r.todo # {} => r.phase \in {"tag", "apply"},
           r.phase \in {"connect", "read", "tag", "apply"} =>
               p.phase \in {"connect", "read", "tag", "apply"}
    PROVE  Working(r, tv)
<1>1. \A ch \in r.todo : Justified(tv, r.desired, ch)
    BY JustifiedMoves DEF Working
<1>2. Covers(r)
    BY DEF Working, Covers
<1>. QED
    BY <1>1, <1>2 DEF Working

\* A step that leaves the service and what is known of it.
LEMMA KeepStill ==
    ASSUME app' = app, KeepInv, svc' = svc, cache' = cache, Working(pass', svc)
    PROVE  KeepInv'
BY KeepNext DEF KeepInv

\* The application is one of the five.
LEMMA AppIsKnown ==
    ASSUME ObjTyped
    PROVE  app \in DOMAIN Scenes /\ app \in Apps
<1>1. DOMAIN Scenes \subseteq Apps
    BY ScenesAssumption, Zenon
<1>2. app \in DOMAIN Scenes
    BY DEF ObjTyped
<1>. QED
    BY <1>1, <1>2

\* The start.
LEMMA KeepReconcile ==
    ASSUME ObjTyped, KeepInv, Reconcile
    PROVE  KeepInv'
<1>1. /\ pass'.phase = "resolve" /\ pass'.spec = {obj.spec} /\ pass'.desired = {} /\ pass'.todo = {}
      /\ pass'.kinds = {} /\ pass'.requests = {}
    BY DEF Reconcile, NoPass
<1>2. Working(pass', svc)
    BY <1>1 DEF Working, Covers
<1>3. app' = app /\ svc' = svc /\ cache' = cache
    BY DEF Reconcile
<1>. QED
    BY <1>2, <1>3, KeepStill

\* A Get.
LEMMA KeepResolve ==
    ASSUME PassTyped, KeepInv, NEW q, Resolve(q)
    PROVE  KeepInv'
<1>1. app' = app /\ svc' = svc /\ cache' = cache /\ pass.phase = "resolve"
    BY DEF Resolve
<1>2. CASE pass' = NoPass
    BY <1>1, <1>2, NothingInHand, KeepStill
<1>3. CASE pass' # NoPass
    <2>. DEFINE got  == Fetched(q)
                more == IF Len(q.keys) > 1 THEN {[q EXCEPT !.rank = @ - 1, !.keys = Tail(@)]} ELSE {}
    <2>1. pass' = [pass EXCEPT !.refs = (@ \ {q}) \cup more,
                               !.resolved = [e \in DOMAIN got \cup DOMAIN @ |->
                                                IF e \in DOMAIN got THEN got[e] ELSE @[e]]]
        BY <1>3 DEF Resolve, Stop
    <2>2. /\ pass'.phase = pass.phase /\ pass'.cleanup = pass.cleanup /\ pass'.spec = pass.spec
          /\ pass'.desired = pass.desired /\ pass'.todo = pass.todo /\ pass'.kinds = pass.kinds
          /\ pass'.requests = pass.requests
        BY <2>1 DEF PassTyped, PassFields
    <2>3. Working(pass', svc)
        BY <2>2 DEF KeepInv, Working, Covers
    <2>. QED
        BY <1>1, <2>3, KeepStill
<1>. QED
    BY <1>2, <1>3

\* The compilation covers what the specification calls for.
LEMMA KeepCompile ==
    ASSUME ObjTyped, PassTyped, KeepInv, NEW lost, CompileConfig(lost)
    PROVE  KeepInv'
<1>. DEFINE ir(s) == Compile(app, SpecOf(s), Config, pass.resolved, Discover(lost))
<1>1. /\ app' = app /\ svc' = svc /\ cache' = cache /\ pass.phase = "resolve"
      /\ pass'.phase = "connect" /\ pass'.spec = pass.spec /\ pass'.todo = pass.todo
      /\ pass'.kinds = pass.kinds /\ pass'.requests = pass.requests
      /\ pass'.desired = UNION {ir(s) : s \in pass.spec}
    BY DEF CompileConfig, PassTyped, PassFields
<1>2. app \in DOMAIN Scenes /\ app \in Apps
    BY AppIsKnown
<1>3. \A s \in pass.spec : pass'.desired = ir(s)
    <2>1. \A s \in pass.spec : pass.spec = {s}
        BY DEF PassTyped
    <2>. HIDE DEF ir
    <2>. QED  BY <1>1, <2>1
<1>4. \A s \in pass.spec : \A kind \in Guarded : CalledFor(SpecOf(s))[kind] \subseteq Names(Of(ir(s), kind))
    BY <1>2, CompiledCovers
<1>5. \A s \in pass.spec : \A d \in ir(s) : DOMAIN d = {"kind", "id", "name", "cfg"}
    BY <1>2, CompiledAreResources
<1>. HIDE DEF ir
<1>6. \A d \in pass'.desired : DOMAIN d = {"kind", "id", "name", "cfg"}
    BY <1>1, <1>5
<1>7. Covers(pass')
    BY <1>1, <1>3, <1>4 DEF Covers
<1>8. pass'.todo = {}
    BY <1>1 DEF KeepInv, Working
<1>9. Working(pass', svc)
    BY <1>1, <1>6, <1>7, <1>8 DEF KeepInv, Working
<1>. QED
    BY <1>1, <1>9, KeepStill

\* Stop, or the next phase.
LEMMA KeepConnect ==
    ASSUME PassTyped, KeepInv, NEW out, Connect(out)
    PROVE  KeepInv'
<1>1. app' = app /\ svc' = svc /\ cache' = cache /\ pass.phase = "connect"
    BY DEF Connect
<1>2. CASE pass' = NoPass
    BY <1>1, <1>2, NothingInHand, KeepStill
<1>3. CASE pass' = [pass EXCEPT !.phase = "read"]
    <2>1. /\ pass'.phase = "read" /\ pass'.cleanup = pass.cleanup /\ pass'.spec = pass.spec
          /\ pass'.desired = pass.desired /\ pass'.todo = pass.todo /\ pass'.kinds = pass.kinds
          /\ pass'.requests = pass.requests
        BY <1>3 DEF PassTyped, PassFields
    <2>2. pass.todo = {}
        BY <1>1 DEF KeepInv, Working
    <2>3. Working(pass', svc)
        BY <1>1, <2>1, <2>2 DEF KeepInv, Working, Covers
    <2>. QED
        BY <1>1, <2>3, KeepStill
<1>. QED
    BY <1>2, <1>3 DEF Connect, Stop

\* The plan.
LEMMA KeepRead ==
    ASSUME ObjTyped, PassTyped, KeepInv, NEW lost, Read(lost)
    PROVE  KeepInv'
<1>. DEFINE current == AdapterCurrentState(app, svc, scene.schema, GetOwnershipTagID(svc, lost # "tags"), {lost})
            ids     == GlobalsAfter(app, current, globals)
            plan    == AdapterDiff(app, current, pass.desired, ids, pass.cleanup)
<1>1. /\ app' = app /\ svc' = svc
      /\ pass.phase \in {"read", "resolve"} /\ (pass.phase = "resolve" => pass.cleanup)
      /\ pass' = [pass EXCEPT !.phase = IF IsEmpty(plan) THEN "direct" ELSE "tag", !.todo = plan,
                              !.kinds = IF app \in DirectAppliers /\ ~pass.cleanup
                                        THEN ApplyDirect(pass.desired) ELSE {}]
      /\ cache' = IF app = "prowlarr" THEN Prowlarr!cached(cache, current) ELSE cache
    BY DEF Read
<1>2. app \in Apps
    BY AppIsKnown
<1>3. Stock(svc) /\ Remembers(svc, cache)
    BY DEF KeepInv
<1>4. \A ch \in plan : Justified(svc, pass.desired, ch)
    BY <1>2, <1>3, PlanJustified
<1>5. Remembers(svc, cache')
    <2>1. CASE app = "prowlarr"
        <3>1. current = Prowlarr!CurrentState(svc, GetOwnershipTagID(svc, lost # "tags"), {lost})
            BY <2>1 DEF AdapterCurrentState
        <3>2. cache' = Prowlarr!cached(cache, current)
            BY <1>1, <2>1
        <3>. QED
            BY <1>3, <3>1, <3>2, ListIsRemembered
    <2>2. CASE app # "prowlarr"
        BY <1>1, <1>3, <2>2
    <2>. QED  BY <2>1, <2>2
<1>. HIDE DEF plan, current
<1>6. /\ pass'.phase = IF plan = {} THEN "direct" ELSE "tag"
      /\ pass'.cleanup = pass.cleanup /\ pass'.spec = pass.spec /\ pass'.desired = pass.desired
      /\ pass'.todo = plan /\ pass'.requests = pass.requests
      /\ pass'.kinds = IF app \in DirectAppliers /\ ~pass.cleanup THEN ApplyDirect(pass.desired) ELSE {}
    BY <1>1 DEF PassTyped, PassFields, IsEmpty
<1>7. pass'.kinds \subseteq DOMAIN DirectOrder /\ (pass'.kinds # {} => app \in DirectAppliers)
    BY <1>6 DEF ApplyDirect
<1>8. Covers(pass')
    BY <1>1, <1>6 DEF KeepInv, Working, Covers
<1>9. Working(pass', svc)
    BY <1>1, <1>4, <1>6, <1>7, <1>8 DEF KeepInv, Working
<1>. QED
    BY <1>1, <1>3, <1>5, <1>9, KeepNext

\* The tag.
LEMMA KeepTag ==
    ASSUME PassTyped, KeepInv, NEW out, EnsureTag(out)
    PROVE  KeepInv'
<1>1. /\ app' = app /\ cache' = cache /\ pass.phase = "tag"
      /\ svc' = svc \/ svc' = EnsureOwnershipTag(svc)
    BY DEF EnsureTag
<1>2. Stock(svc') /\ Moves(svc, svc') /\ svc.next \in Nat
    BY <1>1, TagMoves DEF KeepInv
<1>3. Remembers(svc', cache')
    BY <1>1, <1>2, RemembersMoves DEF KeepInv
<1>4. Working(pass', svc')
    <2>1. CASE pass' = NoPass
        BY <2>1, NothingInHand
    <2>2. CASE pass' = [pass EXCEPT !.phase = "apply"]
        <3>1. /\ pass'.phase = "apply" /\ pass'.cleanup = pass.cleanup /\ pass'.spec = pass.spec
              /\ pass'.desired = pass.desired /\ pass'.todo = pass.todo /\ pass'.kinds = pass.kinds
              /\ pass'.requests = pass.requests
            BY <2>2 DEF PassTyped, PassFields
        <3>2. Working(pass, svc)
            BY DEF KeepInv
        <3>. QED
            BY <1>1, <1>2, <3>1, <3>2, WorkGoesOn
    <2>. QED
        BY <2>1, <2>2 DEF EnsureTag, Stop
<1>. QED
    BY <1>1, <1>2, <1>3, <1>4, KeepNext

\* A request that is sent keeps the service in order.
LEMMA SentKeeps ==
    ASSUME Stock(svc), NEW q, NEW out, Send(q, out), NEW kind, RequestOK(q, kind),
           kind \in Guarded /\ q.verb = "PUT" =>
               \A x \in svc.items : x.kind = kind /\ x.id = q.id => x.name = q.name
    PROVE  Stock(svc') /\ Moves(svc, svc') /\ svc.next \in Nat
<1>1. CASE svc' = svc
    BY <1>1, TagMoves
<1>2. CASE svc' = Serve(svc, q) /\ Accepts(svc, q)
    BY <1>2, ServeKeepsStock, ServeMoves DEF Stock
<1>. QED
    BY <1>1, <1>2 DEF Send, Served

\* What a request that is sent takes away.
LEMMA SentRemoves ==
    ASSUME Stock(svc), NEW q, NEW out, Send(q, out), NEW kind, RequestOK(q, kind),
           NEW x \in svc.items, ~\E y \in svc'.items : y.kind = x.kind /\ y.id = x.id
    PROVE  q.verb = "DELETE" /\ x.kind = kind /\ x.id = q.id
<1>. DEFINE rest    == {y \in svc.items : ~(y.kind = q.kind /\ y.id = q.id)}
            new(id) == [kind |-> q.kind, id |-> id, name |-> q.name, cfg |-> q.cfg, ours |-> q.ours]
<1>1. svc' = Serve(svc, q)
    BY DEF Send
<1>2. /\ q.verb = "POST" => svc'.items = svc.items \cup {new(svc.next)}
      /\ q.verb = "PUT" => svc'.items = rest \cup {new(q.id)}
      /\ q.verb = "DELETE" => svc'.items = rest
      /\ q.verb \in {"none", "bad"} => svc' = svc
    BY <1>1, AfterServe
<1>3. \A id : new(id).kind = q.kind /\ new(id).id = id
    OBVIOUS
<1>. HIDE DEF new
<1>. QED
    BY <1>2, <1>3 DEF RequestOK

\* One change.
LEMMA KeepApply ==
    ASSUME ObjTyped, PassTyped, KeepInv, NEW ch, NEW out, ApplyOne(ch, out)
    PROVE  KeepInv'
<1>. DEFINE q == AdapterApply(app, svc, scene.schema, cache, ch)
<1>1. /\ app' = app /\ pass.phase = "apply" /\ Send(q, out)
      /\ cache' = IF app = "prowlarr"
                  THEN Prowlarr!CacheAfter(svc, cache, ch, out = "ok" /\ Served(q)) ELSE cache
      /\ pass' = [pass EXCEPT !.todo = @ \ {ch}, !.phase = IF pass.todo = {ch} THEN "direct" ELSE @]
    BY DEF ApplyOne
<1>2. Stock(svc) /\ Remembers(svc, cache) /\ Working(pass, svc)
    BY DEF KeepInv
<1>3. app \in Apps
    BY AppIsKnown
<1>4. Justified(svc, pass.desired, ch) /\ Known(ch)
    BY <1>2 DEF ApplyOne, ApplyChanges, Working, Justified
<1>5. Faithful(svc, q, ch)
    BY <1>2, <1>3, <1>4, RequestFaithful
<1>6. app = "prowlarr" => q = Prowlarr!Apply(svc, cache, ch)
    BY DEF AdapterApply
<1>. HIDE DEF q
<1>7. Stock(svc') /\ Moves(svc, svc') /\ svc.next \in Nat
    <2>1. RequestOK(q, ch.kind)
        BY <1>5 DEF Faithful
    <2>2. ch.kind \in Guarded /\ q.verb = "PUT" =>
              \A x \in svc.items : x.kind = ch.kind /\ x.id = q.id => x.name = q.name
        BY <1>5 DEF Faithful
    <2>. QED
        BY <1>1, <1>2, <2>1, <2>2, SentKeeps
<1>8. Remembers(svc', cache')
    <2>1. CASE app = "prowlarr"
        <3>1. cache' = Prowlarr!CacheAfter(svc, cache, ch, out = "ok" /\ Served(q))
            BY <1>1, <2>1
        <3>. QED
            BY <1>1, <1>2, <1>4, <1>6, <1>7, <2>1, <3>1, CacheStep
    <2>2. CASE app # "prowlarr"
        <3>1. cache' = cache
            BY <1>1, <2>2
        <3>. QED
            BY <1>2, <1>7, <3>1, RemembersMoves
    <2>. QED  BY <2>1, <2>2
<1>9. Working(pass', svc')
    <2>1. /\ pass'.phase = IF pass.todo = {ch} THEN "direct" ELSE "apply"
          /\ pass'.cleanup = pass.cleanup /\ pass'.spec = pass.spec
          /\ pass'.desired = pass.desired /\ pass'.todo = pass.todo \ {ch} /\ pass'.kinds = pass.kinds
          /\ pass'.requests = pass.requests
        BY <1>1 DEF PassTyped, PassFields
    <2>2. pass'.todo # {} => pass'.phase \in {"tag", "apply"}
        BY <2>1
    <2>3. pass'.phase \in {"connect", "read", "tag", "apply"} =>
              pass.phase \in {"connect", "read", "tag", "apply"}
        BY <1>1
    <2>4. pass.phase # "idle"
        BY <1>1
    <2>. QED
        BY <1>2, <1>7, <2>1, <2>2, <2>3, <2>4, WorkGoesOn
<1>. QED
    BY <1>1, <1>7, <1>8, <1>9, KeepNext

\* A direct read: its requests keep to their kind.
LEMMA DirectKeepsToKind ==
    ASSUME app \in DirectAppliers, NEW sv, Stock(sv), NEW lists, NEW desired,
           \A d \in desired : DOMAIN d = {"kind", "id", "name", "cfg"},
           NEW kind \in DOMAIN DirectOrder,
           NEW q \in AdapterDirectRequests(app, sv, lists, desired, kind)
    PROVE  RequestOK(q, kind)
<1>1. Stocked(sv, kind)
    BY DEF Stock, Stocked
<1>2. \A d \in Of(desired, "ImportList") : DOMAIN d = {"kind", "id", "name", "cfg"}
    BY DEF Of
<1>3. CASE app = "radarr"
    <2>1. q \in Radarr!DirectRequests(sv, lists, desired, kind)
        BY <1>3 DEF AdapterDirectRequests
    <2>. QED  BY <1>1, <1>2, <2>1, RadarrDirect
<1>4. CASE app = "sonarr"
    <2>1. q \in Sonarr!DirectRequests(sv, lists, desired, kind)
        BY <1>4 DEF AdapterDirectRequests
    <2>. QED  BY <1>1, <1>2, <2>1, SonarrDirect
<1>5. CASE app = "lidarr"
    <2>1. q \in Lidarr!DirectRequests(sv, lists, desired, kind)
        BY <1>5 DEF AdapterDirectRequests
    <2>. QED  BY <1>1, <1>2, <2>1, LidarrDirect
<1>. QED
    BY <1>3, <1>4, <1>5 DEF DirectAppliers

\* The direct requests of a kind are made from what is read now.
LEMMA KeepReadDirect ==
    ASSUME PassTyped, KeepInv, NEW kind \in pass.kinds, NEW out, ReadDirect(kind, out)
    PROVE  KeepInv'
<1>. DEFINE requests == IF out = "ok" THEN AdapterDirectRequests(app, svc, scene.lists, pass.desired, kind)
                        ELSE {}
<1>1. /\ app' = app /\ cache' = cache /\ pass.phase = "direct"
      /\ svc' = svc \/ svc' = EnsureOwnershipTag(svc)
      /\ pass' = [pass EXCEPT !.kinds = @ \ {kind}, !.requests = requests]
    BY DEF ReadDirect
<1>2. Stock(svc') /\ Moves(svc, svc') /\ svc.next \in Nat
    BY <1>1, TagMoves DEF KeepInv
<1>3. Remembers(svc', cache')
    BY <1>1, <1>2, RemembersMoves DEF KeepInv
<1>4. kind \in DOMAIN DirectOrder /\ app \in DirectAppliers
    BY DEF KeepInv, Working
<1>5. \A q \in requests : RequestOK(q, kind)
    <2>1. \A d \in pass.desired : DOMAIN d = {"kind", "id", "name", "cfg"}
        BY DEF KeepInv, Working
    <2>2. Stock(svc)
        BY DEF KeepInv
    <2>3. \A q \in AdapterDirectRequests(app, svc, scene.lists, pass.desired, kind) : RequestOK(q, kind)
        BY <1>4, <2>1, <2>2, DirectKeepsToKind
    <2>. QED
        BY <2>3
<1>. HIDE DEF requests
<1>6. /\ pass'.phase = "direct" /\ pass'.cleanup = pass.cleanup /\ pass'.spec = pass.spec
      /\ pass'.desired = pass.desired /\ pass'.todo = pass.todo
      /\ pass'.kinds = pass.kinds \ {kind} /\ pass'.requests = requests
    BY <1>1 DEF PassTyped, PassFields
<1>7. pass.todo = {}
    BY <1>1 DEF KeepInv, Working
<1>8. Working(pass', svc')
    BY <1>1, <1>4, <1>5, <1>6, <1>7 DEF KeepInv, Working, Covers
<1>. QED
    BY <1>1, <1>2, <1>3, <1>8, KeepNext

\* A direct request.
LEMMA KeepSendDirect ==
    ASSUME PassTyped, KeepInv, NEW q \in pass.requests, NEW out, SendDirect(q, out)
    PROVE  KeepInv'
<1>1. /\ app' = app /\ cache' = cache /\ pass.phase = "direct" /\ Send(q, out)
      /\ pass' = [pass EXCEPT !.requests = @ \ {q}]
    BY DEF SendDirect
<1>2. PICK kind \in DOMAIN DirectOrder : RequestOK(q, kind)
    BY DEF KeepInv, Working
<1>3. kind \notin Guarded
    BY DEF DirectOrder, Guarded
<1>4. Stock(svc') /\ Moves(svc, svc') /\ svc.next \in Nat
    BY <1>1, <1>2, <1>3, SentKeeps DEF KeepInv
<1>5. Remembers(svc', cache')
    BY <1>1, <1>4, RemembersMoves DEF KeepInv
<1>6. /\ pass'.phase = "direct" /\ pass'.cleanup = pass.cleanup /\ pass'.spec = pass.spec
      /\ pass'.desired = pass.desired /\ pass'.todo = pass.todo
      /\ pass'.kinds = pass.kinds /\ pass'.requests = pass.requests \ {q}
    BY <1>1 DEF PassTyped, PassFields
<1>7. pass.todo = {}
    BY <1>1 DEF KeepInv, Working
<1>8. Working(pass', svc')
    BY <1>1, <1>6, <1>7 DEF KeepInv, Working, Covers
<1>. QED
    BY <1>1, <1>4, <1>5, <1>8, KeepNext

\* The second invariant is kept by every step.
LEMMA KeepStep ==
    ASSUME IInv, KeepInv, [Next]_vars
    PROVE  KeepInv'
<1>0. ObjTyped /\ PassTyped /\ Working(pass, svc)
    BY DEF IInv, PassInv, KeepInv
<1>1. CASE UNCHANGED vars
    BY <1>0, <1>1, KeepStill DEF vars
<1>2. ASSUME NEW s, UserEdits(s)
      PROVE  KeepInv'
    BY <1>0, <1>2, KeepStill DEF UserEdits, Edit
<1>3. CASE UserSuspends
    BY <1>0, <1>3, KeepStill DEF UserSuspends, Edit
<1>4. CASE UserDeletes
    BY <1>0, <1>4, KeepStill DEF UserDeletes, Edit
<1>5. ASSUME NEW s, SecretsChange(s)
      PROVE  KeepInv'
    <2>1. app' = app /\ svc' = svc /\ cache' = cache
        BY <1>5 DEF SecretsChange
    <2>2. /\ pass'.phase = pass.phase /\ pass'.cleanup = pass.cleanup /\ pass'.spec = pass.spec
          /\ pass'.desired = pass.desired /\ pass'.todo = pass.todo /\ pass'.kinds = pass.kinds
          /\ pass'.requests = pass.requests
        BY <1>0, <1>5 DEF SecretsChange, PassTyped, PassFields
    <2>3. Working(pass', svc)
        BY <1>0, <2>2 DEF Working, Covers
    <2>. QED
        BY <2>1, <2>3, KeepStill
<1>6. CASE AddFinalizer
    BY <1>0, <1>6, KeepStill DEF AddFinalizer
<1>7. CASE Reconcile
    BY <1>0, <1>7, KeepReconcile
<1>8. ASSUME NEW r, Resolve(r)
      PROVE  KeepInv'
    BY <1>0, <1>8, KeepResolve
<1>9. ASSUME NEW lost, CompileConfig(lost)
      PROVE  KeepInv'
    BY <1>0, <1>9, KeepCompile
<1>10. ASSUME NEW out, Connect(out)
       PROVE  KeepInv'
    BY <1>0, <1>10, KeepConnect
<1>11. ASSUME NEW lost, Read(lost)
       PROVE  KeepInv'
    BY <1>0, <1>11, KeepRead
<1>12. ASSUME NEW out, EnsureTag(out)
       PROVE  KeepInv'
    BY <1>0, <1>12, KeepTag
<1>13. ASSUME NEW ch, NEW out, ApplyOne(ch, out)
       PROVE  KeepInv'
    BY <1>0, <1>13, KeepApply
<1>14. ASSUME NEW kind \in pass.kinds, NEW out, ReadDirect(kind, out)
       PROVE  KeepInv'
    BY <1>0, <1>14, KeepReadDirect
<1>15. ASSUME NEW q \in pass.requests, NEW out, SendDirect(q, out)
       PROVE  KeepInv'
    BY <1>0, <1>15, KeepSendDirect
<1>16. CASE Finish
    <2>1. app' = app /\ svc' = svc /\ cache' = cache /\ pass' = NoPass
        BY <1>16 DEF Finish, Stop
    <2>. QED
        BY <2>1, NothingInHand, KeepStill
<1>17. CASE Restart
    <2>1. app' = app /\ svc' = svc /\ cache' = <<>> /\ pass' = NoPass
        BY <1>17 DEF Restart
    <2>2. Remembers(svc', cache')
        BY <2>1 DEF Remembers
    <2>. QED
        BY <2>1, <2>2, NothingInHand, KeepNext DEF KeepInv
<1>18. CASE UserStep
    BY <1>2, <1>3, <1>4, <1>5, <1>18 DEF UserStep
<1>19. CASE PassStep
    BY <1>6, <1>7, <1>8, <1>9, <1>10, <1>11, <1>12, <1>13, <1>14, <1>15, <1>16, <1>19 DEF PassStep
<1>. QED
    BY <1>1, <1>17, <1>18, <1>19 DEF Next

\* It holds at the start.
LEMMA KeepStart ==
    ASSUME Init
    PROVE  KeepInv
<1>1. /\ app \in DOMAIN Scenes /\ cache = <<>> /\ pass = NoPass
      /\ svc = [tag |-> FALSE, items |-> scene.installed, next |-> 10]
    BY Zenon DEF Init
<1>2. \A x \in scene.installed : x.id \in 1 .. 9
    BY <1>1, ScenesAssumption, Zenon DEF scene
<1>3. Stock(svc)
    BY <1>1, <1>2, ServicesAssumption DEF Stock, scene
<1>4. Remembers(svc, cache)
    BY <1>1 DEF Remembers
<1>. QED
    BY <1>1, <1>3, <1>4, NothingInHand DEF KeepInv

\* The second invariant holds in every behaviour.
THEOREM KeepInvariant == Spec => []KeepInv
<1>1. Init => KeepInv
    BY KeepStart
<1>2. IInv /\ KeepInv /\ [Next]_vars => KeepInv'
    BY KeepStep
<1>. QED
    BY <1>1, <1>2, Invariant, PTL DEF Spec

\* What a step of the pass takes away is not called for.
Spares ==
    ~pass.cleanup =>
        \A x \in svc.items : x.kind \in {"DownloadClient", "Indexer"} /\ HasTag(x) =>
            \/ \E y \in svc'.items : y.kind = x.kind /\ y.id = x.id
            \/ \E s \in pass.spec : x.name \notin CalledFor(SpecOf(s))[x.kind]

\* A step that leaves the resources takes nothing away.
LEMMA NothingTaken ==
    ASSUME svc'.items = svc.items
    PROVE  Spares
BY DEF Spares

\* A change that takes a resource away deletes a name that is not called for.
LEMMA ApplySpares ==
    ASSUME ObjTyped, KeepInv, NEW ch, NEW out, ApplyOne(ch, out)
    PROVE  Spares
<1>. DEFINE q == AdapterApply(app, svc, scene.schema, cache, ch)
<1>1. pass.phase = "apply" /\ Send(q, out)
    BY DEF ApplyOne
<1>2. Stock(svc) /\ Remembers(svc, cache) /\ Working(pass, svc)
    BY DEF KeepInv
<1>3. Justified(svc, pass.desired, ch)
    BY <1>2 DEF ApplyOne, ApplyChanges, Working
<1>4. Faithful(svc, q, ch) /\ RequestOK(q, ch.kind)
    BY <1>2, <1>3, AppIsKnown, RequestFaithful DEF Faithful
<1>. HIDE DEF q
<1>5. ASSUME ~pass.cleanup, NEW x \in svc.items, x.kind \in Guarded,
             ~\E y \in svc'.items : y.kind = x.kind /\ y.id = x.id
      PROVE  \E s \in pass.spec : x.name \notin CalledFor(SpecOf(s))[x.kind]
    <2>1. q.verb = "DELETE" /\ x.kind = ch.kind /\ x.id = q.id
        BY <1>1, <1>2, <1>4, <1>5, SentRemoves
    <2>2. x.name = ch.name /\ ch.op = "delete"
        BY <1>4, <1>5, <2>1 DEF Faithful
    <2>3. x.name \notin Names(Of(pass.desired, x.kind))
        BY <1>3, <1>5, <2>1, <2>2 DEF Justified
    <2>4. PICK s \in pass.spec : CalledFor(SpecOf(s))[x.kind] \subseteq Names(Of(pass.desired, x.kind))
        BY <1>1, <1>2, <1>5 DEF Working, Covers
    <2>. QED
        BY <2>3, <2>4
<1>. QED
    BY <1>5 DEF Spares, Guarded

\* A direct request is about neither clients nor indexers.
LEMMA DirectSpares ==
    ASSUME KeepInv, NEW q \in pass.requests, NEW out, SendDirect(q, out)
    PROVE  Spares
<1>1. Stock(svc) /\ Send(q, out)
    BY DEF KeepInv, SendDirect
<1>2. PICK kind \in DOMAIN DirectOrder : RequestOK(q, kind)
    BY DEF KeepInv, Working
<1>3. kind \notin {"DownloadClient", "Indexer"}
    BY DEF DirectOrder
<1>4. \A x \in svc.items : x.kind \in {"DownloadClient", "Indexer"} =>
          \E y \in svc'.items : y.kind = x.kind /\ y.id = x.id
    BY <1>1, <1>2, <1>3, SentRemoves
<1>. QED
    BY <1>4 DEF Spares

\* No step takes away what is called for.
LEMMA StepSpares ==
    ASSUME IInv, KeepInv, [Next]_vars
    PROVE  Spares
<1>0. ObjTyped /\ Stock(svc)
    BY DEF IInv, KeepInv
<1>1. CASE svc' = svc
    BY <1>1, NothingTaken
<1>2. CASE svc' = EnsureOwnershipTag(svc)
    BY <1>0, <1>2, TagMoves, NothingTaken
<1>3. ASSUME NEW ch, NEW out, ApplyOne(ch, out)
      PROVE  Spares
    BY <1>0, <1>3, ApplySpares
<1>4. ASSUME NEW q \in pass.requests, NEW out, SendDirect(q, out)
      PROVE  Spares
    BY <1>4, DirectSpares
<1>5. CASE UserStep
    <2>1. svc' = svc
        BY <1>5 DEF UserStep, UserEdits, UserSuspends, UserDeletes, SecretsChange, Edit
    <2>. QED  BY <1>1, <2>1
<1>6. CASE PassStep
    <2>1. \A out : EnsureTag(out) => svc' = svc \/ svc' = EnsureOwnershipTag(svc)
        BY DEF EnsureTag
    <2>2. \A kind, out : ReadDirect(kind, out) => svc' = svc \/ svc' = EnsureOwnershipTag(svc)
        BY DEF ReadDirect
    <2>3. AddFinalizer \/ Reconcile \/ Finish => svc' = svc
        BY DEF AddFinalizer, Reconcile, Finish
    <2>4. \A r : Resolve(r) => svc' = svc
        BY DEF Resolve
    <2>5. \A lost : CompileConfig(lost) => svc' = svc
        BY DEF CompileConfig
    <2>6. \A x : Connect(x) \/ Read(x) => svc' = svc
        BY DEF Connect, Read
    <2>. QED
        BY <1>1, <1>2, <1>3, <1>4, <1>6, <2>1, <2>2, <2>3, <2>4, <2>5, <2>6 DEF PassStep
<1>7. CASE Restart \/ UNCHANGED vars
    BY <1>1, <1>7 DEF Restart, vars
<1>. QED
    BY <1>5, <1>6, <1>7 DEF Next

\* For all scenes: no step of a pass takes a client or an indexer that its
\* specification calls for out of the service, whatever list or schema did not
\* arrive, and however late the changes are applied.
THEOREM DeclaredIsKept == Spec => KeepsDeclared
<1>1. IInv /\ KeepInv /\ [Next]_vars => [Spares]_vars
    BY StepSpares
<1>2. Spec => [][Spares]_vars
    BY <1>1, Invariant, KeepInvariant, PTL DEF Spec
<1>. QED
    BY <1>2 DEF KeepsDeclared, Spares

\* For all scenes: the stored specification stays one that the API server admits,
\* the resources have ids that the service gave out, an object that is being
\* deleted has its finalizer until it is gone, and changes are left to do only
\* while Apply has not gone through its plan.
THEOREM TypeCorrect == Spec => []TypeOK
<1>1. ASSUME IInv, KeepInv
      PROVE  TypeOK
    <2>1. app \in DOMAIN Scenes /\ obj.spec \in DOMAIN Scenes[app].specs
        BY <1>1 DEF IInv, ObjTyped, scene
    <2>2. ValidSpec(app, SpecOf(obj.spec))
        BY <2>1, ScenesAssumption, Zenon DEF SpecOf, scene
    <2>3. /\ obj.deleting => obj.finalizer \/ ~obj.exists
          /\ \A x \in svc.items : x.id \in 1 .. svc.next - 1
          /\ \A e \in DOMAIN pass.resolved : pass.resolved[e] \in STRING
          /\ pass.phase \in Phases /\ pass.stores \subseteq DOMAIN scene.secretSets /\ ready \in Reasons
        BY <1>1 DEF IInv, PassInv, ObjTyped, SvcTyped, PassTyped, ReadIsHad
    <2>4. pass.todo # {} => pass.phase \in {"tag", "apply"}
        BY <1>1 DEF KeepInv, Working
    <2>. QED
        BY <2>1, <2>2, <2>3, <2>4 DEF TypeOK, Phases, Reasons
<1>. QED
    BY <1>1, Invariant, KeepInvariant, PTL

=============================================================================
