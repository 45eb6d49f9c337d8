-------------------------- MODULE AdapterPlanProofs --------------------------
(***************************************************************************)
(* What the five adapters list, plan and request, for every service and    *)
(* every desired state: the lemmas about their operators that the proofs   *)
(* about AdapterPass and about SpecPass rest on.                           *)
(***************************************************************************)
EXTENDS Adapters, WellFoundedInduction, TLAPS

\* The resources of a service are records with ids, and a singleton is there.
Stocked(sv, kind) ==
    /\ \A x \in sv.items : DOMAIN x = {"kind", "id", "name", "cfg", "ours"} /\ x.id \in Nat \ {0}
    /\ kind \in Singletons => \E x \in sv.items : x.kind = kind

\* A request stays within the kind and leaves singletons in place.
RequestOK(q, kind) ==
    /\ q.verb \in {"none", "bad", "POST", "PUT", "DELETE"}
    /\ q.verb \in {"POST", "PUT", "DELETE"} => q.kind = kind
    /\ q.verb \in {"POST", "DELETE"} => kind \notin Singletons

\* Of natural numbers there is a least.
LEMMA Least ==
    ASSUME NEW S, S \subseteq Nat, S # {}
    PROVE  \E m \in S : \A n \in S : m <= n
  <1> DEFINE R == OpToRel(<, Nat)
  <1>1. IsWellFoundedOn(R, Nat)
    BY NatLessThanWellFounded
  <1>2. PICK m \in S : \A n \in S : ~(<<n, m>> \in R)
    <2> HIDE DEF R
    <2> QED  BY <1>1, WFMin
  <1>3. \A n \in S : ~(n < m)
    BY <1>2 DEF OpToRel
  <1> QED  BY <1>3

\* A list that is not empty has a first element.
LEMMA FirstIsThere ==
    ASSUME NEW S, S # {}, \A x \in S : x.id \in Nat
    PROVE  First(S) \in S
  <1>1. PICK m \in {x.id : x \in S} : \A n \in {x.id : x \in S} : m <= n
    <2> DEFINE I == {x.id : x \in S}
    <2>1. I \subseteq Nat /\ I # {}
      OBVIOUS
    <2> HIDE DEF I
    <2>2. \E m \in I : \A n \in I : m <= n
      BY <2>1, Least
    <2> QED  BY <2>2 DEF I
  <1>2. PICK x \in S : x.id = m
    OBVIOUS
  <1>3. \A y \in S : x.id <= y.id
    BY <1>1, <1>2
  <1> QED  BY ONLY <1>3, x \in S, Zenon DEF First

\* What a fetch of a singleton returns.
LEMMA ConfigIsThere ==
    ASSUME NEW sv, NEW kind, Stocked(sv, kind), kind \in Singletons
    PROVE  \E c \in sv.items : /\ First(Get(sv, kind)) = c /\ c.kind = kind
                               /\ DOMAIN c = {"kind", "id", "name", "cfg", "ours"}
  <1> DEFINE all == Get(sv, kind)
  <1>1. all # {} /\ \A x \in all : /\ x \in sv.items /\ x.kind = kind /\ x.id \in Nat
                                    /\ DOMAIN x = {"kind", "id", "name", "cfg", "ours"}
    BY DEF Stocked, Get
  <1>2. First(all) \in all
    <2> HIDE DEF all
    <2> QED  BY <1>1, FirstIsThere
  <1> QED  BY <1>1, <1>2

-----------------------------------------------------------------------------
(***************************************************************************)
(* The request for a change.                                               *)
(***************************************************************************)

\* The request creates a resource under the name of the change.
Posts(q, ch) ==
    /\ q.verb = "POST" /\ q.kind = ch.kind /\ q.name = ch.name
    /\ ch.kind \in MarkedKinds => q.ours = TRUE

\* The request writes the resource with the id under the name of the change.
Puts(q, ch, id) ==
    /\ q.verb = "PUT" /\ q.kind = ch.kind /\ q.name = ch.name /\ q.id = id
    /\ ch.kind \in MarkedKinds => q.ours = TRUE

\* The request removes the resource with the id.
Deletes(q, ch, id) == q.verb = "DELETE" /\ q.kind = ch.kind /\ q.id = id

\* The request does what the change says to the resource with the id, or the
\* adapter gives up.
Conforms(q, ch, id) ==
    \/ q.verb = "bad"
    \/ ch.op = "create" /\ Posts(q, ch)
    \/ ch.op = "update" /\ Puts(q, ch, id)
    \/ ch.op = "delete" /\ Deletes(q, ch, id)

\* Sonarr addresses a resource by the id that the change carries.
LEMMA SonarrRequest ==
    ASSUME NEW sv, NEW schema, NEW ch,
           ch.op \in {"create", "update", "delete"}, ch.kind \in DOMAIN Sonarr!KindRank,
           ch.kind = "NamingConfig" => ch.op = "update", ch.kind = "RootFolder" => ch.op = "create"
    PROVE  Conforms(Sonarr!Apply(sv, schema, ch), ch, ch.id)
  <1> DEFINE d == Sonarr!Resource(ch.kind, Sonarr!NoId, ch.name, ch.cfg)
             q == Sonarr!Apply(sv, schema, ch)
  <1>0. DOMAIN d = {"kind", "id", "name", "cfg"} /\ d.kind = ch.kind /\ d.name = ch.name
    BY DEF Sonarr!Resource
  <1> SUFFICES Conforms(q, ch, ch.id)
    OBVIOUS
  <1> USE DEF Posts, Puts, Deletes, Conforms, Sonarr!Post, Sonarr!Put, Sonarr!Delete,
              Sonarr!Request, Sonarr!BadRequest
  <1>1. CASE ch.op = "delete"
    BY <1>1 DEF Sonarr!Apply, Sonarr!applyDelete
  <1>2. CASE ch.op = "create"
    <2>1. q = Sonarr!applyCreate(sv, schema, ch)
      BY <1>2 DEF Sonarr!Apply
    <2> HIDE DEF q
    <2>2. CASE ch.kind = "QualityProfile"
      <3>1. q = Sonarr!createQualityProfile(sv, schema, d)
        BY <2>1, <2>2 DEF Sonarr!applyCreate
      <3> HIDE DEF d
      <3> QED  BY <1>0, <1>2, <3>1 DEF Sonarr!createQualityProfile
    <2>3. CASE ch.kind \in {"DownloadClient", "Indexer"}
      BY <1>2, <2>1, <2>3
      DEF Sonarr!applyCreate, Sonarr!createDownloadClient, Sonarr!downloadClientFromIR,
          Sonarr!createIndexer, Sonarr!indexerFromIR, Sonarr!Resource
    <2>4. CASE ch.kind \in {"RootFolder", "RemotePathMapping"}
      BY <1>2, <2>1, <2>4
      DEF Sonarr!applyCreate, Sonarr!createRootFolder, Sonarr!createRemotePathMapping,
          Sonarr!Resource, MarkedKinds, PrefixKinds
    <2>5. CASE ch.kind = "Notification"
      BY <1>2, <2>1, <2>5
      DEF Sonarr!applyCreate, Sonarr!createNotification, Sonarr!irToNotification, Sonarr!Resource
    <2>6. CASE ch.kind \in {"CustomFormat", "DelayProfile"}
      BY <1>2, <2>1, <2>6
      DEF Sonarr!applyCreate, Sonarr!createCustomFormat, Sonarr!irToCustomFormat,
          Sonarr!createDelayProfile, Sonarr!irToDelayProfile,
          Sonarr!Resource, MarkedKinds, PrefixKinds
    <2> QED  BY <1>2, <2>2, <2>3, <2>4, <2>5, <2>6 DEF Sonarr!KindRank
  <1>3. CASE ch.op = "update"
    <2>1. q = Sonarr!applyUpdate(sv, schema, ch)
      BY <1>3 DEF Sonarr!Apply
    <2> HIDE DEF q
    <2>2. CASE ch.kind = "QualityProfile"
      <3>1. q = Sonarr!updateQualityProfile(sv, schema, ch.id, d)
        BY <2>1, <2>2 DEF Sonarr!applyUpdate
      <3> HIDE DEF d
      <3> QED  BY <1>0, <1>3, <3>1 DEF Sonarr!updateQualityProfile
    <2>3. CASE ch.kind \in {"DownloadClient", "Indexer"}
      BY <1>3, <2>1, <2>3
      DEF Sonarr!applyUpdate, Sonarr!updateDownloadClient, Sonarr!downloadClientFromIR,
          Sonarr!updateIndexer, Sonarr!indexerFromIR, Sonarr!Resource
    <2>4. CASE ch.kind \in {"NamingConfig", "RemotePathMapping"}
      BY <1>3, <2>1, <2>4
      DEF Sonarr!applyUpdate, Sonarr!updateNaming, Sonarr!updateRemotePathMapping,
          Sonarr!Resource, MarkedKinds, PrefixKinds
    <2>5. CASE ch.kind = "Notification"
      BY <1>3, <2>1, <2>5
      DEF Sonarr!applyUpdate, Sonarr!updateNotification, Sonarr!irToNotification, Sonarr!Resource
    <2>6. CASE ch.kind \in {"CustomFormat", "DelayProfile"}
      BY <1>3, <2>1, <2>6
      DEF Sonarr!applyUpdate, Sonarr!updateCustomFormat, Sonarr!irToCustomFormat,
          Sonarr!updateDelayProfile, Sonarr!irToDelayProfile,
          Sonarr!Resource, MarkedKinds, PrefixKinds
    <2> QED  BY <1>3, <2>2, <2>3, <2>4, <2>5, <2>6 DEF Sonarr!KindRank
  <1> QED  BY <1>1, <1>2, <1>3

\* So does Lidarr, which has two kinds of profiles.
LEMMA LidarrRequest ==
    ASSUME NEW sv, NEW schema, NEW ch,
           ch.op \in {"create", "update", "delete"}, ch.kind \in DOMAIN Lidarr!KindRank,
           ch.kind = "NamingConfig" => ch.op = "update", ch.kind = "RootFolder" => ch.op = "create"
    PROVE  Conforms(Lidarr!Apply(sv, schema, ch), ch, ch.id)
  <1> DEFINE d == Lidarr!Resource(ch.kind, Lidarr!NoId, ch.name, ch.cfg)
             q == Lidarr!Apply(sv, schema, ch)
  <1>0. DOMAIN d = {"kind", "id", "name", "cfg"} /\ d.kind = ch.kind /\ d.name = ch.name
    BY DEF Lidarr!Resource
  <1> SUFFICES Conforms(q, ch, ch.id)
    OBVIOUS
  <1> USE DEF Posts, Puts, Deletes, Conforms, Lidarr!Post, Lidarr!Put, Lidarr!Delete,
              Lidarr!Request, Lidarr!BadRequest,
              Lidarr!Sonarr!Post, Lidarr!Sonarr!Put, Lidarr!Sonarr!Request
  <1>1. CASE ch.op = "delete"
    BY <1>1 DEF Lidarr!Apply, Lidarr!applyDelete
  <1>2. CASE ch.op = "create"
    <2>1. q = Lidarr!applyCreate(sv, schema, ch)
      BY <1>2 DEF Lidarr!Apply
    <2> HIDE DEF q
    <2>2. CASE ch.kind = "QualityProfile"
      <3>1. q = Lidarr!createQualityProfile(sv, schema, d)
        BY <2>1, <2>2 DEF Lidarr!applyCreate
      <3> HIDE DEF d
      <3> QED  BY <1>0, <1>2, <3>1 DEF Lidarr!createQualityProfile
    <2>3. CASE ch.kind \in {"DownloadClient", "Indexer"}
      BY <1>2, <2>1, <2>3
      DEF Lidarr!applyCreate, Lidarr!createDownloadClient, Lidarr!downloadClientFromIR,
          Lidarr!createIndexer, Lidarr!indexerFromIR, Lidarr!Resource
    <2>4. CASE ch.kind \in {"RootFolder", "RemotePathMapping"}
      BY <1>2, <2>1, <2>4
      DEF Lidarr!applyCreate, Lidarr!createRootFolder, Lidarr!createRemotePathMapping,
          Lidarr!Sonarr!createRemotePathMapping,
          Lidarr!Resource, MarkedKinds, PrefixKinds
    <2>5. CASE ch.kind = "Notification"
      BY <1>2, <2>1, <2>5
      DEF Lidarr!applyCreate, Lidarr!createNotification, Lidarr!irToNotification,
          Lidarr!Sonarr!irToNotification, Lidarr!Resource
    <2>6. CASE ch.kind \in {"CustomFormat", "DelayProfile"}
      BY <1>2, <2>1, <2>6
      DEF Lidarr!applyCreate, Lidarr!createCustomFormat, Lidarr!irToCustomFormat,
          Lidarr!createDelayProfile, Lidarr!irToDelayProfile, Lidarr!Sonarr!irToDelayProfile,
          Lidarr!Resource, MarkedKinds, PrefixKinds
    <2> QED  BY <1>2, <2>2, <2>3, <2>4, <2>5, <2>6 DEF Lidarr!KindRank
  <1>3. CASE ch.op = "update"
    <2>1. q = Lidarr!applyUpdate(sv, schema, ch)
      BY <1>3 DEF Lidarr!Apply
    <2> HIDE DEF q
    <2>2. CASE ch.kind = "QualityProfile"
      <3>1. q = Lidarr!updateQualityProfile(sv, schema, ch.id, d)
        BY <2>1, <2>2 DEF Lidarr!applyUpdate
      <3> HIDE DEF d
      <3> QED  BY <1>0, <1>3, <3>1 DEF Lidarr!updateQualityProfile
    <2>3. CASE ch.kind \in {"DownloadClient", "Indexer"}
      BY <1>3, <2>1, <2>3
      DEF Lidarr!applyUpdate, Lidarr!updateDownloadClient, Lidarr!downloadClientFromIR,
          Lidarr!updateIndexer, Lidarr!indexerFromIR, Lidarr!Resource
    <2>4. CASE ch.kind \in {"NamingConfig", "RemotePathMapping"}
      BY <1>3, <2>1, <2>4
      DEF Lidarr!applyUpdate, Lidarr!updateNaming, Lidarr!updateRemotePathMapping,
          Lidarr!Sonarr!updateRemotePathMapping,
          Lidarr!Resource, MarkedKinds, PrefixKinds
    <2>5. CASE ch.kind = "Notification"
      BY <1>3, <2>1, <2>5
      DEF Lidarr!applyUpdate, Lidarr!updateNotification, Lidarr!irToNotification,
          Lidarr!Sonarr!irToNotification, Lidarr!Resource
    <2>6. CASE ch.kind \in {"CustomFormat", "DelayProfile"}
      BY <1>3, <2>1, <2>6
      DEF Lidarr!applyUpdate, Lidarr!updateCustomFormat, Lidarr!irToCustomFormat,
          Lidarr!updateDelayProfile, Lidarr!irToDelayProfile, Lidarr!Sonarr!irToDelayProfile,
          Lidarr!Resource, MarkedKinds, PrefixKinds
    <2> QED  BY <1>3, <2>2, <2>3, <2>4, <2>5, <2>6 DEF Lidarr!KindRank
  <1> QED  BY <1>1, <1>2, <1>3

\* The lookups by name of Radarr and Readarr find a resource of the name, if there
\* is one.
LEMMA FoundByName ==
    ASSUME NEW sv, NEW kind, Stocked(sv, kind), NEW n
    PROVE  LET found == {x \in Get(sv, kind) : x.name = n}
           IN  IF found = {} THEN \A x \in sv.items : x.kind = kind => x.name # n
               ELSE \E x \in sv.items : x.kind = kind /\ x.name = n /\ First(found) = x /\ x.id # NoId
  <1> DEFINE found == {x \in Get(sv, kind) : x.name = n}
  <1>1. \A x \in found : x \in sv.items /\ x.kind = kind /\ x.name = n /\ x.id \in Nat \ {0}
    BY DEF Stocked, Get
  <1>2. CASE found = {}
    BY <1>2 DEF Get
  <1>3. CASE found # {}
    <2>1. First(found) \in found
      <3> HIDE DEF found
      <3> QED  BY <1>1, <1>3, FirstIsThere
    <2> QED  BY <1>1, <1>3, <2>1 DEF NoId
  <1> QED  BY <1>2, <1>3

\* Radarr's lookups return the resource of the name, or nothing.
LEMMA RadarrFinds ==
    ASSUME NEW sv, NEW kind, Stocked(sv, kind), NEW n
    PROVE  LET id == Radarr!findIDByName(sv, kind, n)
           IN  \/ id = NoId
               \/ \E x \in sv.items : x.kind = kind /\ x.name = n /\ x.id = id
  <1>1. Radarr!findIDByName(sv, kind, n) =
            LET found == {x \in Get(sv, kind) : x.name = n}
            IN  IF found = {} THEN NoId ELSE First(found).id
    BY DEF Radarr!findIDByName, Radarr!Get, Get, Radarr!First, First, Radarr!NoId, NoId
  <1> QED  BY <1>1, FoundByName

\* Radarr looks custom formats, clients and indexers up by name, and uses the id
\* for the rest.
LEMMA RadarrRequest ==
    ASSUME NEW sv, NEW schema, NEW ch, Stocked(sv, ch.kind),
           ch.op \in {"create", "update", "delete"}, ch.kind \in DOMAIN Radarr!KindRank,
           ch.kind = "NamingConfig" => ch.op = "update", ch.kind = "RootFolder" => ch.op = "create",
           ch.kind = "QualityProfile" => ch.op = "create"
    PROVE  LET q == Radarr!Apply(sv, schema, ch)
           IN  IF ch.kind = "NamingConfig" THEN q.verb = "PUT" /\ q.kind = ch.kind
               ELSE \/ Conforms(q, ch, ch.id) /\ ch.kind \notin {"CustomFormat", "DownloadClient", "Indexer"}
                    \/ Conforms(q, ch, NoId) /\ (ch.op = "create" \/ q.verb = "bad")
                    \/ \E x \in sv.items : x.kind = ch.kind /\ x.name = ch.name /\ Conforms(q, ch, x.id)
  <1> DEFINE d == Radarr!Resource(ch.kind, Radarr!NoId, ch.name, ch.cfg)
             q == Radarr!Apply(sv, schema, ch)
             Looked(r) == r.verb = "bad" \/ \E x \in sv.items : x.kind = ch.kind /\ x.name = ch.name /\ Conforms(r, ch, x.id)
  <1>0. DOMAIN d = {"kind", "id", "name", "cfg"} /\ d.kind = ch.kind /\ d.name = ch.name
    BY DEF Radarr!Resource
  <1> USE DEF Posts, Puts, Deletes, Conforms, Radarr!Post, Radarr!Put, Radarr!Delete,
              Radarr!Request,
              Radarr!BadRequest
  <1>1. CASE ch.op = "create"
    <2>1. q = Radarr!applyCreate(sv, schema, ch)
      BY <1>1 DEF Radarr!Apply
    <2> SUFFICES Posts(q, ch) \/ q.verb = "bad"
      BY <1>1
    <2> HIDE DEF q
    <2>2. CASE ch.kind = "QualityProfile"
      <3>1. q = Radarr!createQualityProfile(sv, schema, d)
        BY <2>1, <2>2 DEF Radarr!applyCreate
      <3> HIDE DEF d
      <3> QED  BY <1>0, <3>1 DEF Radarr!createQualityProfile
    <2>3. CASE ch.kind \in {"DownloadClient", "Indexer"}
      BY <2>1, <2>3 DEF Radarr!applyCreate, Radarr!createDownloadClient, Radarr!irToDownloadClient,
                        Radarr!createIndexer, Radarr!irToIndexer, Radarr!Resource
    <2>4. CASE ch.kind \in {"RootFolder", "RemotePathMapping"}
      BY <2>1, <2>4 DEF Radarr!applyCreate, Radarr!createRootFolder, Radarr!createRemotePathMapping,
                        Radarr!irToRemotePathMapping, Radarr!Resource, MarkedKinds, PrefixKinds
    <2>5. CASE ch.kind = "Notification"
      BY <2>1, <2>5 DEF Radarr!applyCreate, Radarr!createNotification, Radarr!irToNotification,
                        Radarr!Resource
    <2>6. CASE ch.kind \in {"CustomFormat", "DelayProfile"}
      BY <2>1, <2>6
      DEF Radarr!applyCreate, Radarr!createCustomFormat, Radarr!buildMinimalCustomFormat,
                        Radarr!createDelayProfile, Radarr!irToDelayProfile, Radarr!Resource,
                        MarkedKinds, PrefixKinds
    <2> QED  BY <1>1, <2>2, <2>3, <2>4, <2>5, <2>6 DEF Radarr!KindRank
  <1>2. CASE ch.op = "update" /\ ch.kind = "NamingConfig"
    <2>2. PICK c \in sv.items : /\ First(Get(sv, "NamingConfig")) = c /\ c.kind = "NamingConfig"
                                /\ DOMAIN c = {"kind", "id", "name", "cfg", "ours"}
      BY <1>2, ConfigIsThere DEF Singletons
    <2>4. First(Get(sv, "NamingConfig")) = c
      BY <2>2
    <2>5. Radarr!FetchConfig(sv, "NamingConfig") = c
      BY <2>4 DEF Radarr!FetchConfig, Radarr!First, Radarr!Get, First, Get
    <2>6. q = Radarr!updateNamingConfig(sv, d)
      BY <1>2 DEF Radarr!Apply, Radarr!applyUpdate
    <2> HIDE DEF q, d
    <2>7. q.verb = "PUT" /\ q.kind = ch.kind
      BY <1>2, <2>2, <2>5, <2>6 DEF Radarr!updateNamingConfig, Radarr!UpdateConfig
    <2> QED  BY <1>2, <2>7 DEF q
  <1>3. CASE ch.op \in {"update", "delete"} /\ ch.kind \in {"RemotePathMapping", "Notification", "DelayProfile"}
    <2> SUFFICES Conforms(q, ch, ch.id)
      BY <1>3
    <2>1. CASE ch.op = "update"
      BY <1>3, <2>1 DEF Radarr!Apply, Radarr!applyUpdate, Radarr!updateRemotePathMapping,
             Radarr!irToRemotePathMapping, Radarr!updateNotification, Radarr!irToNotification,
             Radarr!updateDelayProfile, Radarr!irToDelayProfile, Radarr!Resource, MarkedKinds,
             PrefixKinds
    <2>2. CASE ch.op = "delete"
      BY <1>3, <2>2 DEF Radarr!Apply, Radarr!applyDelete, Radarr!deleteRemotePathMapping,
             Radarr!deleteNotification, Radarr!deleteDelayProfile
    <2> QED  BY <1>3, <2>1, <2>2
  <1>4. CASE ch.op \in {"update", "delete"} /\ ch.kind \in {"CustomFormat", "DownloadClient", "Indexer"}
    <2> DEFINE id == Radarr!findIDByName(sv, ch.kind, ch.name)
    <2>1. id = NoId \/ \E x \in sv.items : x.kind = ch.kind /\ x.name = ch.name /\ x.id = id
      BY RadarrFinds
    <2>2. Radarr!NoId = NoId
      BY DEF Radarr!NoId, NoId
    <2>3. IF id = NoId THEN q.verb = "bad" ELSE Conforms(q, ch, id)
      <3>1. CASE ch.op = "update"
        <4>1. q = Radarr!applyUpdate(sv, schema, ch)
          BY <3>1 DEF Radarr!Apply
        <4> HIDE DEF q, id
        <4>2. CASE ch.kind = "CustomFormat"
          <5>1. q = Radarr!updateCustomFormat(sv, d)
            BY <4>1, <4>2 DEF Radarr!applyUpdate
          <5> HIDE DEF d
          <5> QED  BY <1>0, <2>2, <3>1, <4>2, <5>1 DEF Radarr!updateCustomFormat, Radarr!PutByName,
                 Radarr!buildMinimalCustomFormat, MarkedKinds, PrefixKinds, id
        <4>3. CASE ch.kind = "DownloadClient"
          <5>1. q = Radarr!updateDownloadClient(sv, d)
            BY <4>1, <4>3 DEF Radarr!applyUpdate
          <5> HIDE DEF d
          <5> QED  BY <1>0, <2>2, <3>1, <4>3, <5>1
                   DEF Radarr!updateDownloadClient, Radarr!PutByName,
                 Radarr!irToDownloadClient, id
        <4>4. CASE ch.kind = "Indexer"
          <5>1. q = Radarr!updateIndexer(sv, d)
            BY <4>1, <4>4 DEF Radarr!applyUpdate
          <5> HIDE DEF d
          <5> QED  BY <1>0, <2>2, <3>1, <4>4, <5>1 DEF Radarr!updateIndexer, Radarr!PutByName,
                 Radarr!irToIndexer, id
        <4> QED  BY <1>4, <4>2, <4>3, <4>4
      <3>2. CASE ch.op = "delete"
        BY <1>4, <2>2, <3>2 DEF Radarr!Apply, Radarr!applyDelete, Radarr!deleteCustomFormat,
               Radarr!deleteDownloadClient, Radarr!deleteIndexer, Radarr!DeleteByName
      <3> QED  BY <1>4, <3>1, <3>2
    <2> HIDE DEF q, id
    <2> QED  BY <1>4, <2>1, <2>3 DEF q
  <1> QED  BY <1>1, <1>2, <1>3, <1>4 DEF Radarr!KindRank

\* Readarr's deletion by name is of a resource of the name.
LEMMA ReadarrDeletes ==
    ASSUME NEW sv, NEW ch, Stocked(sv, ch.kind), ch.op = "delete"
    PROVE  LET q == Readarr!DeleteByName(sv, ch.kind, ch.name)
           IN  \/ q.verb = "none" /\ \A x \in sv.items : x.kind = ch.kind => x.name # ch.name
               \/ \E x \in sv.items : x.kind = ch.kind /\ x.name = ch.name /\ Conforms(q, ch, x.id)
  <1> DEFINE found == {x \in Get(sv, ch.kind) : x.name = ch.name}
             q == Readarr!DeleteByName(sv, ch.kind, ch.name)
  <1>1. q = IF found = {} THEN Readarr!NoRequest ELSE Readarr!Delete(ch.kind, First(found).id)
    BY DEF Readarr!DeleteByName, Readarr!Get, Get, Readarr!First, First
  <1>2. IF found = {} THEN \A x \in sv.items : x.kind = ch.kind => x.name # ch.name
        ELSE \E x \in sv.items : x.kind = ch.kind /\ x.name = ch.name /\ First(found) = x /\ x.id # NoId
    BY FoundByName
  <1>3. Readarr!NoRequest.verb = "none"
    BY DEF Readarr!NoRequest, Readarr!Request
  <1> SUFFICES \/ q.verb = "none" /\ \A x \in sv.items : x.kind = ch.kind => x.name # ch.name
               \/ \E x \in sv.items : x.kind = ch.kind /\ x.name = ch.name /\ Conforms(q, ch, x.id)
    OBVIOUS
  <1> HIDE DEF found, q
  <1>4. CASE found = {}
    BY <1>1, <1>2, <1>3, <1>4
  <1>5. CASE found # {}
    BY <1>1, <1>2, <1>5 DEF Readarr!Delete, Readarr!Request, Conforms, Deletes
  <1> QED  BY <1>4, <1>5

\* Readarr looks clients and indexers up by name, and uses the id for profiles.
LEMMA ReadarrRequest ==
    ASSUME NEW sv, NEW qualities, NEW ch, Stocked(sv, ch.kind),
           ch.op \in {"create", "update", "delete"}, ch.kind \in DOMAIN Readarr!KindRank,
           ch.kind \in {"QualityProfile", "RootFolder"} => ch.op = "create"
    PROVE  LET q == Readarr!Apply(sv, qualities, ch)
           IN  \/ ch.op = "create" /\ Conforms(q, ch, NoId)
               \/ ch.op = "update" /\ ch.kind \notin {"DownloadClient", "Indexer"} /\ Conforms(q, ch, ch.id)
               \/ ch.op = "update" /\ q.verb = "none"
               \/ ch.op = "delete" /\ q.verb = "none" /\ \A x \in sv.items : x.kind = ch.kind => x.name # ch.name
               \/ ch.op = "delete" /\ \E x \in sv.items : x.kind = ch.kind /\ x.name = ch.name /\ Conforms(q, ch, x.id)
  <1> DEFINE d == Readarr!Resource(ch.kind, Readarr!NoId, ch.name, ch.cfg)
             q == Readarr!Apply(sv, qualities, ch)
  <1>0. DOMAIN d = {"kind", "id", "name", "cfg"} /\ d.kind = ch.kind /\ d.name = ch.name
    BY DEF Readarr!Resource
  <1>1. CASE ch.op = "create"
    <2> USE DEF Posts, Conforms, Readarr!Post, Readarr!Request, Readarr!BadRequest
    <2>1. q = Readarr!applyCreate(qualities, ch)
      BY <1>1 DEF Readarr!Apply
    <2> SUFFICES Posts(q, ch) \/ q.verb = "bad"
      BY <1>1
    <2> HIDE DEF q
    <2>2. CASE ch.kind = "QualityProfile"
      <3>1. q = Readarr!createQualityProfile(qualities, d)
        BY <2>1, <2>2 DEF Readarr!applyCreate
      <3> HIDE DEF d
      <3> QED  BY <1>0, <3>1 DEF Readarr!createQualityProfile
    <2>3. CASE ch.kind \in {"DownloadClient", "Indexer"}
      BY <2>1, <2>3 DEF Readarr!applyCreate, Readarr!createDownloadClient, Readarr!createIndexer,
                        Readarr!Resource
    <2>4. CASE ch.kind \in {"RootFolder", "MetadataProfile"}
      BY <2>1, <2>4
      DEF Readarr!applyCreate, Readarr!createRootFolder, Readarr!createMetadataProfile,
                        Readarr!Resource, MarkedKinds, PrefixKinds
    <2> QED  BY <1>1, <2>2, <2>3, <2>4 DEF Readarr!KindRank
  <1>2. CASE ch.op = "update"
    <2>1. q = Readarr!applyUpdate(qualities, ch)
      BY <1>2 DEF Readarr!Apply
    <2>2. CASE ch.kind = "MetadataProfile"
      <3>1. q = IF ch.id = Readarr!NoId THEN Readarr!BadRequest ELSE Readarr!updateMetadataProfile(ch.id, d)
        BY <2>1, <2>2 DEF Readarr!applyUpdate
      <3> HIDE DEF q, d
      <3>2. Conforms(q, ch, ch.id)
        BY <1>0, <1>2, <3>1 DEF Readarr!BadRequest, Readarr!updateMetadataProfile,
               Readarr!Put, Readarr!Request, Puts, Conforms
      <3> QED  BY <1>2, <2>2, <3>2 DEF q
    <2>3. CASE ch.kind \in {"DownloadClient", "Indexer"}
      <3>1. q = Readarr!NoRequest
        <4> HIDE DEF q
        <4> QED  BY ONLY <2>1, <2>3 DEF Readarr!applyUpdate
      <3>2. Readarr!NoRequest.verb = "none"
        BY DEF Readarr!NoRequest, Readarr!Request
      <3> QED  BY ONLY <1>2, <3>1, <3>2
    <2> QED  BY <1>2, <2>2, <2>3 DEF Readarr!KindRank
  <1>3. CASE ch.op = "delete"
    <2>1. q = Readarr!DeleteByName(sv, ch.kind, ch.name)
      BY <1>3 DEF Readarr!Apply, Readarr!applyDelete, Readarr!KindRank,
                  Readarr!deleteMetadataProfileByName, Readarr!deleteDownloadClientByName,
                  Readarr!deleteIndexerByName
    <2> QED  BY <1>3, <2>1, ReadarrDeletes
  <1> QED  BY <1>1, <1>2, <1>3

\* Prowlarr takes the id for an update or a deletion from its cache.
LEMMA ProwlarrRequest ==
    ASSUME NEW sv, NEW cache, NEW ch, ch.op \in {"create", "update", "delete"},
           ch.kind \in DOMAIN Prowlarr!KindRank,
           NEW id, id = Prowlarr!IdFor(sv, cache, ch.kind, ch.name)
    PROVE  LET q == Prowlarr!Apply(sv, cache, ch)
           IN  \/ ch.op = "create" /\ Posts(q, ch)
               \/ ch.op # "create" /\ q.verb \in {"none", "bad"}
               \/ ch.op # "create" /\ Conforms(q, ch, id)
  <1> DEFINE d == Prowlarr!Resource(ch.kind, Prowlarr!NoId, ch.name, ch.cfg)
             q == Prowlarr!Apply(sv, cache, ch)
  <1>0. DOMAIN d = {"kind", "id", "name", "cfg"} /\ d.kind = ch.kind /\ d.name = ch.name
    BY DEF Prowlarr!Resource
  <1>2. CASE ch.op = "create"
    <2>1. q = Prowlarr!applyCreate(ch)
      BY <1>2 DEF Prowlarr!Apply
    <2> SUFFICES Posts(q, ch)
      BY <1>2
    <2> HIDE DEF q
    <2> USE DEF Posts, Prowlarr!Post, Prowlarr!Request
    <2>2. CASE ch.kind \in {"Indexer", "IndexerProxy"}
      BY <2>1, <2>2 DEF Prowlarr!applyCreate, Prowlarr!createIndexer, Prowlarr!IndexerResource,
                        Prowlarr!createProxy, Prowlarr!ProxyResource, Prowlarr!Resource
    <2>3. CASE ch.kind \in {"Application", "DownloadClient"}
      BY <2>1, <2>3
      DEF Prowlarr!applyCreate, Prowlarr!createApplication, Prowlarr!ApplicationResource,
                        Prowlarr!createDownloadClient, Prowlarr!DownloadClientResource,
                        Prowlarr!Resource
    <2> QED  BY <2>2, <2>3 DEF Prowlarr!KindRank
  <1>3. CASE ch.op = "update"
    <2>1. q = Prowlarr!applyUpdate(sv, cache, ch)
      BY <1>3 DEF Prowlarr!Apply
    <2>2. \E x : /\ DOMAIN x = {"kind", "id", "name", "cfg"} /\ x.kind = ch.kind /\ x.name = ch.name
                 /\ q = Prowlarr!UpdateByName(sv, cache, x)
      <3>1. CASE ch.kind = "Indexer"
        <4>1. q = Prowlarr!UpdateByName(sv, cache, Prowlarr!IndexerResource(d))
          BY <2>1, <3>1 DEF Prowlarr!applyUpdate, Prowlarr!updateIndexer
        <4> HIDE DEF q, d
        <4> QED  BY <1>0, <4>1 DEF Prowlarr!IndexerResource
      <3>2. CASE ch.kind = "IndexerProxy"
        <4>1. q = Prowlarr!UpdateByName(sv, cache, Prowlarr!ProxyResource(d))
          BY <2>1, <3>2 DEF Prowlarr!applyUpdate, Prowlarr!updateProxy
        <4> HIDE DEF q, d
        <4> QED  BY <1>0, <4>1 DEF Prowlarr!ProxyResource
      <3>3. CASE ch.kind = "Application"
        <4>1. q = Prowlarr!UpdateByName(sv, cache, Prowlarr!ApplicationResource(d))
          BY <2>1, <3>3 DEF Prowlarr!applyUpdate, Prowlarr!updateApplication
        <4> HIDE DEF q, d
        <4> QED  BY <1>0, <4>1 DEF Prowlarr!ApplicationResource
      <3>4. CASE ch.kind = "DownloadClient"
        <4>1. q = Prowlarr!UpdateByName(sv, cache, Prowlarr!DownloadClientResource(d))
          BY <2>1, <3>4 DEF Prowlarr!applyUpdate, Prowlarr!updateDownloadClient
        <4> HIDE DEF q, d
        <4> QED  BY <1>0, <4>1 DEF Prowlarr!DownloadClientResource
      <3> QED  BY <3>1, <3>2, <3>3, <3>4 DEF Prowlarr!KindRank
    <2> HIDE DEF q
    <2>3. PICK x : /\ DOMAIN x = {"kind", "id", "name", "cfg"} /\ x.kind = ch.kind /\ x.name = ch.name
                   /\ q = Prowlarr!UpdateByName(sv, cache, x)
      BY <2>2
    <2>4. q = IF id = Prowlarr!NoId THEN Prowlarr!BadRequest ELSE Prowlarr!Put(x, id, TRUE)
      BY <2>3 DEF Prowlarr!UpdateByName
    <2>5. Prowlarr!BadRequest.verb = "bad"
      BY DEF Prowlarr!BadRequest, Prowlarr!Request
    <2>6. Puts(Prowlarr!Put(x, id, TRUE), ch, id)
      BY <2>3 DEF Prowlarr!Put, Prowlarr!Request, Puts
    <2> QED  BY <1>3, <2>4, <2>5, <2>6 DEF Conforms, q
  <1>4. CASE ch.op = "delete"
    <2>1. q = Prowlarr!DeleteByName(sv, cache, ch.kind, ch.name)
      BY <1>4 DEF Prowlarr!Apply, Prowlarr!applyDelete, Prowlarr!KindRank, Prowlarr!deleteIndexer,
                  Prowlarr!deleteProxy, Prowlarr!deleteApplication, Prowlarr!deleteDownloadClient
    <2> HIDE DEF q
    <2>2. q.verb = "none" \/ Deletes(q, ch, id)
      BY <2>1
      DEF Prowlarr!DeleteByName, Prowlarr!NoRequest, Prowlarr!Delete, Prowlarr!Request, Deletes
    <2> QED  BY <1>4, <2>2 DEF Conforms, q
  <1> QED  BY <1>2, <1>3, <1>4

-----------------------------------------------------------------------------
(***************************************************************************)
(* The requests of the directly applied parts.                             *)
(***************************************************************************)

\* The requests of ApplyDirect of Radarr stay in the kind.
LEMMA RadarrDirect ==
    ASSUME NEW sv, NEW lists, NEW desired, NEW kind \in DOMAIN DirectOrder, Stocked(sv, kind),
           \A d \in Of(desired, "ImportList") : DOMAIN d = {"kind", "id", "name", "cfg"},
           NEW q \in Radarr!DirectRequests(sv, lists, desired, kind)
    PROVE  RequestOK(q, kind)
  <1>1. CASE kind = "ImportList"
    <2>1. q \in Radarr!applyImportLists(sv, lists, desired)
      BY <1>1 DEF Radarr!DirectRequests
    <2>2. \/ \E x \in sv.items : q = Radarr!deleteImportList(x.id)
          \/ \E d \in desired : \E id, schema :
                 /\ d.kind = "ImportList"
                 /\ \/ q = Radarr!BadRequest
                    \/ q = Radarr!updateImportList(id, Radarr!irToImportList(d, schema))
                    \/ q = Radarr!createImportList(Radarr!irToImportList(d, schema))
      BY <2>1 DEF Radarr!applyImportLists, Radarr!getImportLists, Radarr!Get, Radarr!Of
    <2>3. CASE \E x \in sv.items : q = Radarr!deleteImportList(x.id)
      <3>1. q.verb = "DELETE" /\ q.kind = "ImportList"
        <4>1. PICK x \in sv.items : q = Radarr!deleteImportList(x.id)
          BY <2>3
        <4> QED  BY <4>1 DEF Radarr!deleteImportList, Radarr!Delete, Radarr!Request
      <3> QED  BY <1>1, <3>1 DEF RequestOK, Singletons
    <2>4. ASSUME NEW d \in desired, NEW id, NEW schema, d.kind = "ImportList",
                 \/ q = Radarr!BadRequest
                 \/ q = Radarr!updateImportList(id, Radarr!irToImportList(d, schema))
                 \/ q = Radarr!createImportList(Radarr!irToImportList(d, schema))
          PROVE  RequestOK(q, kind)
      <3> DEFINE p == Radarr!irToImportList(d, schema)
      <3>1. p.kind = "ImportList"
        BY <2>4 DEF Of, Radarr!irToImportList
      <3> HIDE DEF p
      <3>2. /\ Radarr!BadRequest.verb = "bad"
            /\ Radarr!updateImportList(id, p).verb = "PUT" /\ Radarr!updateImportList(id, p).kind = kind
            /\ Radarr!createImportList(p).verb = "POST" /\ Radarr!createImportList(p).kind = kind
        BY <1>1, <3>1
        DEF Radarr!BadRequest, Radarr!updateImportList, Radarr!createImportList, Radarr!Post,
            Radarr!Put, Radarr!Request
      <3> QED  BY <1>1, <2>4, <3>2 DEF RequestOK, Singletons, p
    <2> QED  BY <2>2, <2>3, <2>4
  <1>2. CASE kind \in {"MediaManagement", "Authentication"}
    <2>1. PICK c \in sv.items : /\ First(Get(sv, kind)) = c /\ c.kind = kind
                                /\ DOMAIN c = {"kind", "id", "name", "cfg", "ours"}
      BY <1>2, ConfigIsThere DEF Singletons
    <2>2. Radarr!First(Radarr!Get(sv, kind)) = c
      BY <2>1 DEF Radarr!First, Radarr!Get, First, Get
    <2>3. q.verb = "PUT" /\ q.kind = kind
      <3>1. CASE kind = "MediaManagement"
        <4>1. PICK d \in Radarr!Of(desired, kind) : q = Radarr!applyMediaManagement(sv, d)
          BY <3>1 DEF Radarr!DirectRequests
        <4> QED  BY <2>1, <2>2, <3>1, <4>1
                 DEF Radarr!applyMediaManagement, Radarr!FetchConfig, Radarr!UpdateConfig,
                     Radarr!Put, Radarr!Request
      <3>2. CASE kind = "Authentication"
        <4>1. PICK d \in Radarr!Of(desired, kind) : q = Radarr!applyAuthentication(sv, d)
          BY <3>2 DEF Radarr!DirectRequests
        <4>2. \E cfg, id, ours : q = Radarr!Put([c EXCEPT !.cfg = cfg], id, ours)
          BY <2>2, <3>2, <4>1
          DEF Radarr!applyAuthentication, Radarr!FetchConfig, Radarr!UpdateConfig
        <4> QED  BY <2>1, <4>2 DEF Radarr!Put, Radarr!Request
      <3> QED  BY <1>2, <3>1, <3>2
    <2> QED  BY <2>3 DEF RequestOK
  <1> QED  BY <1>1, <1>2 DEF DirectOrder

\* The requests of ApplyDirect of Sonarr stay in the kind.
LEMMA SonarrDirect ==
    ASSUME NEW sv, NEW lists, NEW desired, NEW kind \in DOMAIN DirectOrder, Stocked(sv, kind),
           \A d \in Of(desired, "ImportList") : DOMAIN d = {"kind", "id", "name", "cfg"},
           NEW q \in Sonarr!DirectRequests(sv, lists, desired, kind)
    PROVE  RequestOK(q, kind)
  <1>1. CASE kind = "ImportList"
    <2>1. q \in Sonarr!applyImportLists(sv, lists, desired)
      BY <1>1 DEF Sonarr!DirectRequests
    <2>2. \/ \E x \in sv.items : q = Sonarr!deleteImportList(x.id)
          \/ \E d \in desired : \E id, schema :
                 /\ d.kind = "ImportList"
                 /\ \/ q = Sonarr!BadRequest
                    \/ q = Sonarr!updateImportList(id, Sonarr!irToImportList(d, schema))
                    \/ q = Sonarr!createImportList(Sonarr!irToImportList(d, schema))
      BY <2>1 DEF Sonarr!applyImportLists, Sonarr!getImportLists, Sonarr!Get, Sonarr!Of
    <2>3. CASE \E x \in sv.items : q = Sonarr!deleteImportList(x.id)
      <3>1. q.verb = "DELETE" /\ q.kind = "ImportList"
        <4>1. PICK x \in sv.items : q = Sonarr!deleteImportList(x.id)
          BY <2>3
        <4> QED  BY <4>1 DEF Sonarr!deleteImportList, Sonarr!Delete, Sonarr!Request
      <3> QED  BY <1>1, <3>1 DEF RequestOK, Singletons
    <2>4. ASSUME NEW d \in desired, NEW id, NEW schema, d.kind = "ImportList",
                 \/ q = Sonarr!BadRequest
                 \/ q = Sonarr!updateImportList(id, Sonarr!irToImportList(d, schema))
                 \/ q = Sonarr!createImportList(Sonarr!irToImportList(d, schema))
          PROVE  RequestOK(q, kind)
      <3> DEFINE p == Sonarr!irToImportList(d, schema)
      <3>1. p.kind = "ImportList"
        BY <2>4 DEF Of, Sonarr!irToImportList
      <3> HIDE DEF p
      <3>2. /\ Sonarr!BadRequest.verb = "bad"
            /\ Sonarr!updateImportList(id, p).verb = "PUT" /\ Sonarr!updateImportList(id, p).kind = kind
            /\ Sonarr!createImportList(p).verb = "POST" /\ Sonarr!createImportList(p).kind = kind
        BY <1>1, <3>1
        DEF Sonarr!BadRequest, Sonarr!updateImportList, Sonarr!createImportList, Sonarr!Post,
            Sonarr!Put, Sonarr!Request
      <3> QED  BY <1>1, <2>4, <3>2 DEF RequestOK, Singletons, p
    <2> QED  BY <2>2, <2>3, <2>4
  <1>2. CASE kind \in {"MediaManagement", "Authentication"}
    <2>1. PICK c \in sv.items : /\ First(Get(sv, kind)) = c /\ c.kind = kind
                                /\ DOMAIN c = {"kind", "id", "name", "cfg", "ours"}
      BY <1>2, ConfigIsThere DEF Singletons
    <2>2. Sonarr!First(Sonarr!Get(sv, kind)) = c
      BY <2>1 DEF Sonarr!First, Sonarr!Get, First, Get
    <2>3. q.verb = "PUT" /\ q.kind = kind
      <3>1. CASE kind = "MediaManagement"
        <4>1. PICK d \in Sonarr!Of(desired, kind) : q = Sonarr!applyMediaManagement(sv, d)
          BY <3>1 DEF Sonarr!DirectRequests
        <4> QED  BY <2>1, <2>2, <3>1, <4>1
                 DEF Sonarr!applyMediaManagement, Sonarr!FetchConfig, Sonarr!UpdateConfig,
                     Sonarr!Put, Sonarr!Request
      <3>2. CASE kind = "Authentication"
        <4>1. PICK d \in Sonarr!Of(desired, kind) : q = Sonarr!applyAuthentication(sv, d)
          BY <3>2 DEF Sonarr!DirectRequests
        <4>2. \E cfg, id, ours : q = Sonarr!Put([c EXCEPT !.cfg = cfg], id, ours)
          BY <2>2, <3>2, <4>1 DEF Sonarr!applyAuthentication, Sonarr!ApplyAuthentication
        <4> QED  BY <2>1, <4>2 DEF Sonarr!Put, Sonarr!Request
      <3> QED  BY <1>2, <3>1, <3>2
    <2> QED  BY <2>3 DEF RequestOK
  <1> QED  BY <1>1, <1>2 DEF DirectOrder

\* The requests of ApplyDirect of Lidarr stay in the kind.
LEMMA LidarrDirect ==
    ASSUME NEW sv, NEW lists, NEW desired, NEW kind \in DOMAIN DirectOrder, Stocked(sv, kind),
           \A d \in Of(desired, "ImportList") : DOMAIN d = {"kind", "id", "name", "cfg"},
           NEW q \in Lidarr!DirectRequests(sv, lists, desired, kind)
    PROVE  RequestOK(q, kind)
  <1>1. CASE kind = "ImportList"
    <2>1. q \in Lidarr!applyImportLists(sv, lists, desired)
      BY <1>1 DEF Lidarr!DirectRequests
    <2>2. \/ \E x \in sv.items : q = Lidarr!deleteImportList(x.id)
          \/ \E d \in desired : \E id, schema :
                 /\ d.kind = "ImportList"
                 /\ \/ q = Lidarr!BadRequest
                    \/ q = Lidarr!updateImportList(id, Lidarr!irToImportList(d, schema))
                    \/ q = Lidarr!createImportList(Lidarr!irToImportList(d, schema))
      BY <2>1 DEF Lidarr!applyImportLists, Lidarr!getImportLists, Lidarr!Get, Lidarr!Of
    <2>3. CASE \E x \in sv.items : q = Lidarr!deleteImportList(x.id)
      <3>1. q.verb = "DELETE" /\ q.kind = "ImportList"
        <4>1. PICK x \in sv.items : q = Lidarr!deleteImportList(x.id)
          BY <2>3
        <4> QED  BY <4>1 DEF Lidarr!deleteImportList, Lidarr!Delete, Lidarr!Request
      <3> QED  BY <1>1, <3>1 DEF RequestOK, Singletons
    <2>4. ASSUME NEW d \in desired, NEW id, NEW schema, d.kind = "ImportList",
                 \/ q = Lidarr!BadRequest
                 \/ q = Lidarr!updateImportList(id, Lidarr!irToImportList(d, schema))
                 \/ q = Lidarr!createImportList(Lidarr!irToImportList(d, schema))
          PROVE  RequestOK(q, kind)
      <3> DEFINE p == Lidarr!irToImportList(d, schema)
      <3>1. p.kind = "ImportList"
        BY <2>4 DEF Of, Lidarr!irToImportList
      <3> HIDE DEF p
      <3>2. /\ Lidarr!BadRequest.verb = "bad"
            /\ Lidarr!updateImportList(id, p).verb = "PUT" /\ Lidarr!updateImportList(id, p).kind = kind
            /\ Lidarr!createImportList(p).verb = "POST" /\ Lidarr!createImportList(p).kind = kind
        BY <1>1, <3>1
        DEF Lidarr!BadRequest, Lidarr!updateImportList, Lidarr!createImportList, Lidarr!Post,
            Lidarr!Put, Lidarr!Request
      <3> QED  BY <1>1, <2>4, <3>2 DEF RequestOK, Singletons, p
    <2> QED  BY <2>2, <2>3, <2>4
  <1>2. CASE kind \in {"MediaManagement", "Authentication"}
    <2>1. PICK c \in sv.items : /\ First(Get(sv, kind)) = c /\ c.kind = kind
                                /\ DOMAIN c = {"kind", "id", "name", "cfg", "ours"}
      BY <1>2, ConfigIsThere DEF Singletons
    <2>2. Lidarr!First(Lidarr!Get(sv, kind)) = c
      BY <2>1 DEF Lidarr!First, Lidarr!Get, First, Get
    <2>3. q.verb = "PUT" /\ q.kind = kind
      <3>1. CASE kind = "MediaManagement"
        <4>1. PICK d \in Lidarr!Of(desired, kind) : q = Lidarr!applyMediaManagement(sv, d)
          BY <3>1 DEF Lidarr!DirectRequests
        <4> QED  BY <2>1, <2>2, <3>1, <4>1
                 DEF Lidarr!applyMediaManagement, Lidarr!FetchConfig, Lidarr!UpdateConfig,
                     Lidarr!Put, Lidarr!Request
      <3>2. CASE kind = "Authentication"
        <4>1. PICK d \in Lidarr!Of(desired, kind) : q = Lidarr!applyAuthentication(sv, d)
          BY <3>2 DEF Lidarr!DirectRequests
        <4>2. \E cfg, id, ours : q = Lidarr!Put([c EXCEPT !.cfg = cfg], id, ours)
          BY <2>2, <3>2, <4>1 DEF Lidarr!applyAuthentication, Lidarr!ApplyAuthentication
        <4> QED  BY <2>1, <4>2 DEF Lidarr!Put, Lidarr!Request
      <3> QED  BY <1>2, <3>1, <3>2
    <2> QED  BY <2>3 DEF RequestOK
  <1> QED  BY <1>1, <1>2 DEF DirectOrder

-----------------------------------------------------------------------------
(***************************************************************************)
(* What CurrentState lists.                                                *)
(***************************************************************************)

\* The IR's resource c was read from the service's resource x, which is the
\* operator's if the kind carries a mark.
Mirror(c, x) == c.kind = x.kind /\ c.name = x.name /\ (x.kind \in MarkedKinds => HasTag(x))

\* The resource was read from one of the service, with its id.
Listed(sv, c) == \E x \in sv.items : Mirror(c, x) /\ c.id = x.id

\* What Sonarr's CurrentState holds is in the service, and the operator's.
LEMMA SonarrLists ==
    ASSUME NEW sv, NEW schema, NEW tag, NEW blind,
           NEW c \in Sonarr!CurrentState(sv, schema, tag, blind)
    PROVE  Listed(sv, c)
  <1> USE DEF Listed, Mirror, HasTag, Sonarr!HasTag, Sonarr!Tagged, Sonarr!Get, Sonarr!Resource
  <1>1. ASSUME c \in Sonarr!getManagedQualityProfiles(sv, schema)
                     \cup Sonarr!getManagedDownloadClients(sv) \cup Sonarr!getManagedIndexers(sv)
        PROVE  Listed(sv, c)
    BY <1>1 DEF Sonarr!getManagedQualityProfiles, Sonarr!profileToIR,
                Sonarr!getManagedDownloadClients, Sonarr!clientToIR,
                Sonarr!getManagedIndexers, Sonarr!indexerToIR
  <1>2. ASSUME c \in Sonarr!getManagedNotifications(sv) \cup Sonarr!getManagedImportLists(sv)
                     \cup Sonarr!getRootFolders(sv)
        PROVE  Listed(sv, c)
    BY <1>2 DEF Sonarr!getManagedNotifications, Sonarr!notificationToIR,
                Sonarr!getManagedImportLists, Sonarr!importListToIR, Sonarr!getRootFolders,
                MarkedKinds, PrefixKinds
  <1>3. ASSUME c \in Sonarr!getRemotePathMappings(sv) \cup Sonarr!getNamingConfig(sv)
                     \cup Sonarr!getMediaManagementIR(sv)
        PROVE  Listed(sv, c)
    BY <1>3 DEF Sonarr!getRemotePathMappings, Sonarr!getNamingConfig, Sonarr!getMediaManagementIR,
                MarkedKinds, PrefixKinds
  <1>4. ASSUME c \in Sonarr!getAuthenticationIR(sv) \cup Sonarr!getAllCustomFormats(sv)
        PROVE  Listed(sv, c)
    <2>1. CASE c \in Sonarr!getAuthenticationIR(sv)
      BY <2>1 DEF Sonarr!getAuthenticationIR, Sonarr!GetAuthenticationIR, MarkedKinds, PrefixKinds
    <2>2. CASE c \in Sonarr!getAllCustomFormats(sv)
      BY <2>2 DEF Sonarr!getAllCustomFormats, Sonarr!customFormatToIR, MarkedKinds, PrefixKinds
    <2> QED  BY <1>4, <2>1, <2>2
  <1>5. ASSUME c \in Sonarr!getManagedDelayProfiles(sv)
        PROVE  Listed(sv, c)
    <2>1. PICK x \in Sonarr!Get(sv, "DelayProfile") : c = Sonarr!delayProfileToIR(x)
      BY <1>5 DEF Sonarr!getManagedDelayProfiles
    <2>2. c.kind = x.kind /\ c.name = x.name /\ c.id = x.id
      BY <2>1 DEF Sonarr!delayProfileToIR
    <2> QED  BY <2>1, <2>2 DEF MarkedKinds, PrefixKinds
  <1> QED  BY ONLY c \in Sonarr!CurrentState(sv, schema, tag, blind), <1>1, <1>2, <1>3, <1>4, <1>5
           DEF Sonarr!CurrentState

\* What Lidarr's CurrentState holds is in the service, and the operator's.
LEMMA LidarrLists ==
    ASSUME NEW sv, NEW schema, NEW tag, NEW blind,
           NEW c \in Lidarr!CurrentState(sv, schema, tag, blind)
    PROVE  Listed(sv, c)
  <1> USE DEF Listed, Mirror, HasTag, Lidarr!HasTag, Lidarr!Tagged, Lidarr!Get, Lidarr!Resource,
              Lidarr!Sonarr!Get, Lidarr!Sonarr!Resource
  <1>1. ASSUME c \in Lidarr!getManagedQualityProfiles(sv, schema)
                     \cup Lidarr!getManagedDownloadClients(sv) \cup Lidarr!getManagedIndexers(sv)
        PROVE  Listed(sv, c)
    <2>1. CASE c \in Lidarr!getManagedQualityProfiles(sv, schema)
      <3>1. PICK x \in Lidarr!Tagged(sv, "QualityProfile") : c = Lidarr!profileToIR(schema, x)
        BY <2>1 DEF Lidarr!getManagedQualityProfiles
      <3>2. c.kind = x.kind /\ c.name = x.name /\ c.id = x.id
        BY <3>1 DEF Lidarr!profileToIR
      <3> QED  BY <3>1, <3>2
    <2>2. CASE c \in Lidarr!getManagedDownloadClients(sv)
      BY <2>2 DEF Lidarr!getManagedDownloadClients, Lidarr!clientToIR
    <2>3. CASE c \in Lidarr!getManagedIndexers(sv)
      BY <2>3 DEF Lidarr!getManagedIndexers, Lidarr!indexerToIR
    <2> QED  BY <1>1, <2>1, <2>2, <2>3
  <1>2. ASSUME c \in Lidarr!getManagedNotifications(sv) \cup Lidarr!getManagedImportLists(sv)
                     \cup Lidarr!getRootFolders(sv)
        PROVE  Listed(sv, c)
    <2>1. CASE c \in Lidarr!getManagedNotifications(sv)
      BY <2>1 DEF Lidarr!getManagedNotifications, Lidarr!notificationToIR,
                  Lidarr!Sonarr!notificationToIR
    <2>2. CASE c \in Lidarr!getManagedImportLists(sv)
      <3>1. PICK x \in Lidarr!Tagged(sv, "ImportList") : c = Lidarr!importListToIR(x)
        BY <2>2 DEF Lidarr!getManagedImportLists
      <3>2. c.kind = x.kind /\ c.name = x.name /\ c.id = x.id
        BY <3>1 DEF Lidarr!importListToIR
      <3> QED  BY <3>1, <3>2
    <2>3. CASE c \in Lidarr!getRootFolders(sv)
      BY <2>3 DEF Lidarr!getRootFolders, MarkedKinds, PrefixKinds
    <2> QED  BY <1>2, <2>1, <2>2, <2>3
  <1>3. ASSUME c \in Lidarr!getRemotePathMappings(sv) \cup Lidarr!getNamingConfig(sv)
                     \cup Lidarr!getMediaManagementIR(sv)
        PROVE  Listed(sv, c)
    BY <1>3 DEF Lidarr!getRemotePathMappings, Lidarr!Sonarr!getRemotePathMappings,
                Lidarr!getNamingConfig, Lidarr!Sonarr!getNamingConfig,
                Lidarr!getMediaManagementIR, MarkedKinds, PrefixKinds
  <1>4. ASSUME c \in Lidarr!getAuthenticationIR(sv) \cup Lidarr!getAllCustomFormats(sv)
        PROVE  Listed(sv, c)
    <2>1. CASE c \in Lidarr!getAuthenticationIR(sv)
      BY <2>1 DEF Lidarr!getAuthenticationIR, Lidarr!GetAuthenticationIR, MarkedKinds, PrefixKinds
    <2>2. CASE c \in Lidarr!getAllCustomFormats(sv)
      BY <2>2
      DEF Lidarr!getAllCustomFormats, Lidarr!customFormatToIR, Lidarr!Sonarr!customFormatToIR,
          MarkedKinds, PrefixKinds
    <2> QED  BY <1>4, <2>1, <2>2
  <1>5. ASSUME c \in Lidarr!getManagedDelayProfiles(sv)
        PROVE  Listed(sv, c)
    <2>1. PICK x \in Lidarr!Get(sv, "DelayProfile") : c = Lidarr!delayProfileToIR(x)
      BY <1>5 DEF Lidarr!getManagedDelayProfiles
    <2>2. c.kind = x.kind /\ c.name = x.name /\ c.id = x.id
      BY <2>1 DEF Lidarr!delayProfileToIR, Lidarr!Sonarr!delayProfileToIR
    <2> QED  BY <2>1, <2>2 DEF MarkedKinds, PrefixKinds
  <1> QED  BY ONLY c \in Lidarr!CurrentState(sv, schema, tag, blind), <1>1, <1>2, <1>3, <1>4, <1>5
           DEF Lidarr!CurrentState

\* What Radarr's CurrentState holds is in the service, and the operator's.
LEMMA RadarrLists ==
    ASSUME NEW sv, NEW schema, NEW tag, NEW blind,
           NEW c \in Radarr!CurrentState(sv, schema, tag, blind)
    PROVE  Listed(sv, c)
  <1> USE DEF Listed, Mirror, HasTag, Radarr!HasTag, Radarr!Tagged, Radarr!Get, Radarr!Resource
  <1>1. ASSUME c \in Radarr!getManagedQualityProfiles(sv, schema)
                     \cup Radarr!getManagedDownloadClients(sv) \cup Radarr!getManagedIndexers(sv)
        PROVE  Listed(sv, c)
    BY <1>1 DEF Radarr!getManagedQualityProfiles, Radarr!qualityProfileToIR,
                Radarr!getManagedDownloadClients, Radarr!downloadClientToIR,
                Radarr!getManagedIndexers, Radarr!indexerToIR
  <1>2. ASSUME c \in Radarr!getManagedNotifications(sv) \cup Radarr!getManagedImportLists(sv)
                     \cup Radarr!getRootFolders(sv)
        PROVE  Listed(sv, c)
    BY <1>2 DEF Radarr!getManagedNotifications, Radarr!notificationToIR,
                Radarr!getManagedImportLists, Radarr!getImportLists, Radarr!importListToIR,
                Radarr!getRootFolders, MarkedKinds, PrefixKinds
  <1>3. ASSUME c \in Radarr!getRemotePathMappings(sv) \cup Radarr!getNamingConfig(sv)
                     \cup Radarr!getMediaManagementIR(sv)
        PROVE  Listed(sv, c)
    BY <1>3 DEF Radarr!getRemotePathMappings, Radarr!remotePathMappingToIR, Radarr!getNamingConfig,
                Radarr!getMediaManagementIR, Radarr!mediaManagementConfigToIR,
                MarkedKinds, PrefixKinds
  <1>4. ASSUME c \in Radarr!getAuthenticationIR(sv) \cup Radarr!getManagedCustomFormats(sv)
        PROVE  Listed(sv, c)
    <2>1. CASE c \in Radarr!getAuthenticationIR(sv)
      BY <2>1 DEF Radarr!getAuthenticationIR, MarkedKinds, PrefixKinds
    <2>2. CASE c \in Radarr!getManagedCustomFormats(sv)
      BY <2>2 DEF Radarr!getManagedCustomFormats, Radarr!customFormatToIR, MarkedKinds, PrefixKinds
    <2> QED  BY <1>4, <2>1, <2>2
  <1>5. ASSUME c \in Radarr!getManagedDelayProfiles(sv)
        PROVE  Listed(sv, c)
    <2>1. PICK x \in Radarr!Get(sv, "DelayProfile") : c = Radarr!delayProfileToIR(x)
      BY <1>5 DEF Radarr!getManagedDelayProfiles
    <2>2. c.kind = x.kind /\ c.name = x.name /\ c.id = x.id
      BY <2>1 DEF Radarr!delayProfileToIR
    <2> QED  BY <2>1, <2>2 DEF MarkedKinds, PrefixKinds
  <1> QED  BY ONLY c \in Radarr!CurrentState(sv, schema, tag, blind), <1>1, <1>2, <1>3, <1>4, <1>5
           DEF Radarr!CurrentState

\* What Readarr's CurrentState holds is in the service, and the operator's.
LEMMA ReadarrLists ==
    ASSUME NEW sv, NEW tag, NEW blind, NEW c \in Readarr!CurrentState(sv, tag, blind)
    PROVE  /\ \E x \in sv.items : Mirror(c, x)
           /\ c.kind \in PrefixKinds => Listed(sv, c)
  <1> USE DEF Listed, Mirror, HasTag, Readarr!HasTag, Readarr!Tagged, Readarr!Get, Readarr!Resource
  <1>1. ASSUME c \in Readarr!getManagedQualityProfiles(sv) \cup Readarr!getManagedMetadataProfiles(sv)
        PROVE  Listed(sv, c)
    BY <1>1 DEF Readarr!getManagedQualityProfiles, Readarr!qualityProfileToIR,
                Readarr!getManagedMetadataProfiles, Readarr!metadataProfileToIR
  <1>2. ASSUME c \in Readarr!getManagedDownloadClients(sv) \cup Readarr!getManagedIndexers(sv)
                     \cup Readarr!getRootFolders(sv)
        PROVE  (\E x \in sv.items : Mirror(c, x)) /\ c.kind \notin PrefixKinds
    <2>1. CASE c \in Readarr!getManagedDownloadClients(sv)
      BY <2>1 DEF Readarr!getManagedDownloadClients, Readarr!downloadClientToIR,
                  Readarr!containsTag, PrefixKinds
    <2>2. CASE c \in Readarr!getManagedIndexers(sv)
      <3>1. PICK x \in Readarr!Tagged(sv, "Indexer") : c = Readarr!indexerToIR(x)
        BY <2>2 DEF Readarr!getManagedIndexers, Readarr!containsTag
      <3>2. c.kind = x.kind /\ c.name = x.name
        BY <3>1 DEF Readarr!indexerToIR
      <3> QED  BY <3>1, <3>2 DEF PrefixKinds
    <2>3. CASE c \in Readarr!getRootFolders(sv)
      BY <2>3 DEF Readarr!getRootFolders, MarkedKinds, PrefixKinds
    <2> QED  BY <1>2, <2>1, <2>2, <2>3
  <1>3. Listed(sv, c) => \E x \in sv.items : Mirror(c, x)
    OBVIOUS
  <1> QED  BY ONLY c \in Readarr!CurrentState(sv, tag, blind), <1>1, <1>2, <1>3
           DEF Readarr!CurrentState

\* What Prowlarr's CurrentState holds is in the service, and the operator's.
LEMMA ProwlarrLists ==
    ASSUME NEW sv, NEW tag, NEW blind, NEW c \in Prowlarr!CurrentState(sv, tag, blind)
    PROVE  Listed(sv, c)
  <1> USE DEF Listed, Mirror, HasTag, Prowlarr!HasTag, Prowlarr!Tagged, Prowlarr!Get,
              Prowlarr!Resource
  <1>1. ASSUME c \in Prowlarr!getManagedIndexers(sv) \cup Prowlarr!getManagedProxies(sv)
        PROVE  Listed(sv, c)
    BY <1>1 DEF Prowlarr!getManagedIndexers, Prowlarr!getManagedProxies
  <1>2. ASSUME c \in Prowlarr!getManagedApplications(sv) \cup Prowlarr!getManagedDownloadClients(sv)
        PROVE  Listed(sv, c)
    BY <1>2 DEF Prowlarr!getManagedApplications, Prowlarr!getManagedDownloadClients
  <1> QED  BY ONLY c \in Prowlarr!CurrentState(sv, tag, blind), <1>1, <1>2
           DEF Prowlarr!CurrentState

-----------------------------------------------------------------------------
(***************************************************************************)
(* What Diff plans.                                                        *)
(***************************************************************************)

\* A change of a diff by name: a desired resource is created, or updated where
\* one was read, and one that was read and is not desired is deleted.
Planned(ch, kind, current, desired, by) ==
    /\ ch.kind = kind
    /\ \/ ch.op = "create" /\ \E d \in desired : d.kind = kind /\ d.name = ch.name
       \/ /\ ch.op = "update" /\ \E d \in desired : d.kind = kind /\ d.name = ch.name
          /\ \E c \in current : c.kind = kind /\ c.name = ch.name /\ (by = "id" => ch.id = c.id)
       \/ /\ ch.op = "delete" /\ \A d \in desired : d.kind = kind => d.name # ch.name
          /\ \E c \in current : c.kind = kind /\ c.name = ch.name /\ (by = "id" => ch.id = c.id)

\* A profile is created, or the one that was read is deleted when none is
\* desired.
PlannedProfile(ch, current, desired, id) ==
    LET have == Of(current, "QualityProfile")
    IN  \/ /\ ch.op = "create" /\ ch.kind = "QualityProfile"
           /\ \E d \in desired : d.kind = "QualityProfile" /\ d.name = ch.name
        \/ /\ ch.op = "delete" /\ ch.kind = First(have).kind /\ ch.name = First(have).name
           /\ ch.id = id /\ id # NoId /\ have # {} /\ \A d \in desired : d.kind # "QualityProfile"

\* A root folder is created where none has its path.
PlannedFolder(ch, current, desired) ==
    ch.op = "create" /\ Planned(ch, "RootFolder", current, desired, "id")

\* The naming settings are updated.
PlannedNaming(ch, desired) ==
    ch.op = "update" /\ ch.kind = "NamingConfig" /\ \E d \in desired : d.kind = "NamingConfig"

\* The changes that Sonarr's Diff plans, by kind.
LEMMA SonarrPlans ==
    ASSUME NEW current, NEW desired, NEW ids, NEW ch \in Sonarr!Diff(current, desired, ids)
    PROVE  \/ PlannedProfile(ch, current, desired, ids.profile)
           \/ PlannedNaming(ch, desired) \/ PlannedFolder(ch, current, desired)
           \/ \E kind \in {"DownloadClient", "Indexer", "RemotePathMapping", "Notification",
                           "CustomFormat", "DelayProfile"} :
                  Planned(ch, kind, current, desired, "id")
  <1> USE DEF Planned, Sonarr!DiffByName, Sonarr!Change, Sonarr!Of, Sonarr!Names, Sonarr!Named,
              Sonarr!NoId
  <1>1. ASSUME ch \in Sonarr!diffDownloadClients(current, desired)
        PROVE  Planned(ch, "DownloadClient", current, desired, "id")
    BY <1>1 DEF Sonarr!diffDownloadClients, Sonarr!DiffDownloadClientsWithIR
  <1>2. ASSUME ch \in Sonarr!diffIndexers(current, desired)
        PROVE  Planned(ch, "Indexer", current, desired, "id")
    BY <1>2 DEF Sonarr!diffIndexers, Sonarr!DiffIndexersWithIR
  <1>3. ASSUME ch \in Sonarr!diffRemotePathMappings(current, desired)
        PROVE  Planned(ch, "RemotePathMapping", current, desired, "id")
    BY <1>3 DEF Sonarr!diffRemotePathMappings, Sonarr!DiffRemotePathMappings
  <1>4. ASSUME ch \in Sonarr!diffNotifications(current, desired)
        PROVE  Planned(ch, "Notification", current, desired, "id")
    BY <1>4 DEF Sonarr!diffNotifications
  <1>5. ASSUME ch \in Sonarr!diffCustomFormats(current, desired)
        PROVE  Planned(ch, "CustomFormat", current, desired, "id")
    BY <1>5 DEF Sonarr!diffCustomFormats
  <1>6. ASSUME ch \in Sonarr!diffDelayProfiles(current, desired)
        PROVE  Planned(ch, "DelayProfile", current, desired, "id")
    BY <1>6 DEF Sonarr!diffDelayProfiles, Sonarr!DiffDelayProfiles
  <1>7. ASSUME ch \in Sonarr!diffQualityProfiles(current, desired, ids)
        PROVE  PlannedProfile(ch, current, desired, ids.profile)
    BY <1>7 DEF NoId, PlannedProfile, Of, First, Sonarr!First, Sonarr!diffQualityProfiles,
                Sonarr!DiffVideoQualityProfiles
  <1>8. ASSUME ch \in Sonarr!diffRootFolders(current, desired)
        PROVE  PlannedFolder(ch, current, desired)
    BY <1>8 DEF PlannedFolder, Sonarr!diffRootFolders, Sonarr!DiffRootFolders
  <1>9. ASSUME ch \in Sonarr!diffNaming(current, desired, ids)
        PROVE  PlannedNaming(ch, desired)
    <2>1. PICK d \in Sonarr!Of(desired, "NamingConfig") : ch = Sonarr!Change("update", d, ids.naming)
      BY <1>9 DEF Sonarr!diffNaming
    <2> QED  BY <2>1 DEF PlannedNaming
  <1> QED  BY ONLY ch \in Sonarr!Diff(current, desired, ids), <1>1, <1>2, <1>3, <1>4, <1>5, <1>6,
                   <1>7, <1>8, <1>9
           DEF Sonarr!Diff

\* The changes that Lidarr's Diff plans, by kind.
LEMMA LidarrPlans ==
    ASSUME NEW current, NEW desired, NEW ids, NEW ch \in Lidarr!Diff(current, desired, ids)
    PROVE  \/ PlannedProfile(ch, current, desired, ids.profile)
           \/ PlannedNaming(ch, desired) \/ PlannedFolder(ch, current, desired)
           \/ \E kind \in {"DownloadClient", "Indexer", "RemotePathMapping", "Notification",
                           "CustomFormat", "DelayProfile"} :
                  Planned(ch, kind, current, desired, "id")
  <1> USE DEF Planned, Lidarr!DiffByName, Lidarr!Change, Lidarr!Of, Lidarr!Names, Lidarr!Named,
              Lidarr!NoId
  <1>1. ASSUME ch \in Lidarr!diffDownloadClients(current, desired)
        PROVE  Planned(ch, "DownloadClient", current, desired, "id")
    BY <1>1 DEF Lidarr!diffDownloadClients, Lidarr!DiffDownloadClientsWithIR
  <1>2. ASSUME ch \in Lidarr!diffIndexers(current, desired)
        PROVE  Planned(ch, "Indexer", current, desired, "id")
    BY <1>2 DEF Lidarr!diffIndexers, Lidarr!DiffIndexersWithIR
  <1>3. ASSUME ch \in Lidarr!diffRemotePathMappings(current, desired)
        PROVE  Planned(ch, "RemotePathMapping", current, desired, "id")
    BY <1>3
    DEF Lidarr!diffRemotePathMappings, Lidarr!Sonarr!diffRemotePathMappings,
        Lidarr!Sonarr!DiffRemotePathMappings,
                Lidarr!Sonarr!DiffByName, Lidarr!Sonarr!Change, Lidarr!Sonarr!Of,
                Lidarr!Sonarr!Names, Lidarr!Sonarr!Named, Lidarr!Sonarr!NoId
  <1>4. ASSUME ch \in Lidarr!diffNotifications(current, desired)
        PROVE  Planned(ch, "Notification", current, desired, "id")
    BY <1>4 DEF Lidarr!diffNotifications
  <1>5. ASSUME ch \in Lidarr!diffCustomFormats(current, desired)
        PROVE  Planned(ch, "CustomFormat", current, desired, "id")
    BY <1>5 DEF Lidarr!diffCustomFormats
  <1>6. ASSUME ch \in Lidarr!diffDelayProfiles(current, desired)
        PROVE  Planned(ch, "DelayProfile", current, desired, "id")
    BY <1>6 DEF Lidarr!diffDelayProfiles, Lidarr!DiffDelayProfiles
  <1>7. ASSUME ch \in Lidarr!diffQualityProfiles(current, desired, ids)
        PROVE  PlannedProfile(ch, current, desired, ids.profile)
    BY <1>7
    DEF NoId, PlannedProfile, Of, First, Lidarr!First, Lidarr!diffQualityProfiles,
        Lidarr!DiffAudioQualityProfiles,
                Lidarr!DiffVideoQualityProfiles
  <1>8. ASSUME ch \in Lidarr!diffRootFolders(current, desired)
        PROVE  PlannedFolder(ch, current, desired)
    BY <1>8 DEF PlannedFolder, Lidarr!diffRootFolders, Lidarr!DiffRootFolders
  <1>9. ASSUME ch \in Lidarr!diffNaming(current, desired, ids)
        PROVE  PlannedNaming(ch, desired)
    <2>1. PICK d \in Lidarr!Of(desired, "NamingConfig") : ch = Lidarr!Change("update", d, ids.naming)
      BY <1>9 DEF Lidarr!diffNaming
    <2> QED  BY <2>1 DEF PlannedNaming
  <1> QED  BY ONLY ch \in Lidarr!Diff(current, desired, ids), <1>1, <1>2, <1>3, <1>4, <1>5, <1>6,
                   <1>7, <1>8, <1>9
           DEF Lidarr!Diff

\* The changes that Radarr's Diff plans, by kind.
LEMMA RadarrPlans ==
    ASSUME NEW current, NEW desired, NEW ch \in Radarr!Diff(current, desired)
    PROVE  \/ ch.op = "create" /\ PlannedProfile(ch, current, desired, NoId)
           \/ PlannedNaming(ch, desired) \/ PlannedFolder(ch, current, desired)
           \/ \E kind \in {"RemotePathMapping", "Notification", "DelayProfile"} :
                  Planned(ch, kind, current, desired, "id")
           \/ \E kind \in {"CustomFormat", "DownloadClient", "Indexer"} :
                  Planned(ch, kind, current, desired, "name")
  <1> USE DEF Planned, Radarr!DiffByName, Radarr!Change, Radarr!Of, Radarr!Names, Radarr!Named,
              Radarr!NoId
  <1>1. ASSUME ch \in Radarr!diffDownloadClients(current, desired)
        PROVE  Planned(ch, "DownloadClient", current, desired, "name")
    BY <1>1 DEF Radarr!diffDownloadClients
  <1>2. ASSUME ch \in Radarr!diffIndexers(current, desired)
        PROVE  Planned(ch, "Indexer", current, desired, "name")
    BY <1>2 DEF Radarr!diffIndexers
  <1>3. ASSUME ch \in Radarr!diffCustomFormats(current, desired)
        PROVE  Planned(ch, "CustomFormat", current, desired, "name")
    BY <1>3 DEF Radarr!diffCustomFormats
  <1>4. ASSUME ch \in Radarr!diffRemotePathMappings(current, desired)
        PROVE  Planned(ch, "RemotePathMapping", current, desired, "id")
    BY <1>4 DEF Radarr!diffRemotePathMappings, Radarr!DiffRemotePathMappings
  <1>5. ASSUME ch \in Radarr!diffNotifications(current, desired)
        PROVE  Planned(ch, "Notification", current, desired, "id")
    BY <1>5 DEF Radarr!diffNotifications
  <1>6. ASSUME ch \in Radarr!diffDelayProfiles(current, desired)
        PROVE  Planned(ch, "DelayProfile", current, desired, "id")
    BY <1>6 DEF Radarr!diffDelayProfiles, Radarr!DiffDelayProfiles
  <1>7. ASSUME ch \in Radarr!diffQualityProfiles(current, desired)
        PROVE  ch.op = "create" /\ PlannedProfile(ch, current, desired, NoId)
    BY <1>7 DEF PlannedProfile, Radarr!diffQualityProfiles, Radarr!DiffVideoQualityProfiles
  <1>8. ASSUME ch \in Radarr!diffRootFolders(current, desired)
        PROVE  PlannedFolder(ch, current, desired)
    BY <1>8 DEF PlannedFolder, Radarr!diffRootFolders, Radarr!DiffRootFolders
  <1>9. ASSUME ch \in Radarr!diffNaming(current, desired)
        PROVE  PlannedNaming(ch, desired)
    <2>1. PICK d \in Radarr!Of(desired, "NamingConfig") : ch = Radarr!Change("update", d, Radarr!NoId)
      BY <1>9 DEF Radarr!diffNaming
    <2> QED  BY <2>1 DEF PlannedNaming
  <1> QED  BY ONLY ch \in Radarr!Diff(current, desired), <1>1, <1>2, <1>3, <1>4, <1>5, <1>6,
                   <1>7, <1>8, <1>9
           DEF Radarr!Diff

\* The changes that Readarr's Diff plans, by kind.
LEMMA ReadarrPlans ==
    ASSUME NEW current, NEW desired, NEW ch \in Readarr!Diff(current, desired)
    PROVE  \/ ch.op = "create" /\ PlannedProfile(ch, current, desired, NoId)
           \/ PlannedFolder(ch, current, desired)
           \/ Planned(ch, "MetadataProfile", current, desired, "id")
           \/ /\ ch.op # "update"
              /\ \E kind \in {"DownloadClient", "Indexer"} :
                     Planned(ch, kind, current, desired, "name")
  <1> USE DEF Planned, Readarr!DiffByName, Readarr!Change, Readarr!Of, Readarr!Names,
              Readarr!Named, Readarr!NoId
  <1>1. ASSUME ch \in Readarr!diffMetadataProfiles(current, desired)
        PROVE  Planned(ch, "MetadataProfile", current, desired, "id")
    BY <1>1 DEF Readarr!diffMetadataProfiles
  <1>2. ASSUME ch \in Readarr!diffDownloadClients(current, desired)
        PROVE  ch.op # "update" /\ Planned(ch, "DownloadClient", current, desired, "name")
    BY <1>2 DEF Readarr!diffDownloadClients, Readarr!AlwaysEqual
  <1>3. ASSUME ch \in Readarr!diffIndexers(current, desired)
        PROVE  ch.op # "update" /\ Planned(ch, "Indexer", current, desired, "name")
    BY <1>3 DEF Readarr!diffIndexers, Readarr!AlwaysEqual
  <1>4. ASSUME ch \in Readarr!diffQualityProfiles(current, desired)
        PROVE  ch.op = "create" /\ PlannedProfile(ch, current, desired, NoId)
    BY <1>4 DEF PlannedProfile, Readarr!diffQualityProfiles, Readarr!DiffBookQualityProfiles
  <1>5. ASSUME ch \in Readarr!diffRootFolders(current, desired)
        PROVE  PlannedFolder(ch, current, desired)
    BY <1>5 DEF PlannedFolder, Readarr!diffRootFolders, Readarr!DiffRootFolders
  <1> QED  BY ONLY ch \in Readarr!Diff(current, desired), <1>1, <1>2, <1>3, <1>4, <1>5
           DEF Readarr!Diff

\* The changes that Prowlarr's Diff plans, by kind.
LEMMA ProwlarrPlans ==
    ASSUME NEW current, NEW desired, NEW absent, NEW ch \in Prowlarr!Diff(current, desired, absent)
    PROVE  \E kind \in {"Indexer", "IndexerProxy", "Application", "DownloadClient"} :
               /\ Planned(ch, kind, current, desired, "name")
               /\ ch.op = "delete" => ch = [op |-> "delete", kind |-> kind, id |-> NoId,
                                            name |-> ch.name, cfg |-> NoCfg]
  <1>0. Prowlarr!NoCfg = NoCfg
    BY DEF Prowlarr!NoCfg, NoCfg
  <1> USE DEF Planned, Prowlarr!DiffByName, Prowlarr!Change, Prowlarr!Of, Prowlarr!Names,
              Prowlarr!Named, Prowlarr!NoId, NoId
  <1>1. ASSUME ch \in Prowlarr!diffIndexers(current, desired)
        PROVE  /\ Planned(ch, "Indexer", current, desired, "name")
               /\ ch.op = "delete" => ch = [op |-> "delete", kind |-> "Indexer", id |-> NoId,
                                            name |-> ch.name, cfg |-> NoCfg]
    BY <1>0, <1>1 DEF Prowlarr!diffIndexers
  <1>2. ASSUME ch \in Prowlarr!diffProxies(current, desired)
        PROVE  /\ Planned(ch, "IndexerProxy", current, desired, "name")
               /\ ch.op = "delete" => ch = [op |-> "delete", kind |-> "IndexerProxy", id |-> NoId,
                                            name |-> ch.name, cfg |-> NoCfg]
    BY <1>0, <1>2 DEF Prowlarr!diffProxies
  <1>3. ASSUME ch \in Prowlarr!diffApplications(current, desired)
        PROVE  /\ Planned(ch, "Application", current, desired, "name")
               /\ ch.op = "delete" => ch = [op |-> "delete", kind |-> "Application", id |-> NoId,
                                            name |-> ch.name, cfg |-> NoCfg]
    BY <1>0, <1>3 DEF Prowlarr!diffApplications
  <1>4. ASSUME ch \in Prowlarr!diffDownloadClients(current, desired)
        PROVE  /\ Planned(ch, "DownloadClient", current, desired, "name")
               /\ ch.op = "delete" => ch = [op |-> "delete", kind |-> "DownloadClient", id |-> NoId,
                                            name |-> ch.name, cfg |-> NoCfg]
    BY <1>0, <1>4 DEF Prowlarr!diffDownloadClients
  <1> QED  BY ONLY ch \in Prowlarr!Diff(current, desired, absent), <1>1, <1>2, <1>3, <1>4
           DEF Prowlarr!Diff

-----------------------------------------------------------------------------
(***************************************************************************)
(* A cleanup plans the deletion of everything that the operator owns.      *)
(***************************************************************************)

\* The resource x was read.
ReadOf(current, x) == \E c \in current : c.kind = x.kind /\ c.name = x.name

\* The plan deletes the name.
Deletion(plan, kind, n) == \E ch \in plan : ch.op = "delete" /\ ch.kind = kind /\ ch.name = n

\* With the tag and the list at hand, Sonarr's CurrentState holds every resource of
\* the operator.
LEMMA SonarrReadsAll ==
    ASSUME NEW sv, NEW schema, NEW tag, tag, NEW blind, NEW x \in sv.items, HasTag(x), x.kind \notin blind,
           x.kind \in {"DownloadClient", "Indexer", "Notification", "QualityProfile"}
    PROVE  ReadOf(Sonarr!CurrentState(sv, schema, tag, blind), x)
  <1>1. CASE x.kind = "DownloadClient"
    <2>1. Sonarr!clientToIR(x) \in Sonarr!getManagedDownloadClients(sv)
      BY <1>1 DEF Sonarr!getManagedDownloadClients, Sonarr!Tagged, Sonarr!Get, Sonarr!HasTag, HasTag
    <2>2. Sonarr!clientToIR(x).kind = x.kind /\ Sonarr!clientToIR(x).name = x.name
      BY <1>1 DEF Sonarr!clientToIR, Sonarr!Resource
    <2>3. Sonarr!clientToIR(x) \in Sonarr!CurrentState(sv, schema, tag, blind)
      BY <2>1, <2>2 DEF Sonarr!CurrentState
    <2> QED  BY <2>2, <2>3 DEF ReadOf
  <1>2. CASE x.kind = "Indexer"
    <2>1. Sonarr!indexerToIR(x) \in Sonarr!getManagedIndexers(sv)
      BY <1>2 DEF Sonarr!getManagedIndexers, Sonarr!Tagged, Sonarr!Get, Sonarr!HasTag, HasTag
    <2>2. Sonarr!indexerToIR(x).kind = x.kind /\ Sonarr!indexerToIR(x).name = x.name
      BY <1>2 DEF Sonarr!indexerToIR, Sonarr!Resource
    <2>3. Sonarr!indexerToIR(x) \in Sonarr!CurrentState(sv, schema, tag, blind)
      BY <2>1, <2>2 DEF Sonarr!CurrentState
    <2> QED  BY <2>2, <2>3 DEF ReadOf
  <1>3. CASE x.kind = "Notification"
    <2>1. Sonarr!notificationToIR(x) \in Sonarr!getManagedNotifications(sv)
      BY <1>3 DEF Sonarr!getManagedNotifications, Sonarr!Tagged, Sonarr!Get, Sonarr!HasTag, HasTag
    <2>2. Sonarr!notificationToIR(x).kind = x.kind /\ Sonarr!notificationToIR(x).name = x.name
      BY <1>3 DEF Sonarr!notificationToIR, Sonarr!Resource
    <2>3. Sonarr!notificationToIR(x) \in Sonarr!CurrentState(sv, schema, tag, blind)
      BY <2>1, <2>2 DEF Sonarr!CurrentState
    <2> QED  BY <2>2, <2>3 DEF ReadOf
  <1>4. CASE x.kind = "QualityProfile"
    <2>1. Sonarr!profileToIR(schema, x) \in Sonarr!getManagedQualityProfiles(sv, schema)
      BY <1>4 DEF Sonarr!getManagedQualityProfiles, Sonarr!Tagged, Sonarr!Get, Sonarr!HasTag, HasTag
    <2>2. Sonarr!profileToIR(schema, x).kind = x.kind /\ Sonarr!profileToIR(schema, x).name = x.name
      BY <1>4 DEF Sonarr!profileToIR, Sonarr!Resource
    <2>3. Sonarr!profileToIR(schema, x) \in Sonarr!CurrentState(sv, schema, tag, blind)
      BY <2>1, <2>2 DEF Sonarr!CurrentState
    <2> QED  BY <2>2, <2>3 DEF ReadOf
  <1> QED  BY <1>1, <1>2, <1>3, <1>4

\* With nothing desired, Sonarr plans the deletion of all that was read.
LEMMA SonarrDropsAll ==
    ASSUME NEW current, NEW ids, NEW c \in current,
           c.kind \in {"DownloadClient", "Indexer", "Notification"}
    PROVE  Deletion(Sonarr!Diff(current, {}, ids), c.kind, c.name)
  <1>1. CASE c.kind = "DownloadClient"
    <2> DEFINE id == Sonarr!Named(Sonarr!Of(current, "DownloadClient"), c.name).id
               ch == Sonarr!Change("delete", c, id)
    <2>1. ch \in Sonarr!diffDownloadClients(current, {})
      <3>1. c \in Sonarr!Of(current, "DownloadClient") /\ Sonarr!Names(Sonarr!Of({}, "DownloadClient")) = {}
        BY <1>1 DEF Sonarr!Of, Sonarr!Names
      <3> QED  BY <3>1
               DEF Sonarr!diffDownloadClients, Sonarr!DiffDownloadClientsWithIR, Sonarr!DiffByName
    <2>2. ch.op = "delete" /\ ch.kind = c.kind /\ ch.name = c.name
      BY DEF Sonarr!Change
    <2> HIDE DEF ch
    <2>3. ch \in Sonarr!Diff(current, {}, ids)
      BY <2>1 DEF Sonarr!Diff
    <2> QED  BY <2>2, <2>3 DEF Deletion
  <1>2. CASE c.kind = "Indexer"
    <2> DEFINE id == Sonarr!Named(Sonarr!Of(current, "Indexer"), c.name).id
               ch == Sonarr!Change("delete", c, id)
    <2>1. ch \in Sonarr!diffIndexers(current, {})
      <3>1. c \in Sonarr!Of(current, "Indexer") /\ Sonarr!Names(Sonarr!Of({}, "Indexer")) = {}
        BY <1>2 DEF Sonarr!Of, Sonarr!Names
      <3> QED  BY <3>1 DEF Sonarr!diffIndexers, Sonarr!DiffIndexersWithIR, Sonarr!DiffByName
    <2>2. ch.op = "delete" /\ ch.kind = c.kind /\ ch.name = c.name
      BY DEF Sonarr!Change
    <2> HIDE DEF ch
    <2>3. ch \in Sonarr!Diff(current, {}, ids)
      BY <2>1 DEF Sonarr!Diff
    <2> QED  BY <2>2, <2>3 DEF Deletion
  <1>3. CASE c.kind = "Notification"
    <2> DEFINE id == Sonarr!Named(Sonarr!Of(current, "Notification"), c.name).id
               ch == Sonarr!Change("delete", c, id)
    <2>1. ch \in Sonarr!diffNotifications(current, {})
      <3>1. c \in Sonarr!Of(current, "Notification") /\ Sonarr!Names(Sonarr!Of({}, "Notification")) = {}
        BY <1>3 DEF Sonarr!Of, Sonarr!Names
      <3> QED  BY <3>1 DEF Sonarr!diffNotifications, Sonarr!DiffByName
    <2>2. ch.op = "delete" /\ ch.kind = c.kind /\ ch.name = c.name
      BY DEF Sonarr!Change
    <2> HIDE DEF ch
    <2>3. ch \in Sonarr!Diff(current, {}, ids)
      BY <2>1 DEF Sonarr!Diff
    <2> QED  BY <2>2, <2>3 DEF Deletion
  <1> QED  BY <1>1, <1>2, <1>3

\* With the tag and the list at hand, Lidarr's CurrentState holds every resource of
\* the operator.
LEMMA LidarrReadsAll ==
    ASSUME NEW sv, NEW schema, NEW tag, tag, NEW blind, NEW x \in sv.items, HasTag(x), x.kind \notin blind,
           x.kind \in {"DownloadClient", "Indexer", "Notification", "QualityProfile"}
    PROVE  ReadOf(Lidarr!CurrentState(sv, schema, tag, blind), x)
  <1>1. CASE x.kind = "DownloadClient"
    <2>1. Lidarr!clientToIR(x) \in Lidarr!getManagedDownloadClients(sv)
      BY <1>1 DEF Lidarr!getManagedDownloadClients, Lidarr!Tagged, Lidarr!Get, Lidarr!HasTag, HasTag
    <2>2. Lidarr!clientToIR(x).kind = x.kind /\ Lidarr!clientToIR(x).name = x.name
      BY <1>1 DEF Lidarr!clientToIR, Lidarr!Resource
    <2>3. Lidarr!clientToIR(x) \in Lidarr!CurrentState(sv, schema, tag, blind)
      BY <2>1, <2>2 DEF Lidarr!CurrentState
    <2> QED  BY <2>2, <2>3 DEF ReadOf
  <1>2. CASE x.kind = "Indexer"
    <2>1. Lidarr!indexerToIR(x) \in Lidarr!getManagedIndexers(sv)
      BY <1>2 DEF Lidarr!getManagedIndexers, Lidarr!Tagged, Lidarr!Get, Lidarr!HasTag, HasTag
    <2>2. Lidarr!indexerToIR(x).kind = x.kind /\ Lidarr!indexerToIR(x).name = x.name
      BY <1>2 DEF Lidarr!indexerToIR, Lidarr!Resource
    <2>3. Lidarr!indexerToIR(x) \in Lidarr!CurrentState(sv, schema, tag, blind)
      BY <2>1, <2>2 DEF Lidarr!CurrentState
    <2> QED  BY <2>2, <2>3 DEF ReadOf
  <1>3. CASE x.kind = "Notification"
    <2>1. Lidarr!notificationToIR(x) \in Lidarr!getManagedNotifications(sv)
      BY <1>3 DEF Lidarr!getManagedNotifications, Lidarr!Tagged, Lidarr!Get, Lidarr!HasTag, HasTag
    <2>2. Lidarr!notificationToIR(x).kind = x.kind /\ Lidarr!notificationToIR(x).name = x.name
      BY <1>3
      DEF Lidarr!notificationToIR, Lidarr!Sonarr!notificationToIR, Lidarr!Sonarr!Resource,
          Lidarr!Resource
    <2>3. Lidarr!notificationToIR(x) \in Lidarr!CurrentState(sv, schema, tag, blind)
      BY <2>1, <2>2 DEF Lidarr!CurrentState
    <2> QED  BY <2>2, <2>3 DEF ReadOf
  <1>4. CASE x.kind = "QualityProfile"
    <2>1. Lidarr!profileToIR(schema, x) \in Lidarr!getManagedQualityProfiles(sv, schema)
      BY <1>4 DEF Lidarr!getManagedQualityProfiles, Lidarr!Tagged, Lidarr!Get, Lidarr!HasTag, HasTag
    <2>2. Lidarr!profileToIR(schema, x).kind = x.kind /\ Lidarr!profileToIR(schema, x).name = x.name
      BY <1>4 DEF Lidarr!profileToIR, Lidarr!Resource
    <2>3. Lidarr!profileToIR(schema, x) \in Lidarr!CurrentState(sv, schema, tag, blind)
      BY <2>1, <2>2 DEF Lidarr!CurrentState
    <2> QED  BY <2>2, <2>3 DEF ReadOf
  <1> QED  BY <1>1, <1>2, <1>3, <1>4

\* With nothing desired, Lidarr plans the deletion of all that was read.
LEMMA LidarrDropsAll ==
    ASSUME NEW current, NEW ids, NEW c \in current,
           c.kind \in {"DownloadClient", "Indexer", "Notification"}
    PROVE  Deletion(Lidarr!Diff(current, {}, ids), c.kind, c.name)
  <1>1. CASE c.kind = "DownloadClient"
    <2> DEFINE id == Lidarr!Named(Lidarr!Of(current, "DownloadClient"), c.name).id
               ch == Lidarr!Change("delete", c, id)
    <2>1. ch \in Lidarr!diffDownloadClients(current, {})
      <3>1. c \in Lidarr!Of(current, "DownloadClient") /\ Lidarr!Names(Lidarr!Of({}, "DownloadClient")) = {}
        BY <1>1 DEF Lidarr!Of, Lidarr!Names
      <3> QED  BY <3>1
               DEF Lidarr!diffDownloadClients, Lidarr!DiffDownloadClientsWithIR, Lidarr!DiffByName
    <2>2. ch.op = "delete" /\ ch.kind = c.kind /\ ch.name = c.name
      BY DEF Lidarr!Change
    <2> HIDE DEF ch
    <2>3. ch \in Lidarr!Diff(current, {}, ids)
      BY <2>1 DEF Lidarr!Diff
    <2> QED  BY <2>2, <2>3 DEF Deletion
  <1>2. CASE c.kind = "Indexer"
    <2> DEFINE id == Lidarr!Named(Lidarr!Of(current, "Indexer"), c.name).id
               ch == Lidarr!Change("delete", c, id)
    <2>1. ch \in Lidarr!diffIndexers(current, {})
      <3>1. c \in Lidarr!Of(current, "Indexer") /\ Lidarr!Names(Lidarr!Of({}, "Indexer")) = {}
        BY <1>2 DEF Lidarr!Of, Lidarr!Names
      <3> QED  BY <3>1 DEF Lidarr!diffIndexers, Lidarr!DiffIndexersWithIR, Lidarr!DiffByName
    <2>2. ch.op = "delete" /\ ch.kind = c.kind /\ ch.name = c.name
      BY DEF Lidarr!Change
    <2> HIDE DEF ch
    <2>3. ch \in Lidarr!Diff(current, {}, ids)
      BY <2>1 DEF Lidarr!Diff
    <2> QED  BY <2>2, <2>3 DEF Deletion
  <1>3. CASE c.kind = "Notification"
    <2> DEFINE id == Lidarr!Named(Lidarr!Of(current, "Notification"), c.name).id
               ch == Lidarr!Change("delete", c, id)
    <2>1. ch \in Lidarr!diffNotifications(current, {})
      <3>1. c \in Lidarr!Of(current, "Notification") /\ Lidarr!Names(Lidarr!Of({}, "Notification")) = {}
        BY <1>3 DEF Lidarr!Of, Lidarr!Names
      <3> QED  BY <3>1 DEF Lidarr!diffNotifications, Lidarr!DiffByName
    <2>2. ch.op = "delete" /\ ch.kind = c.kind /\ ch.name = c.name
      BY DEF Lidarr!Change
    <2> HIDE DEF ch
    <2>3. ch \in Lidarr!Diff(current, {}, ids)
      BY <2>1 DEF Lidarr!Diff
    <2> QED  BY <2>2, <2>3 DEF Deletion
  <1> QED  BY <1>1, <1>2, <1>3

\* With the tag and the list at hand, Radarr's CurrentState holds every resource of
\* the operator.
LEMMA RadarrReadsAll ==
    ASSUME NEW sv, NEW schema, NEW tag, tag, NEW blind, NEW x \in sv.items, HasTag(x), x.kind \notin blind,
           x.kind \in {"DownloadClient", "Indexer", "Notification"}
    PROVE  ReadOf(Radarr!CurrentState(sv, schema, tag, blind), x)
  <1>1. CASE x.kind = "DownloadClient"
    <2>1. Radarr!downloadClientToIR(x) \in Radarr!getManagedDownloadClients(sv)
      BY <1>1 DEF Radarr!getManagedDownloadClients, Radarr!Tagged, Radarr!Get, Radarr!HasTag, HasTag
    <2>2. Radarr!downloadClientToIR(x).kind = x.kind /\ Radarr!downloadClientToIR(x).name = x.name
      BY <1>1 DEF Radarr!downloadClientToIR, Radarr!Resource
    <2>3. Radarr!downloadClientToIR(x) \in Radarr!CurrentState(sv, schema, tag, blind)
      BY <2>1, <2>2 DEF Radarr!CurrentState
    <2> QED  BY <2>2, <2>3 DEF ReadOf
  <1>2. CASE x.kind = "Indexer"
    <2>1. Radarr!indexerToIR(x) \in Radarr!getManagedIndexers(sv)
      BY <1>2 DEF Radarr!getManagedIndexers, Radarr!Tagged, Radarr!Get, Radarr!HasTag, HasTag
    <2>2. Radarr!indexerToIR(x).kind = x.kind /\ Radarr!indexerToIR(x).name = x.name
      BY <1>2 DEF Radarr!indexerToIR, Radarr!Resource
    <2>3. Radarr!indexerToIR(x) \in Radarr!CurrentState(sv, schema, tag, blind)
      BY <2>1, <2>2 DEF Radarr!CurrentState
    <2> QED  BY <2>2, <2>3 DEF ReadOf
  <1>3. CASE x.kind = "Notification"
    <2>1. Radarr!notificationToIR(x) \in Radarr!getManagedNotifications(sv)
      BY <1>3 DEF Radarr!getManagedNotifications, Radarr!Tagged, Radarr!Get, Radarr!HasTag, HasTag
    <2>2. Radarr!notificationToIR(x).kind = x.kind /\ Radarr!notificationToIR(x).name = x.name
      BY <1>3 DEF Radarr!notificationToIR, Radarr!Resource
    <2>3. Radarr!notificationToIR(x) \in Radarr!CurrentState(sv, schema, tag, blind)
      BY <2>1, <2>2 DEF Radarr!CurrentState
    <2> QED  BY <2>2, <2>3 DEF ReadOf
  <1> QED  BY <1>1, <1>2, <1>3

\* With nothing desired, Radarr plans the deletion of all that was read.
LEMMA RadarrDropsAll ==
    ASSUME NEW current, NEW c \in current,
           c.kind \in {"DownloadClient", "Indexer", "Notification"}
    PROVE  Deletion(Radarr!Diff(current, {}), c.kind, c.name)
  <1>1. CASE c.kind = "DownloadClient"
    <2> DEFINE id == Radarr!NoId
               ch == Radarr!Change("delete", c, id)
    <2>1. ch \in Radarr!diffDownloadClients(current, {})
      <3>1. c \in Radarr!Of(current, "DownloadClient") /\ Radarr!Names(Radarr!Of({}, "DownloadClient")) = {}
        BY <1>1 DEF Radarr!Of, Radarr!Names
      <3> QED  BY <3>1 DEF Radarr!diffDownloadClients, Radarr!DiffByName
    <2>2. ch.op = "delete" /\ ch.kind = c.kind /\ ch.name = c.name
      BY DEF Radarr!Change
    <2> HIDE DEF ch
    <2>3. ch \in Radarr!Diff(current, {})
      BY <2>1 DEF Radarr!Diff
    <2> QED  BY <2>2, <2>3 DEF Deletion
  <1>2. CASE c.kind = "Indexer"
    <2> DEFINE id == Radarr!NoId
               ch == Radarr!Change("delete", c, id)
    <2>1. ch \in Radarr!diffIndexers(current, {})
      <3>1. c \in Radarr!Of(current, "Indexer") /\ Radarr!Names(Radarr!Of({}, "Indexer")) = {}
        BY <1>2 DEF Radarr!Of, Radarr!Names
      <3> QED  BY <3>1 DEF Radarr!diffIndexers, Radarr!DiffByName
    <2>2. ch.op = "delete" /\ ch.kind = c.kind /\ ch.name = c.name
      BY DEF Radarr!Change
    <2> HIDE DEF ch
    <2>3. ch \in Radarr!Diff(current, {})
      BY <2>1 DEF Radarr!Diff
    <2> QED  BY <2>2, <2>3 DEF Deletion
  <1>3. CASE c.kind = "Notification"
    <2> DEFINE id == Radarr!Named(Radarr!Of(current, "Notification"), c.name).id
               ch == Radarr!Change("delete", c, id)
    <2>1. ch \in Radarr!diffNotifications(current, {})
      <3>1. c \in Radarr!Of(current, "Notification") /\ Radarr!Names(Radarr!Of({}, "Notification")) = {}
        BY <1>3 DEF Radarr!Of, Radarr!Names
      <3> QED  BY <3>1 DEF Radarr!diffNotifications, Radarr!DiffByName
    <2>2. ch.op = "delete" /\ ch.kind = c.kind /\ ch.name = c.name
      BY DEF Radarr!Change
    <2> HIDE DEF ch
    <2>3. ch \in Radarr!Diff(current, {})
      BY <2>1 DEF Radarr!Diff
    <2> QED  BY <2>2, <2>3 DEF Deletion
  <1> QED  BY <1>1, <1>2, <1>3

\* With the tag and the list at hand, Readarr's CurrentState holds every resource of
\* the operator.
LEMMA ReadarrReadsAll ==
    ASSUME NEW sv, NEW tag, tag, NEW blind, NEW x \in sv.items, HasTag(x), x.kind \notin blind,
           x.kind \in {"DownloadClient", "Indexer", "MetadataProfile"}
    PROVE  ReadOf(Readarr!CurrentState(sv, tag, blind), x)
  <1>1. CASE x.kind = "DownloadClient"
    <2>1. Readarr!downloadClientToIR(x) \in Readarr!getManagedDownloadClients(sv)
      BY <1>1
      DEF Readarr!getManagedDownloadClients, Readarr!Tagged, Readarr!Get, Readarr!HasTag,
          HasTag, Readarr!containsTag
    <2>2. Readarr!downloadClientToIR(x).kind = x.kind /\ Readarr!downloadClientToIR(x).name = x.name
      BY <1>1 DEF Readarr!downloadClientToIR, Readarr!Resource
    <2>3. Readarr!downloadClientToIR(x) \in Readarr!CurrentState(sv, tag, blind)
      BY <2>1, <2>2 DEF Readarr!CurrentState
    <2> QED  BY <2>2, <2>3 DEF ReadOf
  <1>2. CASE x.kind = "Indexer"
    <2>1. Readarr!indexerToIR(x) \in Readarr!getManagedIndexers(sv)
      BY <1>2
      DEF Readarr!getManagedIndexers, Readarr!Tagged, Readarr!Get, Readarr!HasTag, HasTag,
          Readarr!containsTag
    <2>2. Readarr!indexerToIR(x).kind = x.kind /\ Readarr!indexerToIR(x).name = x.name
      BY <1>2 DEF Readarr!indexerToIR, Readarr!Resource
    <2>3. Readarr!indexerToIR(x) \in Readarr!CurrentState(sv, tag, blind)
      BY <2>1, <2>2 DEF Readarr!CurrentState
    <2> QED  BY <2>2, <2>3 DEF ReadOf
  <1>3. CASE x.kind = "MetadataProfile"
    <2>1. Readarr!metadataProfileToIR(x) \in Readarr!getManagedMetadataProfiles(sv)
      BY <1>3
      DEF Readarr!getManagedMetadataProfiles, Readarr!Tagged, Readarr!Get, Readarr!HasTag, HasTag
    <2>2. Readarr!metadataProfileToIR(x).kind = x.kind /\ Readarr!metadataProfileToIR(x).name = x.name
      BY <1>3 DEF Readarr!metadataProfileToIR, Readarr!Resource
    <2>3. Readarr!metadataProfileToIR(x) \in Readarr!CurrentState(sv, tag, blind)
      BY <2>1, <2>2 DEF Readarr!CurrentState
    <2> QED  BY <2>2, <2>3 DEF ReadOf
  <1> QED  BY <1>1, <1>2, <1>3

\* With nothing desired, Readarr plans the deletion of all that was read.
LEMMA ReadarrDropsAll ==
    ASSUME NEW current, NEW c \in current,
           c.kind \in {"DownloadClient", "Indexer", "MetadataProfile"}
    PROVE  Deletion(Readarr!Diff(current, {}), c.kind, c.name)
  <1>1. CASE c.kind = "DownloadClient"
    <2> DEFINE id == Readarr!NoId
               ch == Readarr!Change("delete", c, id)
    <2>1. ch \in Readarr!diffDownloadClients(current, {})
      <3>1. c \in Readarr!Of(current, "DownloadClient") /\ Readarr!Names(Readarr!Of({}, "DownloadClient")) = {}
        BY <1>1 DEF Readarr!Of, Readarr!Names
      <3> QED  BY <3>1 DEF Readarr!diffDownloadClients, Readarr!DiffByName
    <2>2. ch.op = "delete" /\ ch.kind = c.kind /\ ch.name = c.name
      BY DEF Readarr!Change
    <2> HIDE DEF ch
    <2>3. ch \in Readarr!Diff(current, {})
      BY <2>1 DEF Readarr!Diff
    <2> QED  BY <2>2, <2>3 DEF Deletion
  <1>2. CASE c.kind = "Indexer"
    <2> DEFINE id == Readarr!NoId
               ch == Readarr!Change("delete", c, id)
    <2>1. ch \in Readarr!diffIndexers(current, {})
      <3>1. c \in Readarr!Of(current, "Indexer") /\ Readarr!Names(Readarr!Of({}, "Indexer")) = {}
        BY <1>2 DEF Readarr!Of, Readarr!Names
      <3> QED  BY <3>1 DEF Readarr!diffIndexers, Readarr!DiffByName
    <2>2. ch.op = "delete" /\ ch.kind = c.kind /\ ch.name = c.name
      BY DEF Readarr!Change
    <2> HIDE DEF ch
    <2>3. ch \in Readarr!Diff(current, {})
      BY <2>1 DEF Readarr!Diff
    <2> QED  BY <2>2, <2>3 DEF Deletion
  <1>3. CASE c.kind = "MetadataProfile"
    <2> DEFINE id == Readarr!Named(Readarr!Of(current, "MetadataProfile"), c.name).id
               ch == Readarr!Change("delete", c, id)
    <2>1. ch \in Readarr!diffMetadataProfiles(current, {})
      <3>1. c \in Readarr!Of(current, "MetadataProfile") /\ Readarr!Names(Readarr!Of({}, "MetadataProfile")) = {}
        BY <1>3 DEF Readarr!Of, Readarr!Names
      <3> QED  BY <3>1 DEF Readarr!diffMetadataProfiles, Readarr!DiffByName
    <2>2. ch.op = "delete" /\ ch.kind = c.kind /\ ch.name = c.name
      BY DEF Readarr!Change
    <2> HIDE DEF ch
    <2>3. ch \in Readarr!Diff(current, {})
      BY <2>1 DEF Readarr!Diff
    <2> QED  BY <2>2, <2>3 DEF Deletion
  <1> QED  BY <1>1, <1>2, <1>3

=============================================================================
