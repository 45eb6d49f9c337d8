-------------------------- MODULE AdapterPassProofs --------------------------
(***************************************************************************)
(* Proofs about AdapterPass, for every scene, set of services and bound: type *)
(* correctness, the refinement of OwnedResources, and that a clean cleanup *)
(* leaves nothing of the operator behind.                                  *)
(*                                                                         *)
(* Between Read, which plans, and the calls that work the plan off, users and *)
(* other passes change the services.  IInv says what stays true of the plan *)
(* meanwhile: the changes still lead only to resources of the operator.    *)
(***************************************************************************)
EXTENDS AdapterPass, AdapterPlanProofs

(***************************************************************************)
(* The inductive invariant.  A change that passes ChangeOK leads to        *)
(* nothing or to a resource of the operator: Diff plans only such changes, *)
(* the adapters turn them into sound requests, and they stay right while   *)
(* the services move.                                                      *)
(***************************************************************************)

\* The kinds whose changes carry no id: the adapter looks the resource up.
LooksUp(sc) ==
    CASE sc.app = "radarr"   -> {"CustomFormat", "DownloadClient", "Indexer"}
      [] sc.app = "readarr"  -> {"DownloadClient", "Indexer"}
      [] sc.app = "prowlarr" -> {"Indexer", "IndexerProxy", "Application", "DownloadClient"}
      [] OTHER                  -> {}

\* A service holds resources of one kind, each with an id of its own that has
\* been given out and a name of its own; a singleton is there once.
ServiceOK(sv, kind) ==
    /\ DOMAIN sv = {"tag", "items", "next"} /\ sv.tag \in BOOLEAN /\ sv.next \in Nat \ {0}
    /\ \A x \in sv.items :
           /\ DOMAIN x = {"kind", "id", "name", "cfg", "ours"}
           /\ x.kind = kind /\ x.id \in 1 .. sv.next - 1
    /\ \A x, y \in sv.items : x.id = y.id \/ x.name = y.name => x = y
    /\ kind \in Singletons => \E x \in sv.items : sv.items = {x}

\* What a cached id leads to is the operator's, under the name it is cached for.
CacheOK(sc, sv, cache) ==
    /\ sc.app # "prowlarr" => DOMAIN cache = {}
    /\ \A k \in DOMAIN cache :
           /\ cache[k] \in 1 .. sv.next - 1
           /\ \A x \in sv.items : x.id = cache[k] => HasTag(x) /\ k = <<sc.kind, x.name>>

\* A service and what an adapter remembers of it.  Of the quality profiles the
\* operator's has the name that the configuration object gives it.
HeldOK(sc, sv, cache) ==
    /\ ServiceOK(sv, sc.kind) /\ CacheOK(sc, sv, cache)
    /\ sc.kind = "QualityProfile" =>
           \A x \in sv.items : HasTag(x) => x.name \in Names(UNION sc.irs)

\* Where a change leads, by its id, by its name or through the cache, there is
\* nothing or a resource of the operator.
Aimed(sc, sv, cache, desired, ch) ==
    /\ sc.kind \notin LooksUp(sc) =>
           /\ ch.id \in Nat /\ ch.id < sv.next
           /\ \A x \in sv.items : x.id = ch.id =>
                  /\ HasTag(x)
                  /\ IF ch.op = "update" THEN x.name = ch.name ELSE x.name \notin Names(desired)
    /\ sc.app \in {"radarr", "readarr"} => \A x \in sv.items : x.name = ch.name => HasTag(x)
    /\ sc.app = "prowlarr" =>
           /\ <<sc.kind, ch.name>> \in DOMAIN cache
           /\ ch.op = "delete" => ch = [op |-> "delete", kind |-> sc.kind, id |-> NoId,
                                        name |-> ch.name, cfg |-> NoCfg]

\* The kinds that only know one operation.
KnownOp(sc, ch) ==
    /\ ch.op \in {"create", "update", "delete"} /\ ch.kind = sc.kind
    /\ sc.kind \notin DOMAIN DirectOrder
    /\ sc.kind = "NamingConfig" => ch.op = "update"
    /\ sc.kind = "RootFolder" => ch.op = "create"
    /\ sc.kind = "QualityProfile" =>
           ch.op = "create" \/ (ch.op = "delete" /\ sc.app \in {"sonarr", "lidarr"})

\* A change of a pass, which leads to no resource of the user.
ChangeOK(sc, sv, cache, desired, ch) ==
    /\ KnownOp(sc, ch)
    /\ sc.kind \in MarkedKinds =>
           /\ ch.op # "delete" <=> ch.name \in Names(desired)
           /\ ch.op # "create" => Aimed(sc, sv, cache, desired, ch)

\* What a pass remembers of its service.
PassOK ==
    /\ DOMAIN pass = DOMAIN NoPass
    /\ pass.on \in Services \/ pass = NoPass
    /\ pass.phase \in {"idle", "tag", "apply", "direct", "send"}
    /\ pass.desired \subseteq UNION scene.irs
    /\ pass.todo # {} => pass.phase \in {"tag", "apply"}
    /\ \A ch \in pass.todo : ChangeOK(scene, svc[pass.on], caches[pass.on], pass.desired, ch)
    /\ pass.phase = "send" \/ pass.requests # {} => scene.kind \in DOMAIN DirectOrder
    /\ \A q \in pass.requests : RequestOK(q, scene.kind)

\* The services, and what is desired of them.
StateOK ==
    /\ scene \in Scenes
    /\ DOMAIN svc = Services /\ DOMAIN caches = Services /\ DOMAIN want = Services
    /\ DOMAIN gone = Services /\ DOMAIN settled = Services
    /\ \A s \in Services :
           HeldOK(scene, svc[s], caches[s]) /\ want[s] \subseteq UNION scene.irs
    /\ edits \in 0 .. MaxEdits /\ drifts \in 0 .. scene.drifts /\ faults \in 0 .. MaxFaults

\* The inductive invariant.
IInv == StateOK /\ PassOK

\* The kinds of which a cleanup leaves nothing.
Cleaned(sc) ==
    /\ sc.app # "prowlarr" /\ sc.kind \in MarkedKinds
    /\ ~(sc.app \in {"radarr", "readarr"} /\ sc.kind = "QualityProfile")

\* The resource that a request leaves.
NewItem(q, id) == [kind |-> q.kind, id |-> id, name |-> q.name, cfg |-> q.cfg, ours |-> q.ours]

\* The resources that a request is not about.
OtherItems(sv, q) == {x \in sv.items : ~(x.kind = q.kind /\ x.id = q.id)}

\* Such a service has what the adapters look for.
LEMMA ServiceIsStocked ==
    ASSUME NEW sv, NEW kind, ServiceOK(sv, kind)
    PROVE  Stocked(sv, kind)
  BY DEF ServiceOK, Stocked

\* What the service is after an accepted request.
LEMMA ServedRequest ==
    ASSUME NEW sv, NEW kind, NEW q, ServiceOK(sv, kind)
    PROVE  LET tv == Serve(sv, q)
           IN  /\ DOMAIN tv = {"tag", "items", "next"} /\ tv.tag = sv.tag
               /\ q.verb = "POST" => tv.items = sv.items \cup {NewItem(q, sv.next)} /\ tv.next = sv.next + 1
               /\ q.verb = "PUT" => tv.items = OtherItems(sv, q) \cup {NewItem(q, q.id)} /\ tv.next = sv.next
               /\ q.verb = "DELETE" => tv.items = OtherItems(sv, q) /\ tv.next = sv.next
               /\ q.verb \in {"none", "bad"} => tv = sv
  <1>1. CASE q.verb = "POST"
    BY <1>1 DEF ServiceOK, Serve, NewItem, OtherItems
  <1>2. CASE q.verb = "PUT"
    BY <1>2 DEF ServiceOK, Serve, NewItem, OtherItems
  <1>3. CASE q.verb = "DELETE"
    BY <1>3 DEF ServiceOK, Serve, NewItem, OtherItems
  <1>4. CASE q.verb \notin {"POST", "PUT", "DELETE"}
    BY <1>4 DEF ServiceOK, Serve, NewItem, OtherItems
  <1> QED  BY <1>1, <1>2, <1>3, <1>4

\* A resource that clashes with none of those kept.
LEMMA ServiceWith ==
    ASSUME NEW sv, NEW tv, NEW kind, NEW kept, NEW n,
           ServiceOK(sv, kind), kept \subseteq sv.items,
           DOMAIN tv = {"tag", "items", "next"}, tv.tag = sv.tag,
           tv.next \in Nat, sv.next <= tv.next, tv.items = kept \cup {n},
           DOMAIN n = {"kind", "id", "name", "cfg", "ours"}, n.kind = kind,
           n.id \in 1 .. tv.next - 1,
           \A x \in kept : x.id # n.id /\ x.name # n.name,
           kind \in Singletons => kept = {}
    PROVE  ServiceOK(tv, kind)
  <1>1. sv.next \in Nat \ {0} /\ sv.tag \in BOOLEAN
    BY DEF ServiceOK
  <1>2. \A x \in tv.items :
           /\ DOMAIN x = {"kind", "id", "name", "cfg", "ours"}
           /\ x.kind = kind /\ x.id \in 1 .. tv.next - 1
    <2> TAKE x \in tv.items
    <2>1. CASE x = n
      BY <2>1
    <2>2. CASE x \in kept
      <3>1. /\ DOMAIN x = {"kind", "id", "name", "cfg", "ours"}
            /\ x.kind = kind /\ x.id \in 1 .. sv.next - 1
        BY <2>2 DEF ServiceOK
      <3> QED  BY <3>1, <1>1
    <2> QED  BY <2>1, <2>2
  <1>3. \A x, y \in tv.items : x.id = y.id \/ x.name = y.name => x = y
    <2>1. \A x, y \in kept : x.id = y.id \/ x.name = y.name => x = y
      BY DEF ServiceOK
    <2> QED  BY <2>1
  <1>4. kind \in Singletons => \E x \in tv.items : tv.items = {x}
    OBVIOUS
  <1> QED  BY <1>1, <1>2, <1>3, <1>4 DEF ServiceOK

\* The service stays well formed under every request that stays in its kind.
LEMMA ServeKeepsService ==
    ASSUME NEW sv, NEW kind, NEW q, ServiceOK(sv, kind), RequestOK(q, kind), Accepts(sv, q)
    PROVE  ServiceOK(Serve(sv, q), kind)
  <1> DEFINE tv == Serve(sv, q)
  <1>0. /\ DOMAIN tv = {"tag", "items", "next"} /\ tv.tag = sv.tag
        /\ q.verb = "POST" => tv.items = sv.items \cup {NewItem(q, sv.next)} /\ tv.next = sv.next + 1
        /\ q.verb = "PUT" => tv.items = OtherItems(sv, q) \cup {NewItem(q, q.id)} /\ tv.next = sv.next
        /\ q.verb = "DELETE" => tv.items = OtherItems(sv, q) /\ tv.next = sv.next
        /\ q.verb \in {"none", "bad"} => tv = sv
    BY ServedRequest
  <1> SUFFICES ServiceOK(tv, kind)
    OBVIOUS
  <1> HIDE DEF tv
  <1>1. CASE q.verb = "POST"
    <2> DEFINE n == NewItem(q, sv.next)
    <2>1. /\ DOMAIN n = {"kind", "id", "name", "cfg", "ours"} /\ n.kind = kind
          /\ n.id = sv.next /\ n.name = q.name
      BY <1>1 DEF NewItem, RequestOK
    <2>2. \A x \in sv.items : x.name # q.name /\ x.id # sv.next /\ x.id \in 1 .. sv.next - 1
      BY <1>1 DEF ServiceOK, RequestOK, Accepts, Get, Names
    <2>3. sv.next \in Nat \ {0} /\ kind \notin Singletons
      BY <1>1 DEF ServiceOK, RequestOK
    <2>4. /\ tv.next \in Nat /\ sv.next <= tv.next /\ n.id \in 1 .. tv.next - 1
          /\ tv.items = sv.items \cup {n} /\ sv.items \subseteq sv.items
          /\ \A x \in sv.items : x.id # n.id /\ x.name # n.name
          /\ kind \in Singletons => sv.items = {}
      BY <1>0, <1>1, <2>1, <2>2, <2>3
    <2> HIDE DEF n
    <2> QED  BY ONLY ServiceOK(sv, kind), <1>0, <2>1, <2>4, ServiceWith, ZenonT(60)
  <1>2. CASE q.verb = "PUT"
    <2> DEFINE n == NewItem(q, q.id)
    <2>1. /\ DOMAIN n = {"kind", "id", "name", "cfg", "ours"} /\ n.kind = kind
          /\ n.id = q.id /\ n.name = q.name
      BY <1>2 DEF NewItem, RequestOK
    <2>2. PICK o \in sv.items : o.id = q.id
      BY <1>2 DEF Accepts, Get
    <2>3. \A x \in sv.items : x.name = q.name => x.id = q.id
      BY <1>2 DEF Accepts, Get, RequestOK, ServiceOK
    <2>4. \A x \in OtherItems(sv, q) : x \in sv.items /\ x.id # q.id /\ x.name # q.name
      BY <2>3, <1>2 DEF OtherItems, RequestOK, ServiceOK
    <2>5. kind \in Singletons => OtherItems(sv, q) = {}
      BY <2>2, <2>4 DEF ServiceOK, OtherItems
    <2>6. sv.next \in Nat \ {0} /\ q.id \in 1 .. sv.next - 1
      BY <2>2 DEF ServiceOK
    <2>7. OtherItems(sv, q) \subseteq sv.items
      BY DEF OtherItems
    <2>8. /\ tv.next \in Nat /\ sv.next <= tv.next /\ n.id \in 1 .. tv.next - 1
          /\ tv.items = OtherItems(sv, q) \cup {n}
          /\ \A x \in OtherItems(sv, q) : x.id # n.id /\ x.name # n.name
      BY <1>0, <1>2, <2>1, <2>4, <2>6
    <2> HIDE DEF n
    <2> QED  BY ONLY ServiceOK(sv, kind), <1>0, <2>1, <2>5, <2>7, <2>8, ServiceWith, ZenonT(60)
  <1>3. CASE q.verb = "DELETE"
    BY <1>0, <1>3 DEF ServiceOK, RequestOK, OtherItems
  <1>4. CASE q.verb \in {"none", "bad"}
    BY <1>0, <1>4
  <1> QED  BY <1>1, <1>2, <1>3, <1>4 DEF RequestOK

\* Where at most one resource qualifies, it is the first and the last.
LEMMA OnlyOne ==
    ASSUME NEW S, NEW x \in S, x.id \in Nat, \A y \in S : y.id = x.id
    PROVE  First(S) \in S /\ Last(S) \in S
  <1>1. (\A y \in S : x.id <= y.id) /\ (\A y \in S : x.id >= y.id)
    OBVIOUS
  <1>2. First(S) \in S
    BY ONLY <1>1, x \in S, Zenon DEF First
  <1>3. Last(S) \in S
    BY ONLY <1>1, x \in S, Zenon DEF Last
  <1> QED  BY <1>2, <1>3

\* What the service gets for a marked kind: writes under a desired name of what
\* is the operator's, removals of what is the operator's and not desired.
Fair(sv, q, desired) ==
    /\ q.verb \in {"POST", "PUT"} => q.ours = TRUE /\ q.name \in Names(desired)
    /\ q.verb = "PUT" => \A x \in sv.items : x.id = q.id => HasTag(x) /\ x.name = q.name
    /\ q.verb = "DELETE" => \A x \in sv.items : x.id = q.id => HasTag(x) /\ x.name \notin Names(desired)

\* A request that stays in the kind and is fair to a marked kind.
Sound(sc, sv, q, desired) ==
    RequestOK(q, sc.kind) /\ (sc.kind \in MarkedKinds => Fair(sv, q, desired))

\* A request that does what a checked change says is sound.
LEMMA ConformingIsSound ==
    ASSUME NEW sv, NEW desired, NEW ch, NEW q, NEW id, KnownOp(scene, ch), Conforms(q, ch, id),
           scene.kind \in MarkedKinds =>
               /\ ch.op # "delete" <=> ch.name \in Names(desired)
               /\ ch.op # "create" =>
                      \A x \in sv.items : x.id = id =>
                          /\ HasTag(x)
                          /\ IF ch.op = "update" THEN x.name = ch.name ELSE x.name \notin Names(desired)
    PROVE  Sound(scene, sv, q, desired)
  <1>1. RequestOK(q, scene.kind)
    BY DEF KnownOp, Conforms, Posts, Puts, Deletes, RequestOK, Singletons, DirectOrder
  <1>2. ASSUME scene.kind \in MarkedKinds PROVE Fair(sv, q, desired)
    BY <1>2 DEF KnownOp, Conforms, Posts, Puts, Deletes, Fair
  <1> QED  BY <1>1, <1>2 DEF Sound

\* Sending nothing is sound.
LEMMA GivenUpIsSound ==
    ASSUME NEW sv, NEW desired, NEW q, q.verb \in {"none", "bad"}
    PROVE  Sound(scene, sv, q, desired)
  BY DEF Sound, RequestOK, Fair

\* Every adapter turns a change that passes ChangeOK into a sound request.
LEMMA SonarrSound ==
    ASSUME scene.app = "sonarr", scene.kind \in DOMAIN Sonarr!KindRank,
           NEW sv, NEW cache, NEW desired, NEW ch, ChangeOK(scene, sv, cache, desired, ch)
    PROVE  Sound(scene, sv, Sonarr!Apply(sv, scene.schema, ch), desired)
  <1> DEFINE q == Sonarr!Apply(sv, scene.schema, ch)
  <1>1. Conforms(q, ch, ch.id)
    BY SonarrRequest DEF ChangeOK, KnownOp
  <1> HIDE DEF q
  <1>2. /\ KnownOp(scene, ch)
        /\ scene.kind \in MarkedKinds =>
               /\ ch.op # "delete" <=> ch.name \in Names(desired)
               /\ ch.op # "create" =>
                      \A x \in sv.items : x.id = ch.id =>
                          /\ HasTag(x)
                          /\ IF ch.op = "update" THEN x.name = ch.name ELSE x.name \notin Names(desired)
    BY DEF ChangeOK, Aimed, LooksUp
  <1>3. Sound(scene, sv, q, desired)
    BY ONLY <1>1, <1>2, ConformingIsSound
  <1> QED  BY <1>3 DEF q

\* Lidarr's requests are sound.
LEMMA LidarrSound ==
    ASSUME scene.app = "lidarr", scene.kind \in DOMAIN Lidarr!KindRank,
           NEW sv, NEW cache, NEW desired, NEW ch, ChangeOK(scene, sv, cache, desired, ch)
    PROVE  Sound(scene, sv, Lidarr!Apply(sv, scene.schema, ch), desired)
  <1> DEFINE q == Lidarr!Apply(sv, scene.schema, ch)
  <1>1. Conforms(q, ch, ch.id)
    BY LidarrRequest DEF ChangeOK, KnownOp
  <1> HIDE DEF q
  <1>2. /\ KnownOp(scene, ch)
        /\ scene.kind \in MarkedKinds =>
               /\ ch.op # "delete" <=> ch.name \in Names(desired)
               /\ ch.op # "create" =>
                      \A x \in sv.items : x.id = ch.id =>
                          /\ HasTag(x)
                          /\ IF ch.op = "update" THEN x.name = ch.name ELSE x.name \notin Names(desired)
    BY DEF ChangeOK, Aimed, LooksUp
  <1>3. Sound(scene, sv, q, desired)
    BY ONLY <1>1, <1>2, ConformingIsSound
  <1> QED  BY <1>3 DEF q

\* The same where the resource was found by its name.
LEMMA FoundIsSound ==
    ASSUME scene.app \in {"radarr", "readarr"},
           NEW sv, ServiceOK(sv, scene.kind), NEW cache, NEW desired, NEW ch,
           ChangeOK(scene, sv, cache, desired, ch),
           NEW q, NEW x \in sv.items, x.name = ch.name, Conforms(q, ch, x.id)
    PROVE  Sound(scene, sv, q, desired)
  <1>1. \A y \in sv.items : y.id = x.id => y = x
    BY DEF ServiceOK
  <1>2. /\ KnownOp(scene, ch)
        /\ scene.kind \in MarkedKinds =>
               /\ ch.op # "delete" <=> ch.name \in Names(desired)
               /\ ch.op # "create" =>
                      \A y \in sv.items : y.id = x.id =>
                          /\ HasTag(y)
                          /\ IF ch.op = "update" THEN y.name = ch.name ELSE y.name \notin Names(desired)
    BY <1>1 DEF ChangeOK, Aimed, KnownOp
  <1> QED  BY ONLY <1>2, Conforms(q, ch, x.id), ConformingIsSound

\* The same where the change carries the id, and where it creates.
LEMMA AimedIsSound ==
    ASSUME NEW sv, NEW cache, NEW desired, NEW ch, ChangeOK(scene, sv, cache, desired, ch),
           NEW q, NEW id, Conforms(q, ch, id), ch.op = "create" \/ (id = ch.id /\ scene.kind \notin LooksUp(scene))
    PROVE  Sound(scene, sv, q, desired)
  <1>2. /\ KnownOp(scene, ch)
        /\ scene.kind \in MarkedKinds =>
               /\ ch.op # "delete" <=> ch.name \in Names(desired)
               /\ ch.op # "create" =>
                      \A x \in sv.items : x.id = id =>
                          /\ HasTag(x)
                          /\ IF ch.op = "update" THEN x.name = ch.name ELSE x.name \notin Names(desired)
    BY DEF ChangeOK, Aimed
  <1> QED  BY ONLY <1>2, Conforms(q, ch, id), ConformingIsSound

\* Radarr's requests are sound.
LEMMA RadarrSound ==
    ASSUME scene.app = "radarr", scene.kind \in DOMAIN Radarr!KindRank,
           NEW sv, ServiceOK(sv, scene.kind), NEW cache, NEW desired, NEW ch,
           ChangeOK(scene, sv, cache, desired, ch)
    PROVE  Sound(scene, sv, Radarr!Apply(sv, scene.schema, ch), desired)
  <1> DEFINE q == Radarr!Apply(sv, scene.schema, ch)
  <1>0. ch.kind = scene.kind /\ KnownOp(scene, ch)
    BY DEF ChangeOK, KnownOp
  <1>1. IF ch.kind = "NamingConfig" THEN q.verb = "PUT" /\ q.kind = ch.kind
        ELSE \/ Conforms(q, ch, ch.id) /\ ch.kind \notin {"CustomFormat", "DownloadClient", "Indexer"}
             \/ Conforms(q, ch, NoId) /\ (ch.op = "create" \/ q.verb = "bad")
             \/ \E x \in sv.items : x.kind = ch.kind /\ x.name = ch.name /\ Conforms(q, ch, x.id)
    BY <1>0, ServiceIsStocked, RadarrRequest DEF KnownOp
  <1> SUFFICES Sound(scene, sv, q, desired)
    OBVIOUS
  <1> HIDE DEF q
  <1>2. CASE ch.kind = "NamingConfig"
    BY <1>0, <1>1, <1>2 DEF Sound, RequestOK, MarkedKinds, PrefixKinds
  <1>3. CASE Conforms(q, ch, ch.id) /\ ch.kind \notin {"CustomFormat", "DownloadClient", "Indexer"}
    <2>1. scene.kind \notin LooksUp(scene)
      BY <1>0, <1>3 DEF LooksUp
    <2> QED  BY ONLY <1>3, <2>1, ChangeOK(scene, sv, cache, desired, ch), AimedIsSound
  <1>4. CASE Conforms(q, ch, NoId) /\ (ch.op = "create" \/ q.verb = "bad")
    BY ONLY <1>4, ChangeOK(scene, sv, cache, desired, ch), AimedIsSound, GivenUpIsSound
  <1>5. CASE \E x \in sv.items : x.kind = ch.kind /\ x.name = ch.name /\ Conforms(q, ch, x.id)
    <2>1. scene.app \in {"radarr", "readarr"}
      OBVIOUS
    <2> QED  BY ONLY <1>5, <2>1, ServiceOK(sv, scene.kind), ChangeOK(scene, sv, cache, desired,
                ch), FoundIsSound
  <1> QED  BY ONLY <1>1, <1>2, <1>3, <1>4, <1>5

\* Readarr's requests are sound.
LEMMA ReadarrSound ==
    ASSUME scene.app = "readarr", scene.kind \in DOMAIN Readarr!KindRank,
           NEW sv, ServiceOK(sv, scene.kind), NEW cache, NEW desired, NEW ch,
           ChangeOK(scene, sv, cache, desired, ch)
    PROVE  Sound(scene, sv, Readarr!Apply(sv, scene.schema, ch), desired)
  <1> DEFINE q == Readarr!Apply(sv, scene.schema, ch)
  <1>0. /\ ch.kind = scene.kind /\ KnownOp(scene, ch) /\ ch.op \in {"create", "update", "delete"}
        /\ ch.kind \in {"QualityProfile", "RootFolder"} => ch.op = "create"
    BY DEF ChangeOK, KnownOp
  <1>1. \/ ch.op = "create" /\ Conforms(q, ch, NoId)
        \/ ch.op = "update" /\ ch.kind \notin {"DownloadClient", "Indexer"} /\ Conforms(q, ch, ch.id)
        \/ ch.op = "update" /\ q.verb = "none"
        \/ ch.op = "delete" /\ q.verb = "none" /\ \A x \in sv.items : x.kind = ch.kind => x.name # ch.name
        \/ ch.op = "delete" /\ \E x \in sv.items : x.kind = ch.kind /\ x.name = ch.name /\ Conforms(q, ch, x.id)
    BY <1>0, ServiceIsStocked, ReadarrRequest
  <1> SUFFICES Sound(scene, sv, q, desired)
    OBVIOUS
  <1> HIDE DEF q
  <1>2. CASE ch.op = "create" /\ Conforms(q, ch, NoId)
    BY ONLY <1>2, ChangeOK(scene, sv, cache, desired, ch), AimedIsSound
  <1>3. CASE ch.kind \notin {"DownloadClient", "Indexer"} /\ Conforms(q, ch, ch.id)
    <2>1. scene.kind \notin LooksUp(scene)
      BY <1>0, <1>3 DEF LooksUp
    <2> QED  BY ONLY <1>3, <2>1, ChangeOK(scene, sv, cache, desired, ch), AimedIsSound
  <1>4. CASE q.verb = "none"
    BY <1>4, GivenUpIsSound
  <1>5. CASE \E x \in sv.items : x.kind = ch.kind /\ x.name = ch.name /\ Conforms(q, ch, x.id)
    <2>1. scene.app \in {"radarr", "readarr"}
      OBVIOUS
    <2> QED  BY ONLY <1>5, <2>1, ServiceOK(sv, scene.kind), ChangeOK(scene, sv, cache, desired,
                ch), FoundIsSound
  <1> QED  BY ONLY <1>1, <1>2, <1>3, <1>4, <1>5

\* Prowlarr's requests are sound.
LEMMA ProwlarrSound ==
    ASSUME scene.app = "prowlarr", scene.kind \in DOMAIN Prowlarr!KindRank,
           NEW sv, NEW cache, CacheOK(scene, sv, cache), NEW desired, NEW ch,
           ChangeOK(scene, sv, cache, desired, ch)
    PROVE  Sound(scene, sv, Prowlarr!Apply(sv, cache, ch), desired)
  <1> DEFINE q == Prowlarr!Apply(sv, cache, ch)
             id == Prowlarr!IdFor(sv, cache, ch.kind, ch.name)
  <1>0. /\ ch.kind \in DOMAIN Prowlarr!KindRank /\ ch.kind = scene.kind /\ KnownOp(scene, ch) /\ ch.op \in {"create", "update", "delete"}
        /\ scene.kind \in MarkedKinds
        /\ ch.op # "create" => <<ch.kind, ch.name>> \in DOMAIN cache
    BY DEF ChangeOK, KnownOp, Aimed, MarkedKinds, PrefixKinds, Prowlarr!KindRank
  <1>1. \/ ch.op = "create" /\ Posts(q, ch)
        \/ ch.op # "create" /\ q.verb \in {"none", "bad"}
        \/ ch.op # "create" /\ Conforms(q, ch, id)
    BY ONLY <1>0, ProwlarrRequest
  <1> SUFFICES Sound(scene, sv, q, desired)
    OBVIOUS
  <1> HIDE DEF q
  <1>2. CASE ch.op = "create" /\ Posts(q, ch)
    <2>1. Conforms(q, ch, NoId)
      BY <1>2 DEF Conforms
    <2> QED  BY ONLY <1>2, <2>1, ChangeOK(scene, sv, cache, desired, ch), AimedIsSound
  <1>3. CASE q.verb \in {"none", "bad"}
    BY ONLY <1>3, GivenUpIsSound
  <1>4. CASE ch.op # "create" /\ Conforms(q, ch, id)
    <2>0. id = cache[<<ch.kind, ch.name>>]
      BY <1>0, <1>4 DEF Prowlarr!IdFor
    <2>1. \A x \in sv.items : x.id = id => HasTag(x) /\ x.name = ch.name
      BY <1>0, <1>4, <2>0 DEF CacheOK
    <2>2. /\ KnownOp(scene, ch)
          /\ scene.kind \in MarkedKinds =>
                 /\ ch.op # "delete" <=> ch.name \in Names(desired)
                 /\ ch.op # "create" =>
                        \A x \in sv.items : x.id = id =>
                            /\ HasTag(x)
                            /\ IF ch.op = "update" THEN x.name = ch.name ELSE x.name \notin Names(desired)
      BY <1>0, <2>1 DEF ChangeOK
    <2> HIDE DEF id
    <2> QED  BY ONLY <1>4, <2>2, ConformingIsSound
  <1> QED  BY ONLY <1>1, <1>2, <1>3, <1>4

\* The request for a checked change is sound, whichever the adapter.
LEMMA RequestSound ==
    ASSUME scene \in Scenes, NEW sv, ServiceOK(sv, scene.kind), NEW cache, CacheOK(scene, sv, cache),
           NEW desired, NEW ch, ChangeOK(scene, sv, cache, desired, ch)
    PROVE  Sound(scene, sv, AdapterApply(scene.app, sv, scene.schema, cache, ch), desired)
  <1>1. scene.app \in Apps /\ scene.kind \in DOMAIN AdapterKindRank(scene.app)
    BY ScenesAssumption DEF ChangeOK, KnownOp
  <1>2. CASE scene.app = "radarr"
    BY <1>1, <1>2, RadarrSound DEF AdapterKindRank, AdapterApply
  <1>3. CASE scene.app = "sonarr"
    BY <1>1, <1>3, SonarrSound DEF AdapterKindRank, AdapterApply
  <1>4. CASE scene.app = "lidarr"
    BY <1>1, <1>4, LidarrSound DEF AdapterKindRank, AdapterApply
  <1>5. CASE scene.app = "readarr"
    BY <1>1, <1>5, ReadarrSound DEF AdapterKindRank, AdapterApply
  <1>6. CASE scene.app = "prowlarr"
    BY <1>1, <1>6, ProwlarrSound DEF AdapterKindRank, AdapterApply
  <1> QED  BY <1>1, <1>2, <1>3, <1>4, <1>5, <1>6 DEF Apps

\* The direct requests stay in the kind, whichever the adapter.
LEMMA DirectSound ==
    ASSUME scene \in Scenes, scene.app \in DirectAppliers, NEW sv, ServiceOK(sv, scene.kind),
           scene.kind \in DOMAIN DirectOrder, NEW desired, desired \subseteq UNION scene.irs,
           NEW q \in AdapterDirectRequests(scene.app, sv, scene.lists, desired, scene.kind)
    PROVE  RequestOK(q, scene.kind)
  <1>1. /\ \A d \in Of(desired, "ImportList") : DOMAIN d = {"kind", "id", "name", "cfg"}
        /\ Stocked(sv, scene.kind)
    BY ServiceIsStocked, ScenesAssumption DEF Of
  <1>2. CASE scene.app = "radarr"
    BY <1>1, <1>2, RadarrDirect DEF AdapterDirectRequests
  <1>3. CASE scene.app = "sonarr"
    BY <1>1, <1>3, SonarrDirect DEF AdapterDirectRequests
  <1>4. CASE scene.app = "lidarr"
    BY <1>1, <1>4, LidarrDirect DEF AdapterDirectRequests
  <1> QED  BY <1>2, <1>3, <1>4 DEF DirectAppliers

-----------------------------------------------------------------------------
(***************************************************************************)
(* What a step of the service leaves valid of what a pass remembers.       *)
(***************************************************************************)

\* Ids are not used twice; who keeps an id keeps the name and the mark; who
\* gets a new id is the operator's or has none of the names that are taken.
Follows(sv, tv, taken) ==
    /\ sv.next <= tv.next
    /\ \A y \in tv.items :
           \/ \E x \in sv.items : x.id = y.id /\ x.name = y.name /\ (HasTag(x) => HasTag(y))
           \/ y.id >= sv.next /\ (HasTag(y) \/ y.name \notin taken)

\* The names that a user must leave alone while a pass is about to look them up.
Taken == IF scene.app \in {"radarr", "readarr"} THEN Names({ch \in pass.todo : ch.op # "create"}) ELSE {}

\* The cache stays right when the service moves that way.
LEMMA CacheFollows ==
    ASSUME NEW sv, NEW tv, NEW taken, NEW cache, Follows(sv, tv, taken), CacheOK(scene, sv, cache),
           sv.next \in Nat, tv.next \in Nat
    PROVE  CacheOK(scene, tv, cache)
  <1>1. ASSUME NEW k \in DOMAIN cache
        PROVE  /\ cache[k] \in 1 .. tv.next - 1
               /\ \A y \in tv.items : y.id = cache[k] => HasTag(y) /\ k = <<scene.kind, y.name>>
    <2>1. cache[k] \in 1 .. sv.next - 1
      BY DEF CacheOK
    <2>2. \A x \in sv.items : x.id = cache[k] => HasTag(x) /\ k = <<scene.kind, x.name>>
      BY DEF CacheOK
    <2>3. ASSUME NEW y \in tv.items, y.id = cache[k]
          PROVE  HasTag(y) /\ k = <<scene.kind, y.name>>
      <3>1. PICK x \in sv.items : x.id = y.id /\ x.name = y.name /\ (HasTag(x) => HasTag(y))
        BY <2>1, <2>3 DEF Follows
      <3> QED  BY <2>2, <2>3, <3>1
    <2> QED  BY <2>1, <2>3 DEF Follows
  <1> QED  BY <1>1 DEF CacheOK

\* A change still leads to a resource of the operator.
LEMMA AimedFollows ==
    ASSUME NEW sv, NEW tv, NEW taken, NEW cache, NEW desired, NEW ch,
           Follows(sv, tv, taken), Aimed(scene, sv, cache, desired, ch), sv.next \in Nat, tv.next \in Nat,
           scene.app \in {"radarr", "readarr"} => ch.name \in taken
    PROVE  Aimed(scene, tv, cache, desired, ch)
  <1>1. ASSUME scene.kind \notin LooksUp(scene)
        PROVE  /\ ch.id \in Nat /\ ch.id < tv.next
               /\ \A y \in tv.items : y.id = ch.id =>
                      /\ HasTag(y)
                      /\ IF ch.op = "update" THEN y.name = ch.name ELSE y.name \notin Names(desired)
    <2>1. ch.id \in Nat /\ ch.id < sv.next
      BY <1>1 DEF Aimed
    <2>2. ASSUME NEW y \in tv.items, y.id = ch.id
          PROVE  /\ HasTag(y)
                 /\ IF ch.op = "update" THEN y.name = ch.name ELSE y.name \notin Names(desired)
      <3>1. PICK x \in sv.items : x.id = y.id /\ x.name = y.name /\ (HasTag(x) => HasTag(y))
        BY <2>1, <2>2 DEF Follows
      <3> QED  BY <1>1, <2>2, <3>1 DEF Aimed
    <2> QED  BY <2>1, <2>2 DEF Follows
  <1>2. ASSUME scene.app \in {"radarr", "readarr"}
        PROVE  \A y \in tv.items : y.name = ch.name => HasTag(y)
    BY <1>2 DEF Follows, Aimed
  <1> QED  BY <1>1, <1>2 DEF Aimed

\* A checked change stays one.
LEMMA ChangeFollows ==
    ASSUME NEW sv, NEW tv, NEW taken, NEW cache, NEW desired, NEW ch,
           Follows(sv, tv, taken), ChangeOK(scene, sv, cache, desired, ch), sv.next \in Nat, tv.next \in Nat,
           scene.app \in {"radarr", "readarr"} /\ ch.op # "create" => ch.name \in taken
    PROVE  ChangeOK(scene, tv, cache, desired, ch)
  <1>1. ASSUME scene.kind \in MarkedKinds, ch.op # "create" PROVE Aimed(scene, tv, cache, desired, ch)
    <2>1. Aimed(scene, sv, cache, desired, ch)
      BY <1>1 DEF ChangeOK
    <2> QED  BY <1>1, <2>1, AimedFollows
  <1> QED  BY <1>1 DEF ChangeOK

\* A fair request that the service accepts.
LEMMA ServeFollows ==
    ASSUME NEW sv, NEW kind, NEW q, NEW desired, NEW taken,
           ServiceOK(sv, kind), RequestOK(q, kind), Accepts(sv, q), Fair(sv, q, desired)
    PROVE  Follows(sv, Serve(sv, q), taken)
  <1> DEFINE tv == Serve(sv, q)
  <1>0. /\ DOMAIN tv = {"tag", "items", "next"} /\ tv.tag = sv.tag
        /\ q.verb = "POST" => tv.items = sv.items \cup {NewItem(q, sv.next)} /\ tv.next = sv.next + 1
        /\ q.verb = "PUT" => tv.items = OtherItems(sv, q) \cup {NewItem(q, q.id)} /\ tv.next = sv.next
        /\ q.verb = "DELETE" => tv.items = OtherItems(sv, q) /\ tv.next = sv.next
        /\ q.verb \in {"none", "bad"} => tv = sv
    BY ServedRequest
  <1> SUFFICES Follows(sv, tv, taken)
    OBVIOUS
  <1> HIDE DEF tv
  <1>1. sv.next \in Nat /\ OtherItems(sv, q) \subseteq sv.items
    BY DEF ServiceOK, OtherItems
  <1>2. CASE q.verb = "POST"
    BY <1>0, <1>1, <1>2 DEF Follows, Fair, NewItem, HasTag
  <1>3. CASE q.verb = "PUT"
    <2>1. PICK o \in sv.items : o.id = q.id
      BY <1>3 DEF Accepts, Get
    <2>2. HasTag(o) /\ o.name = q.name /\ q.ours
      BY <1>3, <2>1 DEF Fair
    <2> QED  BY <1>0, <1>1, <1>3, <2>1, <2>2 DEF Follows, NewItem, HasTag
  <1>4. CASE q.verb \in {"DELETE", "none", "bad"}
    BY <1>0, <1>1, <1>4 DEF Follows
  <1> QED  BY <1>2, <1>3, <1>4 DEF RequestOK

-----------------------------------------------------------------------------
(***************************************************************************)
(* A plan consists of changes that pass ChangeOK.                          *)
(***************************************************************************)
ByName == {"DownloadClient", "Indexer", "RemotePathMapping", "Notification", "CustomFormat",
           "DelayProfile", "MetadataProfile", "IndexerProxy", "Application"}

\* What was read of the kind is there, with its id where changes carry ids.
ReadBack(sv, current, kind, by) ==
    \A c \in current : c.kind = kind => \E x \in sv.items : Mirror(c, x) /\ (by = "id" => c.id = x.id)

\* Prowlarr: what was read is cached, and deletions of one name are one.
Remembered(sc, cache, current, ch) ==
    sc.app = "prowlarr" =>
        /\ \A c \in current : <<c.kind, c.name>> \in DOMAIN cache
        /\ ch.op = "delete" => ch = [op |-> "delete", kind |-> ch.kind, id |-> NoId,
                                     name |-> ch.name, cfg |-> NoCfg]

\* A change of a diff by name passes ChangeOK.
LEMMA PlannedIsOK ==
    ASSUME scene \in Scenes, NEW sv, ServiceOK(sv, scene.kind), NEW cache,
           NEW desired, desired \subseteq UNION scene.irs, NEW current, NEW ch, NEW by,
           NEW kind \in ByName, Planned(ch, kind, current, desired, by),
           ReadBack(sv, current, kind, by), scene.kind \in LooksUp(scene) \/ by = "id",
           Remembered(scene, cache, current, ch)
    PROVE  ChangeOK(scene, sv, cache, desired, ch)
  <1>1. \A d \in desired : d.kind = scene.kind
    BY ScenesAssumption
  <1>2. /\ kind \notin DOMAIN DirectOrder
        /\ kind \notin {"NamingConfig", "RootFolder", "QualityProfile"}
    BY DEF ByName, DirectOrder
  <1>3. ch.kind = kind /\ ch.op \in {"create", "update", "delete"}
    BY DEF Planned
  <1>4. CASE ch.op = "create"
    <2>1. PICK d \in desired : d.kind = kind /\ d.name = ch.name
      BY <1>4 DEF Planned
    <2> QED  BY <1>1, <1>2, <1>3, <1>4, <2>1 DEF ChangeOK, KnownOp, Names
  <1>5. CASE ch.op \in {"update", "delete"}
    <2>1. PICK c \in current : c.kind = kind /\ c.name = ch.name /\ (by = "id" => ch.id = c.id)
      BY <1>5 DEF Planned
    <2>2. PICK x \in sv.items : Mirror(c, x) /\ (by = "id" => c.id = x.id)
      BY <2>1 DEF ReadBack
    <2>3. /\ x.kind = kind /\ kind = scene.kind /\ x.name = ch.name
          /\ kind \in MarkedKinds => HasTag(x)
          /\ x.id \in 1 .. sv.next - 1 /\ sv.next \in Nat
          /\ \A y \in sv.items : y.id = x.id \/ y.name = x.name => y = x
      BY <2>1, <2>2 DEF Mirror, ServiceOK
    <2>4. ch.op # "delete" <=> ch.name \in Names(desired)
      BY <1>1, <1>5, <2>3 DEF Planned, Names
    <2>5. KnownOp(scene, ch)
      BY <1>2, <1>3, <2>3 DEF KnownOp
    <2>6. ASSUME kind \in MarkedKinds PROVE Aimed(scene, sv, cache, desired, ch)
      <3>1. ASSUME scene.kind \notin LooksUp(scene)
            PROVE  /\ ch.id \in Nat /\ ch.id < sv.next
                   /\ \A y \in sv.items : y.id = ch.id =>
                          /\ HasTag(y)
                          /\ IF ch.op = "update" THEN y.name = ch.name ELSE y.name \notin Names(desired)
        BY <1>5, <2>1, <2>2, <2>3, <2>4, <2>6, <3>1
      <3>2. \A y \in sv.items : y.name = ch.name => HasTag(y)
        BY <2>3, <2>6
      <3>3. scene.app = "prowlarr" => <<scene.kind, ch.name>> \in DOMAIN cache
        BY <2>1, <2>3 DEF Remembered
      <3>4. scene.app = "prowlarr" =>
               (ch.op = "delete" => ch = [op |-> "delete", kind |-> scene.kind, id |-> NoId,
                                          name |-> ch.name, cfg |-> NoCfg])
        BY <1>3, <2>3 DEF Remembered
      <3> QED  BY <3>1, <3>2, <3>3, <3>4 DEF Aimed
    <2> QED  BY <2>3, <2>4, <2>5, <2>6 DEF ChangeOK
  <1> QED  BY <1>3, <1>4, <1>5

\* So do the creation of a profile or a root folder and the update of the naming
\* settings.
LEMMA PlannedOthersAreOK ==
    ASSUME scene \in Scenes, NEW sv, NEW cache, NEW desired, desired \subseteq UNION scene.irs,
           NEW current, NEW ch,
           \/ ch.op = "create" /\ PlannedProfile(ch, current, desired, NoId)
           \/ PlannedNaming(ch, desired) \/ PlannedFolder(ch, current, desired)
    PROVE  ChangeOK(scene, sv, cache, desired, ch)
  <1>1. PICK d \in desired : d.kind = ch.kind /\ (ch.op = "create" => d.name = ch.name)
    BY DEF PlannedProfile, PlannedNaming, PlannedFolder, Planned
  <1>2. ch.kind = scene.kind
    BY <1>1, ScenesAssumption
  <1>3. \/ ch.op = "create" /\ ch.kind \in {"QualityProfile", "RootFolder"}
        \/ ch.op = "update" /\ ch.kind = "NamingConfig"
    BY DEF PlannedProfile, PlannedNaming, PlannedFolder, Planned
  <1>4. ch.op = "create" => ch.name \in Names(desired)
    BY <1>1 DEF Names
  <1> QED  BY <1>2, <1>3, <1>4 DEF ChangeOK, KnownOp, DirectOrder, MarkedKinds, PrefixKinds

\* The managed profiles that a list holds are one.
LEMMA OneProfile ==
    ASSUME scene \in Scenes, NEW sv, NEW cache, HeldOK(scene, sv, cache),
           scene.kind = "QualityProfile", NEW have, have # {}, \A c \in have : Listed(sv, c)
    PROVE  /\ First(have) \in have /\ Last(have) \in have
           /\ \E x \in sv.items : HasTag(x) /\ \A c \in have : c.id = x.id /\ c.name = x.name
  <1>1. PICK c \in have : TRUE
    OBVIOUS
  <1>2. PICK x \in sv.items : Mirror(c, x) /\ c.id = x.id
    BY <1>1 DEF Listed
  <1>3. x.kind = scene.kind /\ scene.kind \in MarkedKinds /\ x.id \in Nat
    BY DEF HeldOK, ServiceOK, MarkedKinds, PrefixKinds
  <1>4. HasTag(x) /\ x.name \in Names(UNION scene.irs)
    BY <1>2, <1>3 DEF Mirror, HeldOK
  <1>5. ASSUME NEW e \in have PROVE e.id = x.id /\ e.name = x.name
    <2>1. PICK y \in sv.items : Mirror(e, y) /\ e.id = y.id
      BY DEF Listed
    <2>2. HasTag(y) /\ y.name \in Names(UNION scene.irs)
      BY <1>3, <2>1 DEF Mirror, HeldOK, ServiceOK
    <2>3. y.name = x.name
      BY <1>4, <2>2, ScenesAssumption DEF Names
    <2>4. y = x
      BY <2>3 DEF HeldOK, ServiceOK
    <2> QED  BY <2>1, <2>4 DEF Mirror
  <1>6. c \in have /\ c.id \in Nat /\ \A e \in have : e.id = c.id
    BY <1>1, <1>2, <1>3, <1>5
  <1>7. First(have) \in have /\ Last(have) \in have
    BY ONLY <1>6, OnlyOne
  <1> QED  BY <1>4, <1>5, <1>7

\* The id for the deletion of a profile is that of the profile that was read.
LEMMA PlannedProfileIsOK ==
    ASSUME scene \in Scenes, scene.app \in {"sonarr", "lidarr"}, NEW sv, NEW cache,
           HeldOK(scene, sv, cache), NEW desired, desired \subseteq UNION scene.irs,
           NEW current, \A c \in current : Listed(sv, c),
           NEW ch, NEW id, PlannedProfile(ch, current, desired, id),
           Of(current, "QualityProfile") # {} => id = Last(Of(current, "QualityProfile")).id
    PROVE  ChangeOK(scene, sv, cache, desired, ch)
  <1> DEFINE have == Of(current, "QualityProfile")
  <1>1. CASE ch.op = "create"
    <2>1. PlannedProfile(ch, current, desired, NoId)
      BY <1>1 DEF PlannedProfile
    <2> QED  BY <1>1, <2>1, PlannedOthersAreOK
  <1>2. CASE ch.op = "delete"
    <2>1. /\ have # {} /\ ch.kind = First(have).kind /\ ch.name = First(have).name
          /\ ch.id = Last(have).id /\ \A d \in desired : d.kind # "QualityProfile"
      BY <1>2 DEF PlannedProfile
    <2>2. \A c \in have : c \in current /\ c.kind = "QualityProfile" /\ Listed(sv, c)
      BY DEF Of
    <2>3. scene.kind = "QualityProfile"
      <3>1. PICK c \in have : TRUE
        BY <2>1
      <3> QED  BY <2>2, <3>1 DEF Listed, Mirror, HeldOK, ServiceOK
    <2>4. desired = {}
      BY <2>1, <2>3, ScenesAssumption
    <2> HIDE DEF have
    <2>5. PICK x \in sv.items :
             /\ First(have) \in have /\ Last(have) \in have
             /\ HasTag(x) /\ \A c \in have : c.id = x.id /\ c.name = x.name
      BY <2>1, <2>2, <2>3, OneProfile
    <2>6. ch.kind = "QualityProfile" /\ ch.id = x.id /\ x.name = ch.name
      BY <2>1, <2>2, <2>5
    <2>7. x.id \in Nat /\ x.id < sv.next /\ \A y \in sv.items : y.id = x.id => y = x
      BY DEF HeldOK, ServiceOK
    <2>8. Names(desired) = {}
      BY <2>4 DEF Names
    <2>9. Aimed(scene, sv, cache, desired, ch)
      BY <1>2, <2>5, <2>6, <2>7, <2>8 DEF Aimed, LooksUp
    <2>10. KnownOp(scene, ch)
      BY <1>2, <2>3, <2>6 DEF KnownOp, DirectOrder
    <2> QED  BY <1>2, <2>8, <2>9, <2>10 DEF ChangeOK
  <1> QED  BY <1>1, <1>2 DEF PlannedProfile

\* The cache after a list, a create or an update.
LEMMA CachedOK ==
    ASSUME scene.app = "prowlarr", NEW sv, NEW cache, CacheOK(scene, sv, cache), NEW listed,
           \A c \in listed :
               /\ c.kind = scene.kind /\ c.id \in 1 .. sv.next - 1
               /\ \A x \in sv.items : x.id = c.id => HasTag(x) /\ x.name = c.name
    PROVE  /\ CacheOK(scene, sv, Prowlarr!cached(cache, listed))
           /\ DOMAIN cache \subseteq DOMAIN Prowlarr!cached(cache, listed)
           /\ \A c \in listed : <<c.kind, c.name>> \in DOMAIN Prowlarr!cached(cache, listed)
  <1> DEFINE keys == {<<c.kind, c.name>> : c \in listed}
             pick(k) == CHOOSE c \in listed : <<c.kind, c.name>> = k
             new == Prowlarr!cached(cache, listed)
  <1>1. new = [k \in DOMAIN cache \cup keys |-> IF k \in keys THEN pick(k).id ELSE cache[k]]
    BY DEF Prowlarr!cached
  <1>2. \A k \in keys : pick(k) \in listed /\ <<pick(k).kind, pick(k).name>> = k
    <2>1. \A k \in keys : \E c \in listed : <<c.kind, c.name>> = k
      OBVIOUS
    <2> QED  BY <2>1, Zenon
  <1> HIDE DEF pick, keys, new
  <1>3. ASSUME NEW k \in DOMAIN new
        PROVE  /\ new[k] \in 1 .. sv.next - 1
               /\ \A x \in sv.items : x.id = new[k] => HasTag(x) /\ k = <<scene.kind, x.name>>
    <2>1. CASE k \in keys
      <3>1. new[k] = pick(k).id
        BY <1>1, <2>1
      <3>2. pick(k) \in listed /\ <<pick(k).kind, pick(k).name>> = k
        BY <1>2, <2>1
      <3>3. pick(k).kind = scene.kind /\ pick(k).id \in 1 .. sv.next - 1
        BY <3>2
      <3>4. \A x \in sv.items : x.id = pick(k).id => HasTag(x) /\ x.name = pick(k).name
        BY <3>2
      <3> QED  BY <3>1, <3>2, <3>3, <3>4
    <2>2. CASE k \notin keys
      <3>1. k \in DOMAIN cache /\ new[k] = cache[k]
        BY <1>1, <2>2
      <3> QED  BY <3>1 DEF CacheOK
    <2> QED  BY <2>1, <2>2
  <1>4. CacheOK(scene, sv, new)
    BY <1>3 DEF CacheOK
  <1>5. DOMAIN new = DOMAIN cache \cup keys
    BY <1>1
  <1> QED  BY <1>4, <1>5 DEF new, keys

\* The adapters' own copies of First and Last.
LEMMA ManagedId ==
    ASSUME NEW current, NEW ids, Of(current, "QualityProfile") # {}
    PROVE  /\ GlobalsAfter("sonarr", current, ids).profile = Last(Of(current, "QualityProfile")).id
           /\ GlobalsAfter("lidarr", current, ids).profile = Last(Of(current, "QualityProfile")).id
  BY DEF GlobalsAfter, Of, Last, Sonarr!managedProfileID, Sonarr!Last, Lidarr!managedProfileID,
         Lidarr!Sonarr!managedProfileID, Lidarr!Sonarr!Last

\* Every change that Sonarr plans passes ChangeOK.
LEMMA SonarrPlanOK ==
    ASSUME scene \in Scenes, scene.app = "sonarr", NEW sv, NEW cache, HeldOK(scene, sv, cache),
           NEW schema, NEW tag, NEW blind, NEW desired, desired \subseteq UNION scene.irs,
           NEW current, current = Sonarr!CurrentState(sv, schema, tag, blind),
           NEW ids, NEW ch \in Sonarr!Diff(current, desired, GlobalsAfter("sonarr", current, ids))
    PROVE  ChangeOK(scene, sv, cache, desired, ch)
  <1> DEFINE after == GlobalsAfter("sonarr", current, ids)
  <1>1. \A c \in current : Listed(sv, c)
    BY SonarrLists
  <1>2. Of(current, "QualityProfile") # {} => after.profile = Last(Of(current, "QualityProfile")).id
    BY ManagedId
  <1>3. \/ PlannedProfile(ch, current, desired, after.profile)
        \/ PlannedNaming(ch, desired) \/ PlannedFolder(ch, current, desired)
        \/ \E kind \in {"DownloadClient", "Indexer", "RemotePathMapping", "Notification",
                        "CustomFormat", "DelayProfile"} :
               Planned(ch, kind, current, desired, "id")
    BY SonarrPlans
  <1> HIDE DEF after
  <1>4. CASE PlannedProfile(ch, current, desired, after.profile)
    <2>1. scene.app \in {"sonarr", "lidarr"}
      OBVIOUS
    <2> QED  BY ONLY <1>1, <1>2, <1>4, <2>1, scene \in Scenes, HeldOK(scene, sv, cache),
                     desired \subseteq UNION scene.irs, PlannedProfileIsOK
  <1>5. CASE PlannedNaming(ch, desired) \/ PlannedFolder(ch, current, desired)
    BY ONLY <1>5, scene \in Scenes, desired \subseteq UNION scene.irs, PlannedOthersAreOK
  <1>6. ASSUME NEW kind \in ByName, Planned(ch, kind, current, desired, "id")
        PROVE  ChangeOK(scene, sv, cache, desired, ch)
    <2>1. /\ ReadBack(sv, current, kind, "id") /\ Remembered(scene, cache, current, ch)
          /\ ServiceOK(sv, scene.kind)
      BY <1>1, <1>6 DEF ReadBack, Remembered, Listed, HeldOK
    <2> QED  BY ONLY <1>6, <2>1, scene \in Scenes, desired \subseteq UNION scene.irs, PlannedIsOK
  <1> QED  BY ONLY <1>3, <1>4, <1>5, <1>6 DEF ByName

\* Every change that Lidarr plans passes ChangeOK.
LEMMA LidarrPlanOK ==
    ASSUME scene \in Scenes, scene.app = "lidarr", NEW sv, NEW cache, HeldOK(scene, sv, cache),
           NEW schema, NEW tag, NEW blind, NEW desired, desired \subseteq UNION scene.irs,
           NEW current, current = Lidarr!CurrentState(sv, schema, tag, blind),
           NEW ids, NEW ch \in Lidarr!Diff(current, desired, GlobalsAfter("lidarr", current, ids))
    PROVE  ChangeOK(scene, sv, cache, desired, ch)
  <1> DEFINE after == GlobalsAfter("lidarr", current, ids)
  <1>1. \A c \in current : Listed(sv, c)
    BY LidarrLists
  <1>2. Of(current, "QualityProfile") # {} => after.profile = Last(Of(current, "QualityProfile")).id
    BY ManagedId
  <1>3. \/ PlannedProfile(ch, current, desired, after.profile)
        \/ PlannedNaming(ch, desired) \/ PlannedFolder(ch, current, desired)
        \/ \E kind \in {"DownloadClient", "Indexer", "RemotePathMapping", "Notification",
                        "CustomFormat", "DelayProfile"} :
               Planned(ch, kind, current, desired, "id")
    BY LidarrPlans
  <1> HIDE DEF after
  <1>4. CASE PlannedProfile(ch, current, desired, after.profile)
    <2>1. scene.app \in {"sonarr", "lidarr"}
      OBVIOUS
    <2> QED  BY ONLY <1>1, <1>2, <1>4, <2>1, scene \in Scenes, HeldOK(scene, sv, cache),
                     desired \subseteq UNION scene.irs, PlannedProfileIsOK
  <1>5. CASE PlannedNaming(ch, desired) \/ PlannedFolder(ch, current, desired)
    BY ONLY <1>5, scene \in Scenes, desired \subseteq UNION scene.irs, PlannedOthersAreOK
  <1>6. ASSUME NEW kind \in ByName, Planned(ch, kind, current, desired, "id")
        PROVE  ChangeOK(scene, sv, cache, desired, ch)
    <2>1. /\ ReadBack(sv, current, kind, "id") /\ Remembered(scene, cache, current, ch)
          /\ ServiceOK(sv, scene.kind)
      BY <1>1, <1>6 DEF ReadBack, Remembered, Listed, HeldOK
    <2> QED  BY ONLY <1>6, <2>1, scene \in Scenes, desired \subseteq UNION scene.irs, PlannedIsOK
  <1> QED  BY ONLY <1>3, <1>4, <1>5, <1>6 DEF ByName

\* Every change that Radarr plans passes ChangeOK.
LEMMA RadarrPlanOK ==
    ASSUME scene \in Scenes, scene.app = "radarr", NEW sv, NEW cache, HeldOK(scene, sv, cache),
           NEW schema, NEW tag, NEW blind, NEW desired, desired \subseteq UNION scene.irs,
           NEW current, current = Radarr!CurrentState(sv, schema, tag, blind),
           NEW ch \in Radarr!Diff(current, desired)
    PROVE  ChangeOK(scene, sv, cache, desired, ch)
  <1>1. \A c \in current : Listed(sv, c)
    BY RadarrLists
  <1>3. \/ ch.op = "create" /\ PlannedProfile(ch, current, desired, NoId)
        \/ PlannedNaming(ch, desired) \/ PlannedFolder(ch, current, desired)
        \/ \E kind \in {"RemotePathMapping", "Notification", "DelayProfile"} :
               Planned(ch, kind, current, desired, "id")
        \/ \E kind \in {"CustomFormat", "DownloadClient", "Indexer"} :
               Planned(ch, kind, current, desired, "name")
    BY RadarrPlans
  <1>4. CASE \/ ch.op = "create" /\ PlannedProfile(ch, current, desired, NoId)
             \/ PlannedNaming(ch, desired) \/ PlannedFolder(ch, current, desired)
    BY ONLY <1>4, scene \in Scenes, desired \subseteq UNION scene.irs, PlannedOthersAreOK
  <1>5. ASSUME NEW kind \in {"RemotePathMapping", "Notification", "DelayProfile"},
               Planned(ch, kind, current, desired, "id")
        PROVE  ChangeOK(scene, sv, cache, desired, ch)
    <2>1. /\ ReadBack(sv, current, kind, "id") /\ Remembered(scene, cache, current, ch)
          /\ ServiceOK(sv, scene.kind) /\ kind \in ByName
      BY <1>1, <1>5 DEF ReadBack, Remembered, Listed, HeldOK, ByName
    <2> QED  BY ONLY <1>5, <2>1, scene \in Scenes, desired \subseteq UNION scene.irs, PlannedIsOK
  <1>6. ASSUME NEW kind \in {"CustomFormat", "DownloadClient", "Indexer"},
               Planned(ch, kind, current, desired, "name")
        PROVE  ChangeOK(scene, sv, cache, desired, ch)
    <2>1. /\ ReadBack(sv, current, kind, "name") /\ Remembered(scene, cache, current, ch)
          /\ ServiceOK(sv, scene.kind) /\ kind \in ByName
      BY <1>1 DEF ReadBack, Remembered, Listed, HeldOK, ByName
    <2>2. scene.kind = kind
      <3>1. \/ \E d \in desired : d.kind = kind
            \/ \E c \in current : c.kind = kind
        BY <1>6 DEF Planned
      <3> QED  BY <2>1, <3>1, ScenesAssumption DEF ReadBack, Mirror, ServiceOK
    <2>3. scene.kind \in LooksUp(scene)
      BY <2>2 DEF LooksUp
    <2> QED  BY ONLY <1>6, <2>1, <2>3, scene \in Scenes, desired \subseteq UNION scene.irs,
                PlannedIsOK
  <1> QED  BY ONLY <1>3, <1>4, <1>5, <1>6

\* Every change that Readarr plans passes ChangeOK.
LEMMA ReadarrPlanOK ==
    ASSUME scene \in Scenes, scene.app = "readarr", NEW sv, NEW cache, HeldOK(scene, sv, cache),
           NEW tag, NEW blind, NEW desired, desired \subseteq UNION scene.irs,
           NEW current, current = Readarr!CurrentState(sv, tag, blind),
           NEW ch \in Readarr!Diff(current, desired)
    PROVE  ChangeOK(scene, sv, cache, desired, ch)
  <1>1. \A c \in current : /\ \E x \in sv.items : Mirror(c, x)
                           /\ c.kind \in PrefixKinds => Listed(sv, c)
    BY ReadarrLists
  <1>3. \/ ch.op = "create" /\ PlannedProfile(ch, current, desired, NoId)
        \/ PlannedFolder(ch, current, desired)
        \/ Planned(ch, "MetadataProfile", current, desired, "id")
        \/ \E kind \in {"DownloadClient", "Indexer"} : Planned(ch, kind, current, desired, "name")
    BY ReadarrPlans
  <1>4. CASE \/ ch.op = "create" /\ PlannedProfile(ch, current, desired, NoId)
             \/ PlannedFolder(ch, current, desired)
    BY ONLY <1>4, scene \in Scenes, desired \subseteq UNION scene.irs, PlannedOthersAreOK
  <1>5. CASE Planned(ch, "MetadataProfile", current, desired, "id")
    <2>1. /\ ReadBack(sv, current, "MetadataProfile", "id") /\ Remembered(scene, cache, current, ch)
          /\ ServiceOK(sv, scene.kind) /\ "MetadataProfile" \in ByName
      BY <1>1, <1>5 DEF ReadBack, Remembered, Listed, HeldOK, ByName, PrefixKinds
    <2> QED  BY ONLY <1>5, <2>1, scene \in Scenes, desired \subseteq UNION scene.irs, PlannedIsOK
  <1>6. ASSUME NEW kind \in {"DownloadClient", "Indexer"}, Planned(ch, kind, current, desired, "name")
        PROVE  ChangeOK(scene, sv, cache, desired, ch)
    <2>1. /\ ReadBack(sv, current, kind, "name") /\ Remembered(scene, cache, current, ch)
          /\ ServiceOK(sv, scene.kind) /\ kind \in ByName
      BY <1>1 DEF ReadBack, Remembered, HeldOK, ByName
    <2>2. scene.kind = kind
      <3>1. \/ \E d \in desired : d.kind = kind
            \/ \E c \in current : c.kind = kind
        BY <1>6 DEF Planned
      <3> QED  BY <2>1, <3>1, ScenesAssumption DEF ReadBack, Mirror, ServiceOK
    <2>3. scene.kind \in LooksUp(scene)
      BY <2>2 DEF LooksUp
    <2> QED  BY ONLY <1>6, <2>1, <2>3, scene \in Scenes, desired \subseteq UNION scene.irs,
                PlannedIsOK
  <1> QED  BY ONLY <1>3, <1>4, <1>5, <1>6

\* Every change that Prowlarr plans passes ChangeOK, against the cache it filled.
LEMMA ProwlarrPlanOK ==
    ASSUME scene \in Scenes, scene.app = "prowlarr", NEW sv, NEW cache, HeldOK(scene, sv, cache),
           NEW tag, NEW blind, NEW desired, desired \subseteq UNION scene.irs, NEW absent,
           NEW current, current = Prowlarr!CurrentState(sv, tag, blind)
    PROVE  /\ CacheOK(scene, sv, Prowlarr!cached(cache, current))
           /\ \A ch \in Prowlarr!Diff(current, desired, absent) :
                  ChangeOK(scene, sv, Prowlarr!cached(cache, current), desired, ch)
  <1> DEFINE new == Prowlarr!cached(cache, current)
  <1>1. \A c \in current : Listed(sv, c)
    BY ProwlarrLists
  <1>2. scene.kind \in {"Indexer", "IndexerProxy", "Application", "DownloadClient"}
    BY ScenesAssumption DEF AdapterKindRank, Prowlarr!KindRank, DirectAppliers
  <1>3. \A c \in current :
            /\ c.kind = scene.kind /\ c.id \in 1 .. sv.next - 1
            /\ \A x \in sv.items : x.id = c.id => HasTag(x) /\ x.name = c.name
    <2> TAKE c \in current
    <2>1. PICK x \in sv.items : Mirror(c, x) /\ c.id = x.id
      BY <1>1 DEF Listed
    <2>2. /\ x.kind = scene.kind /\ x.id \in 1 .. sv.next - 1
          /\ \A y \in sv.items : y.id = x.id => y = x
      BY DEF HeldOK, ServiceOK
    <2> QED  BY <1>2, <2>1, <2>2 DEF Mirror, MarkedKinds
  <1>4. CacheOK(scene, sv, new) /\ \A c \in current : <<c.kind, c.name>> \in DOMAIN new
    <2>1. CacheOK(scene, sv, cache)
      BY DEF HeldOK
    <2> QED  BY ONLY <1>3, <2>1, scene.app = "prowlarr", CachedOK
  <1> HIDE DEF new
  <1>5. ASSUME NEW ch \in Prowlarr!Diff(current, desired, absent)
        PROVE  ChangeOK(scene, sv, new, desired, ch)
    <2>1. PICK kind \in {"Indexer", "IndexerProxy", "Application", "DownloadClient"} :
             /\ Planned(ch, kind, current, desired, "name")
             /\ ch.op = "delete" => ch = [op |-> "delete", kind |-> kind, id |-> NoId,
                                          name |-> ch.name, cfg |-> NoCfg]
      BY ONLY ch \in Prowlarr!Diff(current, desired, absent), ProwlarrPlans
    <2>2. /\ ReadBack(sv, current, kind, "name")
          /\ ServiceOK(sv, scene.kind) /\ kind \in ByName /\ scene.kind \in LooksUp(scene)
      BY <1>1, <1>2, <2>1 DEF ReadBack, Listed, HeldOK, ByName, LooksUp
    <2>3. Remembered(scene, new, current, ch)
      BY <1>4, <2>1 DEF Remembered, Planned
    <2> QED  BY ONLY <2>1, <2>2, <2>3, scene \in Scenes, desired \subseteq UNION scene.irs,
                PlannedIsOK
  <1> QED  BY <1>4, <1>5 DEF new

\* What Read plans, and what it caches.
LEMMA PlanOK ==
    ASSUME scene \in Scenes, NEW sv, NEW cache, HeldOK(scene, sv, cache), NEW tag, NEW blind,
           NEW desired, desired \subseteq UNION scene.irs, NEW ids, NEW cleanup,
           NEW current, current = AdapterCurrentState(scene.app, sv, scene.schema, tag, blind),
           NEW new, new = IF scene.app = "prowlarr" THEN Prowlarr!cached(cache, current) ELSE cache
    PROVE  /\ HeldOK(scene, sv, new)
           /\ \A ch \in AdapterDiff(scene.app, current, desired,
                                    GlobalsAfter(scene.app, current, ids), cleanup) :
                  ChangeOK(scene, sv, new, desired, ch)
  <1>1. scene.app \in Apps
    BY ScenesAssumption
  <1>2. CASE scene.app = "radarr"
    BY <1>2, RadarrPlanOK DEF AdapterCurrentState, AdapterDiff
  <1>3. CASE scene.app = "sonarr"
    BY <1>3, SonarrPlanOK DEF AdapterCurrentState, AdapterDiff
  <1>4. CASE scene.app = "lidarr"
    BY <1>4, LidarrPlanOK DEF AdapterCurrentState, AdapterDiff
  <1>5. CASE scene.app = "readarr"
    BY <1>5, ReadarrPlanOK DEF AdapterCurrentState, AdapterDiff
  <1>6. CASE scene.app = "prowlarr"
    BY <1>6, ProwlarrPlanOK DEF AdapterCurrentState, AdapterDiff, HeldOK
  <1> QED  BY <1>1, <1>2, <1>3, <1>4, <1>5, <1>6 DEF Apps

\* Sonarr's and Lidarr's profile diff deletes the profile that was read, by the
\* id that the list left in the package-level variable.
LEMMA ProfileDropped ==
    ASSUME NEW current, NEW ids, Of(current, "QualityProfile") # {}, ids.profile # NoId
    PROVE  LET first == First(Of(current, "QualityProfile"))
           IN  /\ Change("delete", first, ids.profile) \in Sonarr!Diff(current, {}, ids)
               /\ Change("delete", first, ids.profile) \in Lidarr!Diff(current, {}, ids)
  <1> DEFINE have == Of(current, "QualityProfile")
             ch == Change("delete", First(have), ids.profile)
  <1>1. Of({}, "QualityProfile") = {}
    BY DEF Of
  <1>2. ch \in Sonarr!diffQualityProfiles(current, {}, ids)
    <2>1. /\ Sonarr!Of(current, "QualityProfile") = have /\ Sonarr!Of({}, "QualityProfile") = {}
          /\ Sonarr!Change("delete", First(have), ids.profile) = ch
          /\ Sonarr!First(have) = First(have) /\ Sonarr!NoId = NoId
      BY
      DEF Sonarr!Of, Of, Sonarr!Change, Change, Sonarr!First, First, Sonarr!NoId, NoId,
          Sonarr!NoCfg, NoCfg
    <2> HIDE DEF have, ch
    <2> QED  BY <2>1 DEF Sonarr!diffQualityProfiles, Sonarr!DiffVideoQualityProfiles, have
  <1>3. ch \in Lidarr!diffQualityProfiles(current, {}, ids)
    <2>1. /\ Lidarr!Of(current, "QualityProfile") = have /\ Lidarr!Of({}, "QualityProfile") = {}
          /\ Lidarr!Change("delete", First(have), ids.profile) = ch
          /\ Lidarr!First(have) = First(have) /\ Lidarr!NoId = NoId
      BY
      DEF Lidarr!Of, Of, Lidarr!Change, Change, Lidarr!First, First, Lidarr!NoId, NoId,
          Lidarr!NoCfg, NoCfg
    <2> HIDE DEF have, ch
    <2> QED  BY <2>1 DEF Lidarr!diffQualityProfiles, Lidarr!DiffAudioQualityProfiles,
                         Lidarr!DiffVideoQualityProfiles, have
  <1> HIDE DEF ch
  <1> QED  BY <1>2, <1>3 DEF Sonarr!Diff, Lidarr!Diff, ch

\* The change that deletes x.
Drops(sc, ch, x) ==
    ch.op = "delete" /\ ch.name = x.name /\ (sc.kind \notin LooksUp(sc) => ch.id = x.id)

\* The deletion of a profile carries the id of the one that the operator owns.
LEMMA ProfileIsDropped ==
    ASSUME scene \in Scenes, scene.app \in {"sonarr", "lidarr"}, scene.kind = "QualityProfile",
           NEW sv, NEW cache, HeldOK(scene, sv, cache),
           NEW current, \A c \in current : Listed(sv, c), NEW ids,
           NEW x \in sv.items, HasTag(x), ReadOf(current, x)
    PROVE  \E ch \in AdapterDiff(scene.app, current, {}, GlobalsAfter(scene.app, current, ids), FALSE) :
               Drops(scene, ch, x)
  <1> DEFINE have == Of(current, "QualityProfile")
             after == GlobalsAfter(scene.app, current, ids)
             ch == Change("delete", First(have), after.profile)
  <1>1. x.kind = "QualityProfile" /\ x.id \in Nat \ {0}
    BY DEF HeldOK, ServiceOK
  <1>2. \A c \in have : Listed(sv, c)
    BY DEF Of
  <1>3. PICK c \in have : c.name = x.name
    BY <1>1 DEF ReadOf, Of
  <1>4. after.profile = Last(have).id
    BY <1>3, ManagedId
  <1> HIDE DEF have
  <1>5. PICK y \in sv.items :
           /\ First(have) \in have /\ Last(have) \in have
           /\ HasTag(y) /\ \A e \in have : e.id = y.id /\ e.name = y.name
    <2>1. have # {}
      BY <1>3
    <2> QED  BY ONLY <1>2, <2>1, scene \in Scenes, HeldOK(scene, sv, cache),
                     scene.kind = "QualityProfile", OneProfile
  <1>6. y = x
    BY <1>3, <1>5 DEF HeldOK, ServiceOK
  <1>7. after.profile = x.id /\ after.profile # NoId /\ First(have).name = x.name
    BY <1>1, <1>4, <1>5, <1>6 DEF NoId
  <1>8. ch.op = "delete" /\ ch.name = x.name /\ ch.id = x.id
    BY <1>7 DEF Change
  <1>9. ch \in Sonarr!Diff(current, {}, after) /\ ch \in Lidarr!Diff(current, {}, after)
    <2> HIDE DEF after
    <2> QED  BY <1>3, <1>7, ProfileDropped DEF have
  <1> HIDE DEF ch, after
  <1>10. ch \in AdapterDiff(scene.app, current, {}, after, FALSE)
    BY <1>9 DEF AdapterDiff
  <1> QED  BY <1>8, <1>10 DEF Drops, after

\* A deletion of a diff by name that carries an id carries that of the resource.
LEMMA DeletionHitsById ==
    ASSUME NEW sv, NEW kind, ServiceOK(sv, kind), NEW current, ReadBack(sv, current, kind, "id"),
           NEW c \in current, c.kind = kind, NEW x \in sv.items, x.name = c.name
    PROVE  c.id = x.id
  <1>1. PICK y \in sv.items : Mirror(c, y) /\ c.id = y.id
    BY DEF ReadBack
  <1>2. y = x
    BY <1>1 DEF Mirror, ServiceOK
  <1> QED  BY <1>1, <1>2

\* A cleanup of Sonarr plans a deletion of every owned resource.
LEMMA SonarrCleans ==
    ASSUME scene \in Scenes, scene.app = "sonarr", Cleaned(scene), NEW sv, NEW cache, HeldOK(scene, sv, cache),
           NEW schema, NEW tag, tag, NEW blind, scene.kind \notin blind,
           NEW current, current = Sonarr!CurrentState(sv, schema, tag, blind), NEW ids,
           NEW x \in sv.items, HasTag(x)
    PROVE  \E ch \in Sonarr!Diff(current, {}, GlobalsAfter("sonarr", current, ids)) : Drops(scene, ch, x)
  <1> DEFINE after == GlobalsAfter("sonarr", current, ids)
  <1>1. /\ x.kind = scene.kind /\ ServiceOK(sv, scene.kind)
        /\ scene.kind \in {"QualityProfile", "DownloadClient", "Indexer", "Notification"}
    BY ScenesAssumption DEF HeldOK, ServiceOK, Cleaned, MarkedKinds, PrefixKinds, AdapterKindRank,
                            Sonarr!KindRank, DirectOrder
  <1>2. \A c \in current : Listed(sv, c)
    BY SonarrLists
  <1>3. ReadOf(current, x)
    BY <1>1, SonarrReadsAll
  <1>4. CASE scene.kind = "QualityProfile"
    <2>1. \E ch \in AdapterDiff(scene.app, current, {}, after, FALSE) : Drops(scene, ch, x)
      BY <1>2, <1>3, <1>4, ProfileIsDropped
    <2> HIDE DEF after
    <2> QED  BY <2>1 DEF AdapterDiff, after
  <1>5. CASE scene.kind # "QualityProfile"
    <2> HIDE DEF after
    <2>0. PICK c \in current : c.kind = x.kind /\ c.name = x.name
      BY <1>3 DEF ReadOf
    <2>1. PICK ch \in Sonarr!Diff(current, {}, after) :
             ch.op = "delete" /\ ch.kind = x.kind /\ ch.name = x.name
      <3>1. c.kind \in {"DownloadClient", "Indexer", "Notification"}
        BY <1>1, <1>5, <2>0
      <3>2. Deletion(Sonarr!Diff(current, {}, after), c.kind, c.name)
        BY <3>1, SonarrDropsAll
      <3> QED  BY <2>0, <3>2 DEF Deletion
    <2>2. Planned(ch, scene.kind, current, {}, "id")
      <3>1. \/ PlannedProfile(ch, current, {}, after.profile)
            \/ PlannedNaming(ch, {}) \/ PlannedFolder(ch, current, {})
            \/ \E kind \in {"DownloadClient", "Indexer", "RemotePathMapping", "Notification",
                            "CustomFormat", "DelayProfile"} :
                   Planned(ch, kind, current, {}, "id")
        BY SonarrPlans
      <3>2. ~PlannedProfile(ch, current, {}, after.profile)
        <4> SUFFICES ASSUME PlannedProfile(ch, current, {}, after.profile) PROVE FALSE
          OBVIOUS
        <4> DEFINE have == Of(current, "QualityProfile")
        <4>1. have # {}
          BY <2>1 DEF PlannedProfile
        <4>2. PICK p \in current : p.kind = "QualityProfile"
          BY <4>1 DEF Of
        <4>3. PICK y \in sv.items : p.kind = y.kind
          BY <1>2, <4>2 DEF Listed, Mirror
        <4> QED  BY <1>1, <1>5, <4>2, <4>3 DEF ServiceOK
      <3>3. ~PlannedNaming(ch, {}) /\ ~PlannedFolder(ch, current, {})
        BY <2>1 DEF PlannedNaming, PlannedFolder
      <3>4. PICK kind : Planned(ch, kind, current, {}, "id")
        BY ONLY <3>1, <3>2, <3>3
      <3>5. kind = scene.kind
        BY <1>1, <2>1, <3>4 DEF Planned
      <3> QED  BY <3>4, <3>5
    <2>3. ReadBack(sv, current, scene.kind, "id")
      BY <1>2 DEF ReadBack, Listed
    <2>4. PICK e \in current : e.kind = scene.kind /\ e.name = ch.name /\ ch.id = e.id
      BY <2>1, <2>2 DEF Planned
    <2>5. e.id = x.id
      <3>1. /\ ServiceOK(sv, scene.kind) /\ ReadBack(sv, current, scene.kind, "id")
            /\ e \in current /\ e.kind = scene.kind /\ x \in sv.items /\ x.name = e.name
        BY <1>1, <2>1, <2>3, <2>4
      <3> QED  BY ONLY <3>1, DeletionHitsById
    <2> QED  BY <2>1, <2>4, <2>5 DEF Drops, after
  <1> QED  BY <1>4, <1>5

\* A cleanup of Lidarr plans a deletion of every owned resource.
LEMMA LidarrCleans ==
    ASSUME scene \in Scenes, scene.app = "lidarr", Cleaned(scene), NEW sv, NEW cache, HeldOK(scene, sv, cache),
           NEW schema, NEW tag, tag, NEW blind, scene.kind \notin blind,
           NEW current, current = Lidarr!CurrentState(sv, schema, tag, blind), NEW ids,
           NEW x \in sv.items, HasTag(x)
    PROVE  \E ch \in Lidarr!Diff(current, {}, GlobalsAfter("lidarr", current, ids)) : Drops(scene, ch, x)
  <1> DEFINE after == GlobalsAfter("lidarr", current, ids)
  <1>1. /\ x.kind = scene.kind /\ ServiceOK(sv, scene.kind)
        /\ scene.kind \in {"QualityProfile", "DownloadClient", "Indexer", "Notification"}
    BY ScenesAssumption DEF HeldOK, ServiceOK, Cleaned, MarkedKinds, PrefixKinds, AdapterKindRank,
                            Lidarr!KindRank, DirectOrder
  <1>2. \A c \in current : Listed(sv, c)
    BY LidarrLists
  <1>3. ReadOf(current, x)
    BY <1>1, LidarrReadsAll
  <1>4. CASE scene.kind = "QualityProfile"
    <2>1. \E ch \in AdapterDiff(scene.app, current, {}, after, FALSE) : Drops(scene, ch, x)
      BY <1>2, <1>3, <1>4, ProfileIsDropped
    <2> HIDE DEF after
    <2> QED  BY <2>1 DEF AdapterDiff, after
  <1>5. CASE scene.kind # "QualityProfile"
    <2> HIDE DEF after
    <2>0. PICK c \in current : c.kind = x.kind /\ c.name = x.name
      BY <1>3 DEF ReadOf
    <2>1. PICK ch \in Lidarr!Diff(current, {}, after) :
             ch.op = "delete" /\ ch.kind = x.kind /\ ch.name = x.name
      <3>1. c.kind \in {"DownloadClient", "Indexer", "Notification"}
        BY <1>1, <1>5, <2>0
      <3>2. Deletion(Lidarr!Diff(current, {}, after), c.kind, c.name)
        BY <3>1, LidarrDropsAll
      <3> QED  BY <2>0, <3>2 DEF Deletion
    <2>2. Planned(ch, scene.kind, current, {}, "id")
      <3>1. \/ PlannedProfile(ch, current, {}, after.profile)
            \/ PlannedNaming(ch, {}) \/ PlannedFolder(ch, current, {})
            \/ \E kind \in {"DownloadClient", "Indexer", "RemotePathMapping", "Notification",
                            "CustomFormat", "DelayProfile"} :
                   Planned(ch, kind, current, {}, "id")
        BY LidarrPlans
      <3>2. ~PlannedProfile(ch, current, {}, after.profile)
        <4> SUFFICES ASSUME PlannedProfile(ch, current, {}, after.profile) PROVE FALSE
          OBVIOUS
        <4> DEFINE have == Of(current, "QualityProfile")
        <4>1. have # {}
          BY <2>1 DEF PlannedProfile
        <4>2. PICK p \in current : p.kind = "QualityProfile"
          BY <4>1 DEF Of
        <4>3. PICK y \in sv.items : p.kind = y.kind
          BY <1>2, <4>2 DEF Listed, Mirror
        <4> QED  BY <1>1, <1>5, <4>2, <4>3 DEF ServiceOK
      <3>3. ~PlannedNaming(ch, {}) /\ ~PlannedFolder(ch, current, {})
        BY <2>1 DEF PlannedNaming, PlannedFolder
      <3>4. PICK kind : Planned(ch, kind, current, {}, "id")
        BY ONLY <3>1, <3>2, <3>3
      <3>5. kind = scene.kind
        BY <1>1, <2>1, <3>4 DEF Planned
      <3> QED  BY <3>4, <3>5
    <2>3. ReadBack(sv, current, scene.kind, "id")
      BY <1>2 DEF ReadBack, Listed
    <2>4. PICK e \in current : e.kind = scene.kind /\ e.name = ch.name /\ ch.id = e.id
      BY <2>1, <2>2 DEF Planned
    <2>5. e.id = x.id
      <3>1. /\ ServiceOK(sv, scene.kind) /\ ReadBack(sv, current, scene.kind, "id")
            /\ e \in current /\ e.kind = scene.kind /\ x \in sv.items /\ x.name = e.name
        BY <1>1, <2>1, <2>3, <2>4
      <3> QED  BY ONLY <3>1, DeletionHitsById
    <2> QED  BY <2>1, <2>4, <2>5 DEF Drops, after
  <1> QED  BY <1>4, <1>5

\* A cleanup of Radarr plans a deletion of every owned resource.
LEMMA RadarrCleans ==
    ASSUME scene \in Scenes, scene.app = "radarr", Cleaned(scene), NEW sv, NEW cache, HeldOK(scene, sv, cache),
           NEW schema, NEW tag, tag, NEW blind, scene.kind \notin blind,
           NEW current, current = Radarr!CurrentState(sv, schema, tag, blind), NEW x \in sv.items, HasTag(x)
    PROVE  \E ch \in Radarr!Diff(current, {}) : Drops(scene, ch, x)
  <1>1. x.kind = scene.kind /\ ServiceOK(sv, scene.kind) /\ scene.kind \in {"DownloadClient", "Indexer", "Notification"}
    BY ScenesAssumption DEF HeldOK, ServiceOK, Cleaned, MarkedKinds, PrefixKinds, AdapterKindRank,
                            Radarr!KindRank, DirectOrder
  <1>2. ReadOf(current, x)
    BY <1>1, RadarrReadsAll
  <1>3. PICK c \in current : c.kind = x.kind /\ c.name = x.name
    BY <1>2 DEF ReadOf
  <1>4. PICK ch \in Radarr!Diff(current, {}) : ch.op = "delete" /\ ch.kind = x.kind /\ ch.name = x.name
    <2>1. Deletion(Radarr!Diff(current, {}), c.kind, c.name)
      BY <1>1, <1>3, RadarrDropsAll
    <2> QED  BY <1>3, <2>1 DEF Deletion
  <1>5. CASE scene.kind \in {"DownloadClient", "Indexer"}
    BY <1>4, <1>5 DEF Drops, LooksUp
  <1>6. CASE scene.kind = "Notification"
    <2>1. Planned(ch, scene.kind, current, {}, "id")
      <3>1. \/ ch.op = "create" /\ PlannedProfile(ch, current, {}, NoId)
            \/ PlannedNaming(ch, {}) \/ PlannedFolder(ch, current, {})
            \/ \E kind \in {"RemotePathMapping", "Notification", "DelayProfile"} :
                   Planned(ch, kind, current, {}, "id")
            \/ \E kind \in {"CustomFormat", "DownloadClient", "Indexer"} :
                   Planned(ch, kind, current, {}, "name")
        BY RadarrPlans
      <3>2. \A kind, by : Planned(ch, kind, current, {}, by) => kind = "Notification"
        BY <1>1, <1>4, <1>6 DEF Planned
      <3>3. ~PlannedNaming(ch, {}) /\ ~PlannedFolder(ch, current, {})
        BY <1>4 DEF PlannedNaming, PlannedFolder
      <3> QED  BY ONLY <1>4, <1>6, <3>1, <3>2, <3>3
    <2>2. ReadBack(sv, current, scene.kind, "id")
      <3>1. \A e \in current : Listed(sv, e)
        BY RadarrLists
      <3> QED  BY <3>1 DEF ReadBack, Listed
    <2>3. PICK e \in current : e.kind = scene.kind /\ e.name = ch.name /\ ch.id = e.id
      BY <1>4, <2>1 DEF Planned
    <2>4. e.id = x.id
      <3>1. /\ ServiceOK(sv, scene.kind) /\ ReadBack(sv, current, scene.kind, "id")
            /\ e \in current /\ e.kind = scene.kind /\ x \in sv.items /\ x.name = e.name
        BY <1>1, <1>4, <2>2, <2>3
      <3> QED  BY ONLY <3>1, DeletionHitsById
    <2> QED  BY <1>4, <2>3, <2>4 DEF Drops
  <1> QED  BY <1>1, <1>5, <1>6

\* A cleanup of Readarr plans a deletion of every owned resource.
LEMMA ReadarrCleans ==
    ASSUME scene \in Scenes, scene.app = "readarr", Cleaned(scene), NEW sv, NEW cache, HeldOK(scene, sv, cache),
           NEW tag, tag, NEW blind, scene.kind \notin blind,
           NEW current, current = Readarr!CurrentState(sv, tag, blind), NEW x \in sv.items, HasTag(x)
    PROVE  \E ch \in Readarr!Diff(current, {}) : Drops(scene, ch, x)
  <1>1. x.kind = scene.kind /\ ServiceOK(sv, scene.kind) /\ scene.kind \in {"DownloadClient", "Indexer", "MetadataProfile"}
    BY ScenesAssumption DEF HeldOK, ServiceOK, Cleaned, MarkedKinds, PrefixKinds, AdapterKindRank,
                            Readarr!KindRank, DirectOrder
  <1>2. ReadOf(current, x)
    BY <1>1, ReadarrReadsAll
  <1>3. PICK c \in current : c.kind = x.kind /\ c.name = x.name
    BY <1>2 DEF ReadOf
  <1>4. PICK ch \in Readarr!Diff(current, {}) : ch.op = "delete" /\ ch.kind = x.kind /\ ch.name = x.name
    <2>1. Deletion(Readarr!Diff(current, {}), c.kind, c.name)
      BY <1>1, <1>3, ReadarrDropsAll
    <2> QED  BY <1>3, <2>1 DEF Deletion
  <1>5. CASE scene.kind \in {"DownloadClient", "Indexer"}
    BY <1>4, <1>5 DEF Drops, LooksUp
  <1>6. CASE scene.kind = "MetadataProfile"
    <2>1. Planned(ch, scene.kind, current, {}, "id")
      <3>1. \/ ch.op = "create" /\ PlannedProfile(ch, current, {}, NoId)
            \/ PlannedFolder(ch, current, {})
            \/ Planned(ch, "MetadataProfile", current, {}, "id")
            \/ \E kind \in {"DownloadClient", "Indexer"} : Planned(ch, kind, current, {}, "name")
        BY ReadarrPlans
      <3>2. \A kind, by : Planned(ch, kind, current, {}, by) => kind = "MetadataProfile"
        BY <1>1, <1>4, <1>6 DEF Planned
      <3>3. ~PlannedFolder(ch, current, {})
        BY <1>4 DEF PlannedFolder
      <3> QED  BY ONLY <1>4, <1>6, <3>1, <3>2, <3>3
    <2>2. ReadBack(sv, current, scene.kind, "id")
      <3>1. \A e \in current : e.kind \in PrefixKinds => Listed(sv, e)
        BY ReadarrLists
      <3> QED  BY <1>6, <3>1 DEF ReadBack, Listed, PrefixKinds
    <2>3. PICK e \in current : e.kind = scene.kind /\ e.name = ch.name /\ ch.id = e.id
      BY <1>4, <2>1 DEF Planned
    <2>4. e.id = x.id
      <3>1. /\ ServiceOK(sv, scene.kind) /\ ReadBack(sv, current, scene.kind, "id")
            /\ e \in current /\ e.kind = scene.kind /\ x \in sv.items /\ x.name = e.name
        BY <1>1, <1>4, <2>2, <2>3
      <3> QED  BY ONLY <3>1, DeletionHitsById
    <2> QED  BY <1>4, <2>3, <2>4 DEF Drops
  <1> QED  BY <1>1, <1>5, <1>6

\* Every adapter plans the deletion of what the operator owns, when the object
\* is gone and the tag and the list arrived.
LEMMA CleanupPlans ==
    ASSUME scene \in Scenes, Cleaned(scene), NEW sv, NEW cache, HeldOK(scene, sv, cache),
           NEW tag, tag, NEW blind, scene.kind \notin blind, NEW ids, NEW cleanup,
           NEW current, current = AdapterCurrentState(scene.app, sv, scene.schema, tag, blind),
           NEW x \in sv.items, HasTag(x)
    PROVE  \E ch \in AdapterDiff(scene.app, current, {}, GlobalsAfter(scene.app, current, ids), cleanup) :
               Drops(scene, ch, x)
  <1>1. scene.app \in {"radarr", "sonarr", "lidarr", "readarr"}
    BY ScenesAssumption DEF Cleaned, Apps
  <1>2. CASE scene.app = "radarr"
    BY <1>2, RadarrCleans DEF AdapterCurrentState, AdapterDiff
  <1>3. CASE scene.app = "sonarr"
    BY <1>3, SonarrCleans DEF AdapterCurrentState, AdapterDiff
  <1>4. CASE scene.app = "lidarr"
    BY <1>4, LidarrCleans DEF AdapterCurrentState, AdapterDiff
  <1>5. CASE scene.app = "readarr"
    BY <1>5, ReadarrCleans DEF AdapterCurrentState, AdapterDiff
  <1> QED  BY <1>1, <1>2, <1>3, <1>4, <1>5

\* A deletion that the service accepts, or that had nothing to do, leaves
\* nothing of what it is about.
LEMMA DeletionTakes ==
    ASSUME scene \in Scenes, Cleaned(scene), NEW sv, ServiceOK(sv, scene.kind), NEW cache,
           NEW desired, NEW ch, ChangeOK(scene, sv, cache, desired, ch), ch.op = "delete",
           NEW q, q = AdapterApply(scene.app, sv, scene.schema, cache, ch), Accepts(sv, q)
    PROVE  \A x \in Serve(sv, q).items : x \in sv.items /\ ~Drops(scene, ch, x)
  <1>0. /\ KnownOp(scene, ch) /\ ch.kind = scene.kind
        /\ scene.kind \in DOMAIN AdapterKindRank(scene.app) /\ scene.app \in Apps
    BY ScenesAssumption DEF ChangeOK, KnownOp
  <1>1. \A x, y \in sv.items : x.name = y.name \/ x.id = y.id => x = y
    BY DEF ServiceOK
  <1>2. \/ q.verb = "bad"
        \/ q.verb = "none" /\ \A x \in sv.items : x.name # ch.name
        \/ Deletes(q, ch, ch.id) /\ scene.kind \notin LooksUp(scene)
        \/ \E x \in sv.items : x.name = ch.name /\ Deletes(q, ch, x.id)
    <2>1. CASE scene.app = "sonarr"
      <3>1. q = Sonarr!Apply(sv, scene.schema, ch) /\ scene.kind \in DOMAIN Sonarr!KindRank
        BY <1>0, <2>1 DEF AdapterApply, AdapterKindRank
      <3>2. Conforms(q, ch, ch.id)
        BY <1>0, <3>1, SonarrRequest DEF KnownOp
      <3> QED  BY <2>1, <3>2 DEF Conforms, LooksUp
    <2>2. CASE scene.app = "lidarr"
      <3>1. q = Lidarr!Apply(sv, scene.schema, ch) /\ scene.kind \in DOMAIN Lidarr!KindRank
        BY <1>0, <2>2 DEF AdapterApply, AdapterKindRank
      <3>2. Conforms(q, ch, ch.id)
        BY <1>0, <3>1, LidarrRequest DEF KnownOp
      <3> QED  BY <2>2, <3>2 DEF Conforms, LooksUp
    <2>3. CASE scene.app = "radarr"
      <3>1. q = Radarr!Apply(sv, scene.schema, ch) /\ scene.kind \in DOMAIN Radarr!KindRank
        BY <1>0, <2>3 DEF AdapterApply, AdapterKindRank
      <3>2. /\ ch.kind # "NamingConfig" /\ ch.kind # "RootFolder" /\ ch.kind # "QualityProfile"
            /\ ch.op \in {"create", "update", "delete"}
        BY <1>0, <2>3 DEF KnownOp
      <3>3. \/ Conforms(q, ch, ch.id) /\ ch.kind \notin {"CustomFormat", "DownloadClient", "Indexer"}
            \/ Conforms(q, ch, NoId) /\ (ch.op = "create" \/ q.verb = "bad")
            \/ \E x \in sv.items : x.name = ch.name /\ Conforms(q, ch, x.id)
        BY <1>0, <3>1, <3>2, ServiceIsStocked, RadarrRequest
      <3> QED  BY <1>0, <2>3, <3>3 DEF Conforms, LooksUp
    <2>4. CASE scene.app = "readarr"
      <3>1. q = Readarr!Apply(sv, scene.schema, ch) /\ scene.kind \in DOMAIN Readarr!KindRank
        BY <1>0, <2>4 DEF AdapterApply, AdapterKindRank
      <3>2. /\ ch.kind \notin {"RootFolder", "QualityProfile"}
            /\ ch.op \in {"create", "update", "delete"}
        BY <1>0, <2>4 DEF KnownOp
      <3>3. \/ q.verb = "none" /\ \A x \in sv.items : x.name # ch.name
            \/ \E x \in sv.items : x.name = ch.name /\ Conforms(q, ch, x.id)
        <4>1. Stocked(sv, ch.kind) /\ \A x \in sv.items : x.kind = ch.kind
          BY <1>0, ServiceIsStocked DEF ServiceOK
        <4> QED  BY <1>0, <3>1, <3>2, <4>1, ReadarrRequest
      <3> QED  BY <3>3 DEF Conforms
    <2> QED  BY <1>0, <2>1, <2>2, <2>3, <2>4 DEF Cleaned, Apps
  <1>3. /\ q.verb = "DELETE" => Serve(sv, q).items = OtherItems(sv, q)
        /\ q.verb \in {"none", "bad"} => Serve(sv, q) = sv
    BY ServedRequest
  <1> DEFINE tv == Serve(sv, q)
  <1> SUFFICES \A x \in tv.items : x \in sv.items /\ ~Drops(scene, ch, x)
    OBVIOUS
  <1> HIDE DEF tv
  <1>4. CASE q.verb = "bad"
    BY <1>4 DEF Accepts
  <1>5. CASE q.verb = "none" /\ \A x \in sv.items : x.name # ch.name
    BY <1>3, <1>5 DEF tv, Drops
  <1>6. CASE q.verb = "DELETE" /\ q.kind = scene.kind
    <2>1. tv.items = OtherItems(sv, q)
      BY <1>3, <1>6 DEF tv
    <2>2. \A x \in tv.items : x \in sv.items /\ x.id # q.id
      BY <1>6, <2>1 DEF OtherItems, ServiceOK
    <2>3. CASE q.id = ch.id /\ scene.kind \notin LooksUp(scene)
      BY <2>2, <2>3 DEF Drops
    <2>4. CASE \E x \in sv.items : x.name = ch.name /\ q.id = x.id
      BY <1>1, <2>2, <2>4 DEF Drops
    <2> QED  BY <1>2, <1>6, <2>3, <2>4 DEF Deletes
  <1> QED  BY <1>0, <1>2, <1>4, <1>5, <1>6 DEF Deletes

-----------------------------------------------------------------------------
(***************************************************************************)
(* What a step makes of a service and of what is remembered of it.         *)
(***************************************************************************)

\* Every kind that Prowlarr has carries the mark.
LEMMA ProwlarrMarked ==
    ASSUME scene \in Scenes, scene.app = "prowlarr"
    PROVE  scene.kind \in MarkedKinds
  BY ScenesAssumption DEF AdapterKindRank, Prowlarr!KindRank, DirectAppliers, MarkedKinds

\* A service that moves on stays held.
LEMMA HeldFollows ==
    ASSUME scene \in Scenes, NEW sv, NEW tv, NEW cache, NEW taken, HeldOK(scene, sv, cache),
           ServiceOK(tv, scene.kind), scene.kind \in MarkedKinds => Follows(sv, tv, taken),
           scene.kind = "QualityProfile" =>
               \A x \in tv.items : HasTag(x) => x.name \in Names(UNION scene.irs)
    PROVE  HeldOK(scene, tv, cache)
  <1>1. sv.next \in Nat /\ tv.next \in Nat /\ CacheOK(scene, sv, cache)
    BY DEF HeldOK, ServiceOK
  <1>2. CASE scene.kind \in MarkedKinds
    BY <1>1, <1>2, CacheFollows DEF HeldOK
  <1>3. CASE scene.kind \notin MarkedKinds
    BY <1>1, <1>3, ProwlarrMarked DEF HeldOK, CacheOK
  <1> QED  BY <1>2, <1>3

\* The changes of a todo list stay checked.
LEMMA ChangesFollow ==
    ASSUME NEW sv, NEW tv, NEW cache, NEW taken, HeldOK(scene, sv, cache), HeldOK(scene, tv, cache),
           scene.kind \in MarkedKinds => Follows(sv, tv, taken),
           NEW desired, NEW ch, ChangeOK(scene, sv, cache, desired, ch),
           scene.app \in {"radarr", "readarr"} /\ ch.op # "create" => ch.name \in taken
    PROVE  ChangeOK(scene, tv, cache, desired, ch)
  <1>1. sv.next \in Nat /\ tv.next \in Nat
    BY DEF HeldOK, ServiceOK
  <1>2. CASE scene.kind \in MarkedKinds
    BY <1>1, <1>2, ChangeFollows
  <1>3. CASE scene.kind \notin MarkedKinds
    BY <1>3 DEF ChangeOK
  <1> QED  BY <1>2, <1>3

\* A sound request that the service accepts.
LEMMA ServeHeld ==
    ASSUME scene \in Scenes, NEW sv, NEW cache, HeldOK(scene, sv, cache), NEW desired,
           desired \subseteq UNION scene.irs, NEW q, Sound(scene, sv, q, desired), Accepts(sv, q),
           NEW taken
    PROVE  /\ HeldOK(scene, Serve(sv, q), cache)
           /\ scene.kind \in MarkedKinds => Follows(sv, Serve(sv, q), taken)
  <1> DEFINE tv == Serve(sv, q)
  <1>1. ServiceOK(sv, scene.kind) /\ RequestOK(q, scene.kind)
    BY DEF HeldOK, Sound
  <1>2. ServiceOK(tv, scene.kind)
    BY <1>1, ServeKeepsService
  <1>3. ASSUME scene.kind \in MarkedKinds PROVE Follows(sv, tv, taken)
    BY <1>1, <1>3, ServeFollows DEF Sound
  <1>4. ASSUME scene.kind = "QualityProfile"
        PROVE  \A x \in tv.items : HasTag(x) => x.name \in Names(UNION scene.irs)
    <2>1. Fair(sv, q, desired)
      BY <1>4 DEF Sound, MarkedKinds, PrefixKinds
    <2>2. /\ q.verb = "POST" => tv.items = sv.items \cup {NewItem(q, sv.next)}
          /\ q.verb = "PUT" => tv.items = OtherItems(sv, q) \cup {NewItem(q, q.id)}
          /\ q.verb = "DELETE" => tv.items = OtherItems(sv, q)
          /\ q.verb \in {"none", "bad"} => tv = sv
      BY <1>1, ServedRequest
    <2>3. Names(desired) \subseteq Names(UNION scene.irs)
      BY DEF Names
    <2>4. \A x \in sv.items : HasTag(x) => x.name \in Names(UNION scene.irs)
      BY <1>4 DEF HeldOK
    <2>5. OtherItems(sv, q) \subseteq sv.items
      BY DEF OtherItems
    <2>6. q.verb \in {"POST", "PUT"} => q.name \in Names(UNION scene.irs)
      BY <2>1, <2>3 DEF Fair
    <2> HIDE DEF tv
    <2>7. CASE q.verb \in {"POST", "PUT"}
      <3>1. \A id : NewItem(q, id).name = q.name
        BY DEF NewItem
      <3> QED  BY <2>2, <2>4, <2>5, <2>6, <2>7, <3>1
    <2>8. CASE q.verb \in {"DELETE", "none", "bad"}
      BY <2>2, <2>4, <2>5, <2>8
    <2> QED  BY <1>1, <2>7, <2>8 DEF RequestOK
  <1> HIDE DEF tv
  <1>5. HeldOK(scene, tv, cache)
    BY ONLY <1>2, <1>3, <1>4, scene \in Scenes, HeldOK(scene, sv, cache), HeldFollows
  <1> QED  BY <1>3, <1>5 DEF tv

\* Prowlarr's cache after a change, and what of it the other changes need.
LEMMA CacheAfterOK ==
    ASSUME scene \in Scenes, scene.app = "prowlarr", NEW sv, NEW cache, HeldOK(scene, sv, cache),
           NEW desired, NEW ch, ChangeOK(scene, sv, cache, desired, ch), NEW q,
           q = Prowlarr!Apply(sv, cache, ch), NEW done, NEW tv, HeldOK(scene, tv, cache),
           done => tv = Serve(sv, q)
    PROVE  /\ HeldOK(scene, tv, Prowlarr!CacheAfter(sv, cache, ch, done))
           /\ \A k \in DOMAIN cache :
                  \/ k \in DOMAIN Prowlarr!CacheAfter(sv, cache, ch, done)
                  \/ ch.op = "delete" /\ k = <<scene.kind, ch.name>>
  <1> DEFINE new == Prowlarr!CacheAfter(sv, cache, ch, done)
             Entry(id) == {[kind |-> ch.kind, name |-> ch.name, id |-> id]}
             id == Prowlarr!IdFor(sv, cache, ch.kind, ch.name)
  <1>0. /\ CacheOK(scene, tv, cache) /\ CacheOK(scene, sv, cache)
        /\ scene.kind \in MarkedKinds /\ ch.kind = scene.kind
        /\ ch.op \in {"create", "update", "delete"}
    BY ProwlarrMarked DEF HeldOK, ChangeOK, KnownOp
  <1> SUFFICES /\ CacheOK(scene, tv, new)
               /\ \A k \in DOMAIN cache : k \in DOMAIN new \/ (ch.op = "delete" /\ k = <<scene.kind, ch.name>>)
    BY DEF HeldOK
  <1>1. ASSUME NEW i, i \in 1 .. tv.next - 1,
               \A x \in tv.items : x.id = i => HasTag(x) /\ x.name = ch.name
        PROVE  /\ CacheOK(scene, tv, Prowlarr!cached(cache, Entry(i)))
               /\ DOMAIN cache \subseteq DOMAIN Prowlarr!cached(cache, Entry(i))
    <2>1. \A c \in Entry(i) :
             /\ c.kind = scene.kind /\ c.id \in 1 .. tv.next - 1
             /\ \A x \in tv.items : x.id = c.id => HasTag(x) /\ x.name = c.name
      BY <1>0, <1>1
    <2> HIDE DEF Entry
    <2> QED  BY ONLY <1>0, <2>1, scene.app = "prowlarr", CachedOK
  <1>2. CASE ch.op = "create" /\ done
    <2>1. new = Prowlarr!cached(cache, Entry(sv.next))
      BY <1>2 DEF Prowlarr!CacheAfter
    <2>2. ch.kind \in DOMAIN Prowlarr!KindRank
      BY <1>0, ScenesAssumption DEF AdapterKindRank, DirectAppliers
    <2>3. Posts(q, ch)
      BY <1>2, <2>2, ProwlarrRequest
    <2>4. tv.items = sv.items \cup {NewItem(q, sv.next)} /\ tv.next = sv.next + 1
      BY <1>2, <2>3, ServedRequest DEF HeldOK, Posts
    <2>5. sv.next \in Nat \ {0} /\ \A x \in sv.items : x.id # sv.next
      BY DEF HeldOK, ServiceOK
    <2>6. NewItem(q, sv.next).name = ch.name /\ HasTag(NewItem(q, sv.next))
      BY <1>0, <2>3 DEF NewItem, HasTag, Posts
    <2>7. sv.next \in 1 .. tv.next - 1 /\ \A x \in tv.items : x.id = sv.next => HasTag(x) /\ x.name = ch.name
      BY <2>4, <2>5, <2>6
    <2> QED  BY <1>1, <2>1, <2>7
  <1>3. CASE ch.op = "update"
    <2>1. id = cache[<<ch.kind, ch.name>>] /\ <<ch.kind, ch.name>> \in DOMAIN cache
      BY <1>0, <1>3 DEF Prowlarr!IdFor, ChangeOK, Aimed
    <2>2. new = IF id # Prowlarr!NoId THEN Prowlarr!cached(cache, Entry(id)) ELSE cache
      BY <1>3 DEF Prowlarr!CacheAfter
    <2>3. id \in 1 .. tv.next - 1 /\ \A x \in tv.items : x.id = id => HasTag(x) /\ x.name = ch.name
      BY <1>0, <2>1 DEF CacheOK
    <2> QED  BY <1>0, <1>1, <2>2, <2>3
  <1>4. CASE ch.op = "delete" /\ done
    <2>1. new = [k \in DOMAIN cache \ {<<ch.kind, ch.name>>} |-> cache[k]]
      BY <1>4 DEF Prowlarr!CacheAfter, Prowlarr!forget
    <2> HIDE DEF new
    <2>2. \A k \in DOMAIN new : k \in DOMAIN cache /\ new[k] = cache[k]
      BY <2>1
    <2>3. CacheOK(scene, tv, new)
      BY <1>0, <2>2 DEF CacheOK
    <2>4. \A k \in DOMAIN cache : k \in DOMAIN new \/ k = <<scene.kind, ch.name>>
      BY <1>0, <2>1
    <2> QED  BY <1>4, <2>3, <2>4 DEF new
  <1>5. CASE ch.op \in {"create", "delete"} /\ ~done
    <2>1. new = cache
      BY <1>5 DEF Prowlarr!CacheAfter
    <2> QED  BY <1>0, <2>1
  <1> QED  BY <1>0, <1>2, <1>3, <1>4, <1>5

\* A name stays cached when the change of another one is applied.
LEMMA OthersStayCached ==
    ASSUME scene.app = "prowlarr", scene.kind \in MarkedKinds, NEW sv, NEW tv, NEW cache, NEW new,
           NEW desired, NEW ch, NEW other, other # ch,
           ChangeOK(scene, sv, cache, desired, ch), ChangeOK(scene, tv, cache, desired, other),
           \A k \in DOMAIN cache : k \in DOMAIN new \/ (ch.op = "delete" /\ k = <<scene.kind, ch.name>>)
    PROVE  ChangeOK(scene, tv, new, desired, other)
  <1>1. CASE other.op = "create"
    BY <1>1 DEF ChangeOK
  <1>2. CASE other.op # "create"
    <2>1. Aimed(scene, tv, cache, desired, other)
      BY <1>2 DEF ChangeOK
    <2>2. ~(ch.op = "delete" /\ ch.name = other.name)
      <3> SUFFICES ASSUME ch.op = "delete", ch.name = other.name PROVE FALSE
        OBVIOUS
      <3>1. other.op = "delete"
        BY <1>2 DEF ChangeOK
      <3>2. Aimed(scene, sv, cache, desired, ch)
        BY DEF ChangeOK
      <3> QED  BY <2>1, <3>1, <3>2 DEF Aimed
    <2>3. <<scene.kind, other.name>> \in DOMAIN new
      <3>1. <<scene.kind, other.name>> \in DOMAIN cache
        BY <2>1 DEF Aimed
      <3> QED  BY <2>2, <3>1
    <2>4. Aimed(scene, tv, new, desired, other)
      BY <2>1, <2>3 DEF Aimed
    <2> QED  BY <1>2, <2>4 DEF ChangeOK
  <1> QED  BY <1>1, <1>2

-----------------------------------------------------------------------------
(***************************************************************************)
(* The inductive invariant.                                                *)
(***************************************************************************)

\* A pass that has something to do is about a service.
LEMMA PassOnService ==
    ASSUME PassOK, pass.phase # "idle" \/ pass.todo # {} \/ pass.on # "idle"
    PROVE  pass.on \in Services /\ pass.on # "idle"
  BY ServicesAssumption DEF PassOK, NoPass

\* Without a service the pass is over.
LEMMA IdlePass ==
    ASSUME PassOK, pass.on = "idle"
    PROVE  pass = NoPass /\ pass.todo = {} /\ pass.requests = {} /\ pass.desired = {}
  BY ServicesAssumption DEF PassOK, NoPass

\* A pass that is over satisfies its part of the invariant.
LEMMA NoPassOK ==
    ASSUME scene' \in Scenes, pass' = NoPass
    PROVE  PassOK'
  BY DEF PassOK, NoPass

\* One service moves; the pass goes on as it is.
LEMMA ServiceMoves ==
    ASSUME IInv, scene' = scene, caches' = caches, NEW s \in Services, NEW tv,
           svc' = [svc EXCEPT ![s] = tv], HeldOK(scene, tv, caches[s]),
           scene.kind \in MarkedKinds => Follows(svc[s], tv, Taken)
    PROVE  /\ DOMAIN svc' = Services
           /\ \A t \in Services : HeldOK(scene, svc'[t], caches'[t])
           /\ \A ch \in pass.todo : ChangeOK(scene, svc'[pass.on], caches'[pass.on], pass.desired, ch)
  <1>1. DOMAIN svc' = Services /\ svc'[s] = tv /\ \A t \in Services \ {s} : svc'[t] = svc[t]
    BY DEF IInv, StateOK
  <1>2. \A t \in Services : HeldOK(scene, svc[t], caches[t])
    BY DEF IInv, StateOK
  <1>3. \A t \in Services : HeldOK(scene, svc'[t], caches'[t])
    BY <1>1, <1>2
  <1>4. ASSUME NEW ch \in pass.todo
        PROVE  ChangeOK(scene, svc'[pass.on], caches'[pass.on], pass.desired, ch)
    <2>1. pass.on \in Services
      BY PassOnService DEF IInv
    <2>2. ChangeOK(scene, svc[pass.on], caches[pass.on], pass.desired, ch)
      BY DEF IInv, PassOK
    <2>3. CASE pass.on # s
      BY <1>1, <2>1, <2>2, <2>3
    <2>4. CASE pass.on = s
      <3>1. scene.app \in {"radarr", "readarr"} /\ ch.op # "create" => ch.name \in Taken
        BY DEF Taken, Names
      <3>2. ChangeOK(scene, tv, caches[s], pass.desired, ch)
        BY <1>2, <2>2, <2>4, <3>1, ChangesFollow
      <3> QED  BY <1>1, <2>4, <3>2
    <2> QED  BY <2>3, <2>4
  <1> QED  BY <1>1, <1>3, <1>4

\* The invariant holds initially.
LEMMA InitOK ==
    ASSUME Init
    PROVE  IInv
  <1>1. scene \in Scenes /\ scene.drifts \in Nat
    BY ScenesAssumption DEF Init
  <1>2. PICK first \in [Services -> 1 .. 2] : svc = [s \in Services |-> Installed(scene, first[s])]
    BY DEF Init
  <1>3. ASSUME NEW n \in 1 .. 2 PROVE ServiceOK(Installed(scene, n), scene.kind)
    <2> DEFINE sv == Installed(scene, n)
    <2>1. /\ DOMAIN sv = {"tag", "items", "next"} /\ sv.tag \in BOOLEAN
          /\ sv.next \in Nat \ {0} /\ n \in 1 .. sv.next - 1
      BY DEF Installed
    <2>2. CASE scene.kind \in Singletons
      <3>1. PICK x : /\ sv.items = {x} /\ x.kind = scene.kind /\ x.id = n
                     /\ DOMAIN x = {"kind", "id", "name", "cfg", "ours"}
        <4> DEFINE x == [kind |-> scene.kind, id |-> n, name |-> "", ours |-> FALSE,
                         cfg |-> CHOOSE c \in scene.raw : TRUE]
        <4>1. sv.items = {x}
          BY <2>2 DEF Installed
        <4>2. x.kind = scene.kind /\ x.id = n /\ DOMAIN x = {"kind", "id", "name", "cfg", "ours"}
          OBVIOUS
        <4> QED  BY <4>1, <4>2
      <3> HIDE DEF sv
      <3>2. ServiceOK(sv, scene.kind)
        BY <2>1, <3>1 DEF ServiceOK
      <3> QED  BY <3>2 DEF sv
    <2>3. CASE scene.kind \notin Singletons
      <3>1. sv.items = {}
        BY <2>3 DEF Installed
      <3> HIDE DEF sv
      <3>2. ServiceOK(sv, scene.kind)
        BY <2>1, <2>3, <3>1 DEF ServiceOK
      <3> QED  BY <3>2 DEF sv
    <2> QED  BY <2>2, <2>3
  <1>4. ASSUME NEW n \in 1 .. 2 PROVE \A x \in Installed(scene, n).items : scene.kind \in Singletons
    BY DEF Installed
  <1>5. ASSUME NEW s \in Services PROVE HeldOK(scene, svc[s], caches[s])
    <2>1. svc[s] = Installed(scene, first[s]) /\ first[s] \in 1 .. 2
      BY <1>2
    <2>2. ServiceOK(svc[s], scene.kind)
      BY <1>3, <2>1
    <2>3. CacheOK(scene, svc[s], caches[s])
      BY DEF Init, CacheOK
    <2>4. scene.kind = "QualityProfile" => svc[s].items = {}
      BY <1>4, <2>1 DEF Singletons
    <2> QED  BY <2>2, <2>3, <2>4 DEF HeldOK
  <1>6. \A s \in Services : want[s] \subseteq UNION scene.irs
    BY DEF Init
  <1>7. StateOK
    BY <1>1, <1>2, <1>5, <1>6, BoundsAssumption DEF Init, StateOK
  <1>8. PassOK
    BY DEF Init, PassOK, NoPass
  <1> QED  BY <1>7, <1>8 DEF IInv

\* The user's changes of the service.
LEMMA UserHeld ==
    ASSUME IInv, NEW tv, NEW x, NEW c,
           \/ /\ x \in svc[Active].items
              /\ tv = [svc[Active] EXCEPT !.items = (@ \ {x}) \cup {[x EXCEPT !.cfg = c]}]
           \/ /\ x \in svc[Active].items /\ x.kind \notin Singletons
              /\ tv = [svc[Active] EXCEPT !.items = @ \ {x}]
    PROVE  /\ HeldOK(scene, tv, caches[Active])
           /\ scene.kind \in MarkedKinds => Follows(svc[Active], tv, Taken)
  <1> DEFINE sv == svc[Active]
  <1>1. HeldOK(scene, sv, caches[Active]) /\ scene \in Scenes
    BY ServicesAssumption DEF IInv, StateOK
  <1>2. ServiceOK(sv, scene.kind)
    BY <1>1 DEF HeldOK
  <1> HIDE DEF sv
  <1>3. CASE x \in sv.items /\ tv = [sv EXCEPT !.items = (@ \ {x}) \cup {[x EXCEPT !.cfg = c]}]
    <2> DEFINE y == [x EXCEPT !.cfg = c]
               kept == sv.items \ {x}
    <2>1. /\ DOMAIN x = {"kind", "id", "name", "cfg", "ours"} /\ x.kind = scene.kind
          /\ x.id \in 1 .. sv.next - 1 /\ sv.next \in Nat
      BY <1>2, <1>3 DEF ServiceOK
    <2>2. /\ DOMAIN y = {"kind", "id", "name", "cfg", "ours"} /\ y.kind = x.kind
          /\ y.id = x.id /\ y.name = x.name /\ y.ours = x.ours
      BY <2>1
    <2>3. /\ DOMAIN tv = {"tag", "items", "next"} /\ tv.tag = sv.tag /\ tv.next = sv.next
          /\ tv.items = kept \cup {y}
      BY <1>2, <1>3 DEF ServiceOK
    <2> HIDE DEF y
    <2>4. \A z \in kept : z.id # y.id /\ z.name # y.name
      BY <1>2, <1>3, <2>2 DEF ServiceOK
    <2>5. scene.kind \in Singletons => kept = {}
      BY <1>2, <1>3 DEF ServiceOK
    <2>6. /\ kept \subseteq sv.items /\ tv.next \in Nat /\ sv.next <= tv.next
          /\ y.kind = scene.kind /\ y.id \in 1 .. tv.next - 1
      BY <2>1, <2>2, <2>3
    <2>7. ServiceOK(tv, scene.kind)
      <3> HIDE DEF kept
      <3> QED  BY ONLY <1>2, <2>2, <2>3, <2>4, <2>5, <2>6, ServiceWith
    <2>8. Follows(sv, tv, Taken)
      BY <1>3, <2>2, <2>3, <2>6 DEF Follows, HasTag
    <2>9. scene.kind = "QualityProfile" =>
              \A z \in tv.items : HasTag(z) => z.name \in Names(UNION scene.irs)
      BY <1>1, <1>3, <2>2, <2>3 DEF HeldOK, HasTag
    <2> QED  BY <1>1, <2>7, <2>8, <2>9, HeldFollows DEF sv
  <1>4. CASE /\ x \in sv.items /\ x.kind \notin Singletons
             /\ tv = [sv EXCEPT !.items = @ \ {x}]
    <2>1. /\ DOMAIN tv = {"tag", "items", "next"} /\ tv.tag = sv.tag /\ tv.next = sv.next
          /\ tv.items = sv.items \ {x}
      BY <1>2, <1>4 DEF ServiceOK
    <2>2. ServiceOK(tv, scene.kind)
      BY <1>2, <1>4, <2>1 DEF ServiceOK
    <2>3. Follows(sv, tv, Taken)
      BY <1>2, <2>1 DEF Follows, ServiceOK
    <2>4. scene.kind = "QualityProfile" =>
              \A z \in tv.items : HasTag(z) => z.name \in Names(UNION scene.irs)
      BY <1>1, <2>1 DEF HeldOK
    <2> QED  BY <1>1, <2>2, <2>3, <2>4, HeldFollows DEF sv
  <1> QED  BY <1>3, <1>4 DEF sv

\* A user creates a resource.
LEMMA UserCreatesHeld ==
    ASSUME IInv, NEW n, NEW c, UserCreates(n, c)
    PROVE  LET tv == Serve(svc[Active], Request("POST", scene.kind, NoId, n, c, FALSE))
           IN  /\ svc' = [svc EXCEPT ![Active] = tv] /\ HeldOK(scene, tv, caches[Active])
               /\ scene.kind \in MarkedKinds => Follows(svc[Active], tv, Taken)
  <1> DEFINE sv == svc[Active]
             q == Request("POST", scene.kind, NoId, n, c, FALSE)
             tv == Serve(sv, q)
  <1>1. HeldOK(scene, sv, caches[Active]) /\ scene \in Scenes
    BY ServicesAssumption DEF IInv, StateOK
  <1>2. ServiceOK(sv, scene.kind)
    BY <1>1 DEF HeldOK
  <1>3. q.verb = "POST" /\ q.kind = scene.kind /\ q.name = n /\ q.ours = FALSE
    BY DEF Request
  <1>4. /\ scene.kind \notin Singletons /\ Accepts(sv, q) /\ svc' = [svc EXCEPT ![Active] = tv]
        /\ n \notin Taken
    BY DEF UserCreates, Taken, Names
  <1> SUFFICES /\ HeldOK(scene, tv, caches[Active])
               /\ scene.kind \in MarkedKinds => Follows(sv, tv, Taken)
    BY <1>4
  <1> HIDE DEF sv, q
  <1>5. ServiceOK(tv, scene.kind)
    BY <1>2, <1>3, <1>4, ServeKeepsService DEF RequestOK
  <1>6. tv.items = sv.items \cup {NewItem(q, sv.next)} /\ tv.next = sv.next + 1
    BY <1>2, <1>3, ServedRequest
  <1> HIDE DEF tv
  <1>7. LET y == NewItem(q, sv.next) IN y.id = sv.next /\ y.name = n /\ y.ours = FALSE
    BY <1>3 DEF NewItem
  <1>8. Follows(sv, tv, Taken)
    BY <1>2, <1>4, <1>6, <1>7 DEF Follows, ServiceOK, HasTag
  <1>9. scene.kind = "QualityProfile" =>
            \A z \in tv.items : HasTag(z) => z.name \in Names(UNION scene.irs)
    BY <1>1, <1>6, <1>7 DEF HeldOK, HasTag
  <1> QED  BY <1>1, <1>5, <1>8, <1>9, HeldFollows

\* Drift keeps the invariant, where users leave the names in Taken alone.
LEMMA DriftKeeps ==
    ASSUME IInv, Drift, NEW tv, svc' = [svc EXCEPT ![Active] = tv], HeldOK(scene, tv, caches[Active]),
           scene.kind \in MarkedKinds => Follows(svc[Active], tv, Taken)
    PROVE  IInv'
  <1>1. /\ DOMAIN svc' = Services
        /\ \A t \in Services : HeldOK(scene, svc'[t], caches'[t])
        /\ \A ch \in pass.todo : ChangeOK(scene, svc'[pass.on], caches'[pass.on], pass.desired, ch)
    BY ServiceMoves, ServicesAssumption DEF Drift
  <1>2. UNCHANGED <<scene, want, gone, caches, edits, faults>> /\ DOMAIN settled' = Services
    BY DEF Drift, Disturb, IInv, StateOK
  <1>3. drifts' \in 0 .. scene.drifts
    BY ScenesAssumption DEF Drift, IInv, StateOK
  <1>4. StateOK'
    BY <1>1, <1>2, <1>3 DEF IInv, StateOK
  <1>5. /\ DOMAIN pass' = DOMAIN pass /\ pass'.on = pass.on /\ pass'.phase = pass.phase
        /\ pass'.desired = pass.desired /\ pass'.todo = pass.todo /\ pass'.requests = pass.requests
        /\ pass'.on \in Services \/ pass' = NoPass
    <2>1. pass' = IF pass.on = Active THEN [pass EXCEPT !.calm = FALSE] ELSE pass
      BY DEF Drift, Disturb
    <2>2. DOMAIN pass = DOMAIN NoPass /\ (pass.on \in Services \/ pass = NoPass)
      BY DEF IInv, PassOK
    <2>3. CASE pass.on = Active
      <3>1. pass' = [pass EXCEPT !.calm = FALSE] /\ pass.on \in Services
        BY <2>1, <2>3, ServicesAssumption
      <3>2. "on" \in DOMAIN NoPass /\ "phase" \in DOMAIN NoPass /\ "desired" \in DOMAIN NoPass
            /\ "todo" \in DOMAIN NoPass /\ "requests" \in DOMAIN NoPass
        BY DEF NoPass
      <3> QED  BY <2>2, <3>1, <3>2
    <2>4. CASE pass.on # Active
      BY <2>1, <2>2, <2>4
    <2> QED  BY <2>3, <2>4
  <1>6. PassOK'
    BY <1>1, <1>2, <1>5 DEF IInv, PassOK
  <1> QED  BY <1>4, <1>6 DEF IInv

\* A step of the user keeps the invariant.
LEMMA UserKeeps ==
    ASSUME IInv, UserStep
    PROVE  IInv'
  <1>1. ASSUME NEW ir \in scene.irs, UserEdits(ir) PROVE IInv'
    <2>1. want' = [want EXCEPT ![Active] = ir] /\ DOMAIN settled' = Services
      BY <1>1 DEF UserEdits, IInv, StateOK
    <2>2. UNCHANGED <<scene, svc, gone, caches, pass, drifts, faults>>
      BY <1>1 DEF UserEdits
    <2>3. edits' \in 0 .. MaxEdits
      BY <1>1, BoundsAssumption DEF UserEdits, IInv, StateOK
    <2>4. DOMAIN want' = Services /\ \A s \in Services : want'[s] \subseteq UNION scene.irs
      BY <2>1 DEF IInv, StateOK
    <2>5. StateOK'
      BY <2>1, <2>2, <2>3, <2>4 DEF IInv, StateOK
    <2>6. PassOK'
      BY <2>2 DEF IInv, PassOK
    <2> QED  BY <2>5, <2>6 DEF IInv
  <1>2. ASSUME UserDeletes PROVE IInv'
    <2>1. want' = [want EXCEPT ![Active] = {}] /\ DOMAIN settled' = Services /\ DOMAIN gone' = Services
      BY <1>2 DEF UserDeletes, IInv, StateOK
    <2>2. UNCHANGED <<scene, svc, caches, pass, drifts, faults>>
      BY <1>2 DEF UserDeletes
    <2>3. edits' \in 0 .. MaxEdits
      BY <1>2, BoundsAssumption DEF UserDeletes, IInv, StateOK
    <2>4. DOMAIN want' = Services /\ \A s \in Services : want'[s] \subseteq UNION scene.irs
      BY <2>1 DEF IInv, StateOK
    <2>5. StateOK'
      BY <2>1, <2>2, <2>3, <2>4 DEF IInv, StateOK
    <2>6. PassOK'
      BY <2>2 DEF IInv, PassOK
    <2> QED  BY <2>5, <2>6 DEF IInv
  <1>3. ASSUME NEW n, NEW c, UserCreates(n, c) PROVE IInv'
    <2> DEFINE tv == Serve(svc[Active], Request("POST", scene.kind, NoId, n, c, FALSE))
    <2>1. /\ svc' = [svc EXCEPT ![Active] = tv] /\ HeldOK(scene, tv, caches[Active])
          /\ scene.kind \in MarkedKinds => Follows(svc[Active], tv, Taken)
      BY <1>3, UserCreatesHeld
    <2>2. Drift
      BY <1>3 DEF UserCreates
    <2> HIDE DEF tv
    <2> QED  BY <2>1, <2>2, DriftKeeps
  <1>4. ASSUME NEW x \in Get(svc[Active], scene.kind), NEW c, UserWrites(x, c) PROVE IInv'
    <2> DEFINE tv == [svc[Active] EXCEPT !.items = (@ \ {x}) \cup {[x EXCEPT !.cfg = c]}]
    <2>1. svc' = [svc EXCEPT ![Active] = tv] /\ Drift /\ x \in svc[Active].items
      BY <1>4 DEF UserWrites, Get
    <2>2. /\ HeldOK(scene, tv, caches[Active])
          /\ scene.kind \in MarkedKinds => Follows(svc[Active], tv, Taken)
      BY <2>1, UserHeld
    <2> HIDE DEF tv
    <2> QED  BY <2>1, <2>2, DriftKeeps
  <1>5. ASSUME NEW x \in Get(svc[Active], scene.kind), UserRemoves(x) PROVE IInv'
    <2> DEFINE tv == [svc[Active] EXCEPT !.items = @ \ {x}]
    <2>1. /\ svc' = [svc EXCEPT ![Active] = tv] /\ Drift /\ x \in svc[Active].items
          /\ x.kind \notin Singletons
      BY <1>5 DEF UserRemoves, Get
    <2>2. /\ HeldOK(scene, tv, caches[Active])
          /\ scene.kind \in MarkedKinds => Follows(svc[Active], tv, Taken)
      BY <2>1, UserHeld
    <2> HIDE DEF tv
    <2> QED  BY <2>1, <2>2, DriftKeeps
  <1> QED  BY <1>1, <1>2, <1>3, <1>4, <1>5 DEF UserStep

\* Read keeps the invariant: the plan is checked against what was read.
LEMMA ReadKeeps ==
    ASSUME IInv, NEW s \in Services, NEW out, Read(s, out)
    PROVE  IInv'
  <1> DEFINE tag == GetOwnershipTagID(svc[s], out # "tagsLost")
             blind == IF out = "listLost" THEN {scene.kind} ELSE {}
             current == AdapterCurrentState(scene.app, svc[s], scene.schema, tag, blind)
             ids == GlobalsAfter(scene.app, current, globals)
             desired == IF gone[s] THEN {} ELSE want[s]
             plan == AdapterDiff(scene.app, current, desired, ids, gone[s])
             new == IF scene.app = "prowlarr" THEN Prowlarr!cached(caches[s], current) ELSE caches[s]
             phase == IF IsEmpty(plan) THEN "direct" ELSE "tag"
  <1>1. /\ caches' = [caches EXCEPT ![s] = new]
        /\ pass' = [NoPass EXCEPT !.on = s, !.desired = desired, !.cleanup = gone[s],
                                  !.todo = plan, !.calm = out = "ok" /\ svc[s].tag,
                                  !.settled = settled[s] /\ out = "ok", !.phase = phase]
        /\ UNCHANGED <<scene, svc, want, gone, edits, drifts>>
        /\ DOMAIN settled' = Services
    BY DEF Read, IInv, StateOK
  <1>2. faults' \in 0 .. MaxFaults
    BY BoundsAssumption DEF Read, IInv, StateOK
  <1>3. scene \in Scenes /\ HeldOK(scene, svc[s], caches[s]) /\ desired \subseteq UNION scene.irs
    BY DEF IInv, StateOK
  <1> HIDE DEF tag, blind, desired
  <1>4. HeldOK(scene, svc[s], new) /\ \A ch \in plan : ChangeOK(scene, svc[s], new, desired, ch)
    <2> HIDE DEF current, new
    <2>1. /\ current = AdapterCurrentState(scene.app, svc[s], scene.schema, tag, blind)
          /\ new = IF scene.app = "prowlarr" THEN Prowlarr!cached(caches[s], current) ELSE caches[s]
      BY DEF current, new
    <2> QED  BY ONLY <1>3, <2>1, PlanOK DEF plan, ids
  <1> HIDE DEF current, ids, plan, new
  <1>5. \A t \in Services : HeldOK(scene, svc'[t], caches'[t])
    BY <1>1, <1>4 DEF IInv, StateOK
  <1>6. StateOK'
    BY <1>1, <1>2, <1>5 DEF IInv, StateOK
  <1>7. /\ DOMAIN pass' = DOMAIN NoPass /\ pass'.on = s /\ pass'.desired = desired
        /\ pass'.todo = plan /\ pass'.requests = {} /\ pass'.phase \in {"direct", "tag"}
        /\ plan # {} => pass'.phase = "tag"
    BY <1>1 DEF NoPass, IsEmpty
  <1>8. svc'[s] = svc[s] /\ caches'[s] = new
    BY <1>1 DEF IInv, StateOK
  <1>9. PassOK'
    BY <1>1, <1>3, <1>4, <1>7, <1>8 DEF PassOK
  <1> QED  BY <1>6, <1>9 DEF IInv

\* The ownership tag is created next to the resources.
LEMMA TagHeld ==
    ASSUME NEW sv, NEW cache, HeldOK(scene, sv, cache), NEW taken
    PROVE  HeldOK(scene, EnsureOwnershipTag(sv), cache) /\ Follows(sv, EnsureOwnershipTag(sv), taken)
  <1> DEFINE tv == EnsureOwnershipTag(sv)
  <1>1. ServiceOK(sv, scene.kind)
    BY DEF HeldOK
  <1>2. /\ DOMAIN tv = {"tag", "items", "next"} /\ tv.tag = TRUE
        /\ tv.items = sv.items /\ tv.next = sv.next
    BY <1>1 DEF EnsureOwnershipTag, ServiceOK
  <1> HIDE DEF tv
  <1>3. ServiceOK(tv, scene.kind)
    BY <1>1, <1>2 DEF ServiceOK
  <1>4. Follows(sv, tv, taken)
    BY <1>1, <1>2 DEF Follows, ServiceOK
  <1>5. HeldOK(scene, tv, cache)
    BY <1>2, <1>3 DEF HeldOK, CacheOK
  <1> QED  BY <1>4, <1>5 DEF tv

\* EnsureTag keeps the invariant.
LEMMA EnsureTagKeeps ==
    ASSUME IInv, NEW out, EnsureTag(out)
    PROVE  IInv'
  <1> DEFINE s == pass.on
             tv == EnsureOwnershipTag(svc[s])
  <1>1. s \in Services
    BY PassOnService DEF IInv, EnsureTag
  <1>2. HeldOK(scene, svc[s], caches[s]) /\ scene \in Scenes
    BY <1>1 DEF IInv, StateOK
  <1>5. HeldOK(scene, tv, caches[s]) /\ Follows(svc[s], tv, Taken)
    BY <1>2, TagHeld
  <1>6. UNCHANGED <<scene, want, gone, caches, settled, edits, drifts>> /\ faults' \in 0 .. MaxFaults
    BY BoundsAssumption DEF EnsureTag, Outcome, IInv, StateOK
  <1>7. /\ DOMAIN svc' = Services
        /\ \A t \in Services : HeldOK(scene, svc'[t], caches'[t])
        /\ \A ch \in pass.todo : ChangeOK(scene, svc'[pass.on], caches'[pass.on], pass.desired, ch)
    <2>1. CASE out = "lost"
      BY <1>6, <2>1 DEF EnsureTag, IInv, StateOK, PassOK
    <2>2. CASE out # "lost"
      <3>1. svc' = [svc EXCEPT ![s] = tv]
        BY <2>2 DEF EnsureTag
      <3> HIDE DEF tv
      <3> QED  BY <1>1, <1>5, <1>6, <3>1, ServiceMoves
    <2> QED  BY <2>1, <2>2
  <1>8. StateOK'
    BY <1>6, <1>7 DEF IInv, StateOK
  <1>9. CASE out = "ok"
    <2>1. /\ DOMAIN pass' = DOMAIN NoPass /\ pass'.on = s /\ pass'.desired = pass.desired
          /\ pass'.todo = pass.todo /\ pass'.requests = pass.requests /\ pass'.phase = "apply"
      BY <1>9 DEF EnsureTag, IInv, PassOK, NoPass
    <2>2. PassOK'
      BY <1>1, <1>6, <1>7, <2>1 DEF IInv, PassOK, EnsureTag
    <2> QED  BY <1>8, <2>2 DEF IInv
  <1>10. CASE out # "ok"
    <2>1. pass' = NoPass
      BY <1>10 DEF EnsureTag
    <2> QED  BY <1>2, <1>6, <1>8, <2>1, NoPassOK DEF IInv
  <1> QED  BY <1>9, <1>10

\* What a call does to the services.
LEMMA SentTo ==
    ASSUME NEW q, NEW out, Send(q, out), pass.on \in Services, DOMAIN svc = Services
    PROVE  /\ DOMAIN svc' = Services
           /\ svc'[pass.on] = IF out # "lost" /\ Accepts(svc[pass.on], q)
                              THEN Serve(svc[pass.on], q) ELSE svc[pass.on]
           /\ \A t \in Services \ {pass.on} : svc'[t] = svc[t]
  <1>1. CASE out # "lost" /\ Accepts(svc[pass.on], q)
    <2>1. svc' = [svc EXCEPT ![pass.on] = Serve(svc[pass.on], q)]
      BY <1>1 DEF Send
    <2> QED  BY <1>1, <2>1
  <1>2. CASE ~(out # "lost" /\ Accepts(svc[pass.on], q))
    BY <1>2 DEF Send
  <1> QED  BY <1>1, <1>2

\* Of the changes that are left, none is lost from sight.
LEMMA ApplyOneKeeps ==
    ASSUME IInv, NEW ch \in pass.todo, NEW out, ApplyOne(ch, out)
    PROVE  IInv'
  <1> DEFINE s == pass.on
             q == RequestFor(s, ch)
             tv == IF out # "lost" /\ Accepts(svc[s], q) THEN Serve(svc[s], q) ELSE svc[s]
             new == IF scene.app = "prowlarr"
                    THEN Prowlarr!CacheAfter(svc[s], caches[s], ch, Done(q, out)) ELSE caches[s]
  <1>1. s \in Services
    BY PassOnService DEF IInv, ApplyOne
  <1>2. /\ HeldOK(scene, svc[s], caches[s]) /\ scene \in Scenes
        /\ ChangeOK(scene, svc[s], caches[s], pass.desired, ch)
        /\ pass.desired \subseteq UNION scene.irs
        /\ DOMAIN svc = Services /\ DOMAIN caches = Services
    BY <1>1 DEF IInv, StateOK, PassOK
  <1>3. /\ DOMAIN svc' = Services /\ svc'[s] = tv /\ \A t \in Services \ {s} : svc'[t] = svc[t]
        /\ caches' = [caches EXCEPT ![s] = new]
        /\ pass' = [pass EXCEPT !.todo = @ \ {ch}, !.failed = @ \/ ~Done(q, out)]
        /\ UNCHANGED <<scene, want, gone, settled, edits, drifts>>
        /\ pass.phase = "apply"
    <2>1. /\ Send(q, out) /\ caches' = [caches EXCEPT ![s] = new]
          /\ pass' = [pass EXCEPT !.todo = @ \ {ch}, !.failed = @ \/ ~Done(q, out)]
          /\ UNCHANGED <<scene, want, gone, settled, edits, drifts>> /\ pass.phase = "apply"
      BY DEF ApplyOne
    <2> QED  BY <1>1, <1>2, <2>1, SentTo
  <1>4. faults' \in 0 .. MaxFaults
    BY BoundsAssumption DEF ApplyOne, Outcome, IInv, StateOK
  <1>5. Sound(scene, svc[s], q, pass.desired)
    BY <1>2, RequestSound DEF RequestFor, HeldOK
  <1>6. /\ q = AdapterApply(scene.app, svc[s], scene.schema, caches[s], ch)
        /\ Done(q, out) => tv = Serve(svc[s], q)
    BY DEF RequestFor, Done
  <1> DEFINE taken == Names(pass.todo)
  <1> HIDE DEF q, taken
  <1>7. /\ HeldOK(scene, tv, caches[s])
        /\ scene.kind \in MarkedKinds => Follows(svc[s], tv, taken)
    <2>1. CASE out # "lost" /\ Accepts(svc[s], q)
      BY <1>2, <1>5, <2>1, ServeHeld
    <2>2. CASE ~(out # "lost" /\ Accepts(svc[s], q))
      <3>1. tv = svc[s] /\ svc[s].next \in Nat
        BY <1>2, <2>2 DEF HeldOK, ServiceOK
      <3> HIDE DEF tv
      <3> QED  BY <1>2, <3>1 DEF Follows
    <2> QED  BY <2>1, <2>2
  <1> HIDE DEF tv
  <1>8. ASSUME NEW other \in pass.todo
        PROVE  ChangeOK(scene, tv, caches[s], pass.desired, other)
    <2>1. ChangeOK(scene, svc[s], caches[s], pass.desired, other) /\ other.name \in taken
      BY DEF IInv, PassOK, taken, Names
    <2> QED  BY <1>2, <1>7, <2>1, ChangesFollow
  <1>9. /\ HeldOK(scene, tv, new)
        /\ \A other \in pass.todo \ {ch} : ChangeOK(scene, tv, new, pass.desired, other)
    <2>1. CASE scene.app # "prowlarr"
      BY <1>7, <1>8, <2>1
    <2>2. CASE scene.app = "prowlarr"
      <3> DEFINE done == Done(q, out)
      <3>1. q = Prowlarr!Apply(svc[s], caches[s], ch) /\ (done => tv = Serve(svc[s], q))
            /\ new = Prowlarr!CacheAfter(svc[s], caches[s], ch, done)
        BY <1>6, <2>2 DEF AdapterApply
      <3> HIDE DEF done, new
      <3>2. /\ HeldOK(scene, tv, new)
            /\ \A k \in DOMAIN caches[s] :
                   k \in DOMAIN new \/ (ch.op = "delete" /\ k = <<scene.kind, ch.name>>)
        BY ONLY <1>2, <1>7, <2>2, <3>1, CacheAfterOK
      <3>3. scene.kind \in MarkedKinds
        BY <1>2, <2>2, ProwlarrMarked
      <3>4. ASSUME NEW other \in pass.todo \ {ch}
            PROVE  ChangeOK(scene, tv, new, pass.desired, other)
        <4>1. ChangeOK(scene, tv, caches[s], pass.desired, other) /\ other # ch
          BY <1>8
        <4> QED  BY ONLY <1>2, <2>2, <3>2, <3>3, <4>1, OthersStayCached
      <3> QED  BY <3>2, <3>4
    <2> QED  BY <2>1, <2>2
  <1> HIDE DEF new
  <1>10. \A t \in Services : HeldOK(scene, svc'[t], caches'[t])
    BY <1>2, <1>3, <1>9 DEF IInv, StateOK
  <1>11. StateOK'
    BY <1>2, <1>3, <1>4, <1>10 DEF IInv, StateOK
  <1>12. /\ DOMAIN pass' = DOMAIN NoPass /\ pass'.on = s /\ pass'.desired = pass.desired
         /\ pass'.todo = pass.todo \ {ch} /\ pass'.requests = pass.requests /\ pass'.phase = "apply"
    <2>1. DOMAIN pass = DOMAIN NoPass
      BY DEF IInv, PassOK
    <2> HIDE DEF s
    <2> QED  BY <1>3, <2>1 DEF NoPass, s
  <1>13. svc'[s] = tv /\ caches'[s] = new
    BY <1>1, <1>2, <1>3
  <1>14. PassOK'
    BY <1>1, <1>3, <1>9, <1>12, <1>13 DEF IInv, PassOK
  <1> QED  BY <1>11, <1>14 DEF IInv

\* The fetches of ApplyDirect keep the invariant.
LEMMA ReadDirectKeeps ==
    ASSUME IInv, NEW out, ReadDirect(out)
    PROVE  IInv'
  <1> DEFINE s == pass.on
             tv == EnsureOwnershipTag(svc[s])
             sent == UNION {DirectRequests(s, pass.desired, k) : k \in DirectKinds}
  <1>1. s \in Services /\ pass.todo = {}
    BY PassOnService DEF IInv, ReadDirect, PassOK
  <1>2. HeldOK(scene, svc[s], caches[s]) /\ scene \in Scenes
        /\ pass.desired \subseteq UNION scene.irs
        /\ DOMAIN svc = Services /\ DOMAIN caches = Services
    BY <1>1 DEF IInv, StateOK, PassOK
  <1>3. ServiceOK(svc[s], scene.kind)
    BY <1>2 DEF HeldOK
  <1>4. /\ scene.app \in DirectAppliers /\ scene.kind \in DOMAIN DirectOrder
        /\ \A k \in DirectKinds : k = scene.kind
    BY DEF ReadDirect, DirectKinds, ApplyDirect
  <1>5. \A r \in sent : RequestOK(r, scene.kind)
    BY <1>2, <1>3, <1>4, DirectSound DEF DirectRequests
  <1>6. HeldOK(scene, tv, caches[s]) /\ Follows(svc[s], tv, Taken)
    BY <1>2, TagHeld
  <1>7. UNCHANGED <<scene, want, gone, caches, settled, edits, drifts>> /\ faults' \in 0 .. MaxFaults
    BY BoundsAssumption DEF ReadDirect, Outcome, IInv, StateOK
  <1>8. svc' = svc \/ svc' = [svc EXCEPT ![s] = tv]
    BY DEF ReadDirect
  <1>9. pass' = [pass EXCEPT !.phase = "send", !.failed = TRUE]
        \/ pass' = [pass EXCEPT !.phase = "send", !.requests = sent]
    BY DEF ReadDirect
  <1> HIDE DEF tv, sent
  <1>10. DOMAIN svc' = Services /\ \A t \in Services : HeldOK(scene, svc'[t], caches'[t])
    BY <1>6, <1>7, <1>8 DEF IInv, StateOK
  <1>11. StateOK'
    BY <1>7, <1>10 DEF IInv, StateOK
  <1>12. /\ DOMAIN pass' = DOMAIN NoPass /\ pass'.on = s /\ pass'.desired = pass.desired
         /\ pass'.todo = {} /\ pass'.requests \in {pass.requests, sent} /\ pass'.phase = "send"
    <2>1. DOMAIN pass = DOMAIN NoPass
      BY DEF IInv, PassOK
    <2> HIDE DEF s
    <2> QED  BY <1>1, <1>9, <2>1 DEF NoPass, s
  <1>13. PassOK'
    BY <1>1, <1>2, <1>4, <1>5, <1>7, <1>12 DEF IInv, PassOK
  <1> QED  BY <1>11, <1>13 DEF IInv

\* The writes of ApplyDirect keep the invariant.
LEMMA SendDirectKeeps ==
    ASSUME IInv, NEW q \in pass.requests, NEW out, SendDirect(q, out)
    PROVE  IInv'
  <1> DEFINE s == pass.on
             tv == IF out # "lost" /\ Accepts(svc[s], q) THEN Serve(svc[s], q) ELSE svc[s]
  <1>1. s \in Services /\ pass.todo = {}
    BY PassOnService DEF IInv, SendDirect, PassOK
  <1>2. /\ HeldOK(scene, svc[s], caches[s]) /\ scene \in Scenes
        /\ pass.desired \subseteq UNION scene.irs
        /\ DOMAIN svc = Services /\ DOMAIN caches = Services
        /\ scene.kind \in DOMAIN DirectOrder /\ RequestOK(q, scene.kind)
    BY <1>1 DEF IInv, StateOK, PassOK
  <1>3. Sound(scene, svc[s], q, pass.desired)
    BY <1>2 DEF Sound, DirectOrder, MarkedKinds, PrefixKinds
  <1>4. HeldOK(scene, tv, caches[s])
    BY <1>2, <1>3, ServeHeld
  <1>5. /\ DOMAIN svc' = Services /\ svc'[s] = tv /\ \A t \in Services \ {s} : svc'[t] = svc[t]
        /\ UNCHANGED <<scene, want, gone, caches, settled, edits, drifts>> /\ faults' \in 0 .. MaxFaults
        /\ pass' = [pass EXCEPT !.requests = @ \ {q}, !.failed = @ \/ ~Done(q, out)]
        /\ pass.phase = "send"
    <2>1. /\ Send(q, out) /\ UNCHANGED <<scene, want, gone, caches, settled, edits, drifts>>
          /\ pass' = [pass EXCEPT !.requests = @ \ {q}, !.failed = @ \/ ~Done(q, out)]
          /\ pass.phase = "send"
      BY DEF SendDirect
    <2>2. faults' \in 0 .. MaxFaults
      BY BoundsAssumption DEF SendDirect, Outcome, IInv, StateOK
    <2> QED  BY <1>1, <1>2, <2>1, <2>2, SentTo
  <1> HIDE DEF tv
  <1>6. DOMAIN svc' = Services /\ \A t \in Services : HeldOK(scene, svc'[t], caches'[t])
    BY <1>4, <1>5 DEF IInv, StateOK
  <1>7. StateOK'
    BY <1>5, <1>6 DEF IInv, StateOK
  <1>8. /\ DOMAIN pass' = DOMAIN NoPass /\ pass'.on = s /\ pass'.desired = pass.desired
        /\ pass'.todo = {} /\ pass'.requests = pass.requests \ {q} /\ pass'.phase = "send"
    <2>1. DOMAIN pass = DOMAIN NoPass
      BY DEF IInv, PassOK
    <2> HIDE DEF s
    <2> QED  BY <1>1, <1>5, <2>1 DEF NoPass, s
  <1>9. PassOK'
    BY <1>1, <1>2, <1>5, <1>8 DEF IInv, PassOK
  <1> QED  BY <1>7, <1>9 DEF IInv

\* The end of a pass keeps the invariant.
LEMMA FinishKeeps ==
    ASSUME IInv, Finish
    PROVE  IInv'
  <1>1. /\ UNCHANGED <<scene, svc, want, gone, caches, edits, drifts, faults>>
        /\ DOMAIN settled' = Services /\ pass' = NoPass
    BY DEF Finish, IInv, StateOK
  <1>2. StateOK'
    BY <1>1 DEF IInv, StateOK
  <1> QED  BY <1>1, <1>2, NoPassOK DEF IInv, StateOK

\* A restart keeps the invariant: the pass and the caches are forgotten.
LEMMA CrashKeeps ==
    ASSUME IInv, Crash
    PROVE  IInv'
  <1>1. /\ UNCHANGED <<scene, svc, want, gone, settled, edits, drifts>>
        /\ caches' = [s \in Services |-> [k \in {} |-> NoId]] /\ pass' = NoPass
        /\ faults' \in 0 .. MaxFaults
    BY BoundsAssumption DEF Crash, IInv, StateOK
  <1>2. \A s \in Services : HeldOK(scene, svc'[s], caches'[s])
    BY <1>1 DEF IInv, StateOK, HeldOK, CacheOK
  <1>3. StateOK'
    BY <1>1, <1>2 DEF IInv, StateOK
  <1> QED  BY <1>1, <1>3, NoPassOK DEF IInv, StateOK

\* Every step keeps the invariant.
LEMMA IInvKept ==
    ASSUME IInv, [Next]_vars
    PROVE  IInv'
  <1>1. ASSUME UNCHANGED vars PROVE IInv'
    BY <1>1 DEF vars, IInv, StateOK, PassOK
  <1> QED  BY <1>1, UserKeeps, ReadKeeps, EnsureTagKeeps, ApplyOneKeeps, ReadDirectKeeps,
              SendDirectKeeps, FinishKeeps, CrashKeeps DEF Next

\* The invariant holds in every reachable state.
LEMMA Inductive == Spec => []IInv
  BY InitOK, IInvKept, PTL DEF Spec

\* Type correctness (the ids and the changes of a pass are those of its
\* service and kind).
THEOREM TypeCorrect == Spec => []TypeOK
  <1>1. ASSUME IInv PROVE TypeOK
    <2>1. ASSUME NEW s \in Services
          PROVE  /\ svc[s].tag \in BOOLEAN
                 /\ \A x \in svc[s].items : x.kind = scene.kind /\ x.id \in 1 .. svc[s].next - 1
                 /\ \A k \in DOMAIN caches[s] : caches[s][k] \in 1 .. svc[s].next - 1
      BY <1>1 DEF IInv, StateOK, HeldOK, ServiceOK, CacheOK
    <2>2. \A ch \in pass.todo : ch.op \in DOMAIN OpRank /\ ch.kind = scene.kind
      BY <1>1 DEF IInv, PassOK, ChangeOK, KnownOp, OpRank
    <2>3. edits <= MaxEdits /\ drifts <= scene.drifts /\ faults <= MaxFaults
      BY <1>1, BoundsAssumption, ScenesAssumption DEF IInv, StateOK
    <2> QED  BY <1>1, <2>1, <2>2, <2>3 DEF TypeOK, IInv, StateOK, PassOK
  <1> QED  BY <1>1, Inductive, PTL

-----------------------------------------------------------------------------
(***************************************************************************)
(* The refinement of OwnedResources.                                       *)
(***************************************************************************)
OwnedNames(items)  == {x.name : x \in {y \in items : HasTag(y)}}
\* The user's among the resources.
ForeignOnes(items) == {x \in items : ~HasTag(x)}

Mine   == [s \in Services |-> OwnedNames(Marked(s))]
\* The user's resources of the services, as OwnedResources sees them.
Theirs == [s \in Services |-> ForeignOnes(Marked(s))]
Aims   == [s \in Services |-> IF pass.on = s THEN Names(pass.desired) ELSE {}]

\* What a fair request may do: write under a desired name, or remove what is
\* owned and not desired.
Effect(items, new, names) ==
    /\ ForeignOnes(new) = ForeignOnes(items)
    /\ \/ OwnedNames(new) = OwnedNames(items)
       \/ \E n \in names : OwnedNames(new) = OwnedNames(items) \cup {n}
       \/ \E n \in OwnedNames(items) : n \notin names /\ OwnedNames(new) = OwnedNames(items) \ {n}

\* A fair request leaves the user's resources as they are, and the names of the
\* operator's within what the abstract step allows.
LEMMA FairEffect ==
    ASSUME NEW sv, NEW kind, NEW q, NEW desired,
           ServiceOK(sv, kind), RequestOK(q, kind), Accepts(sv, q), Fair(sv, q, desired)
    PROVE  Effect(sv.items, Serve(sv, q).items, Names(desired))
  <1> DEFINE tv == Serve(sv, q)
             names == Names(desired)
  <1>0. /\ q.verb = "POST" => tv.items = sv.items \cup {NewItem(q, sv.next)}
        /\ q.verb = "PUT" => tv.items = OtherItems(sv, q) \cup {NewItem(q, q.id)}
        /\ q.verb = "DELETE" => tv.items = OtherItems(sv, q)
        /\ q.verb \in {"none", "bad"} => tv = sv
    BY ServedRequest
  <1> SUFFICES Effect(sv.items, tv.items, names)
    OBVIOUS
  <1> HIDE DEF tv, names
  <1>1. \A id : NewItem(q, id).name = q.name /\ NewItem(q, id).ours = q.ours
    BY DEF NewItem
  <1>2. OtherItems(sv, q) \subseteq sv.items /\ \A x \in sv.items : x \in OtherItems(sv, q) \/ x.id = q.id
    BY DEF OtherItems
  <1>3. \A x, y \in sv.items : x.name = y.name \/ x.id = y.id => x = y
    BY DEF ServiceOK
  <1>4. CASE q.verb = "POST"
    <2>1. q.ours = TRUE /\ q.name \in names
      BY <1>4 DEF Fair, names
    <2>2. ForeignOnes(tv.items) = ForeignOnes(sv.items)
      BY <1>0, <1>1, <1>4, <2>1 DEF ForeignOnes, HasTag
    <2>3. OwnedNames(tv.items) = OwnedNames(sv.items) \cup {q.name}
      BY <1>0, <1>1, <1>4, <2>1 DEF OwnedNames, HasTag
    <2> QED  BY <2>1, <2>2, <2>3 DEF Effect
  <1>5. CASE q.verb = "PUT"
    <2>1. /\ q.ours = TRUE /\ q.name \in names
          /\ \A x \in sv.items : x.id = q.id => HasTag(x) /\ x.name = q.name
      BY <1>5 DEF Fair, names
    <2>2. ForeignOnes(tv.items) = ForeignOnes(sv.items)
      BY <1>0, <1>1, <1>2, <1>5, <2>1 DEF ForeignOnes, HasTag
    <2>3. OwnedNames(tv.items) = OwnedNames(sv.items) \cup {q.name}
      <3>1. \A x \in OtherItems(sv, q) : HasTag(x) => x.name \in OwnedNames(sv.items)
        BY <1>2 DEF OwnedNames
      <3>2. \A x \in sv.items : HasTag(x) => x \in OtherItems(sv, q) \/ x.name = q.name
        BY <1>2, <2>1
      <3> QED  BY <1>0, <1>1, <1>2, <1>5, <2>1, <3>1, <3>2 DEF OwnedNames, HasTag
    <2> QED  BY <2>1, <2>2, <2>3 DEF Effect
  <1>6. CASE q.verb = "DELETE"
    <2>1. \A x \in sv.items : x.id = q.id => HasTag(x) /\ x.name \notin names
      BY <1>6 DEF Fair, names
    <2>2. PICK x \in sv.items : x.id = q.id /\ x.kind = q.kind
      BY <1>6 DEF Accepts, Get
    <2>3. tv.items = sv.items \ {x}
      BY <1>0, <1>3, <1>6, <2>2 DEF OtherItems
    <2>4. ForeignOnes(tv.items) = ForeignOnes(sv.items)
      BY <2>1, <2>2, <2>3 DEF ForeignOnes
    <2>5. OwnedNames(tv.items) = OwnedNames(sv.items) \ {x.name}
      BY <1>3, <2>2, <2>3 DEF OwnedNames
    <2>6. x.name \in OwnedNames(sv.items) /\ x.name \notin names
      BY <2>1, <2>2 DEF OwnedNames
    <2> QED  BY <2>4, <2>5, <2>6 DEF Effect
  <1>7. CASE q.verb \in {"none", "bad"}
    BY <1>0, <1>7 DEF Effect
  <1> QED  BY <1>4, <1>5, <1>6, <1>7 DEF RequestOK

\* The abstract steps, in the terms above.
Plans     == /\ \E s \in Services : Aims' = [Aims EXCEPT ![s] = Aims'[s]]
             /\ Mine' = Mine /\ Theirs' = Theirs /\ drifts' = drifts
Applies   == /\ Theirs' = Theirs /\ Aims' = Aims /\ drifts' = drifts
             /\ \E s \in Services :
                    \/ \E n \in Aims[s] : Mine' = [Mine EXCEPT ![s] = @ \cup {n}]
                    \/ \E n \in Mine[s] : n \notin Aims[s] /\ Mine' = [Mine EXCEPT ![s] = @ \ {n}]
Moves     == drifts' = drifts + 1 /\ Aims' = Aims
Stutters  == Mine' = Mine /\ Theirs' = Theirs /\ Aims' = Aims /\ drifts' = drifts

\* Untouched resources and an untouched target.
LEMMA SameItems ==
    ASSUME scene' = scene, \A s \in Services : svc'[s].items = svc[s].items
    PROVE  Mine' = Mine /\ Theirs' = Theirs
  <1>1. \A s \in Services : Marked(s)' = Marked(s)
    BY DEF Marked
  <1> QED  BY <1>1 DEF Mine, Theirs

\* Of an unmarked kind OwnedResources sees nothing.
LEMMA Unmarked ==
    ASSUME scene' = scene, scene.kind \notin MarkedKinds
    PROVE  Mine' = Mine /\ Theirs' = Theirs
  <1>1. \A s \in Services : Marked(s)' = Marked(s)
    BY DEF Marked
  <1> QED  BY <1>1 DEF Mine, Theirs

\* The target is that of the pass.
LEMMA SameAims ==
    ASSUME pass'.on = pass.on, pass'.desired = pass.desired
    PROVE  Aims' = Aims
  BY DEF Aims

\* A pass begins, or ends.
LEMMA AimsOfOne ==
    ASSUME NEW s \in Services, NEW f, f = Aims', \A t \in Services \ {s} : pass.on # t /\ pass'.on # t
    PROVE  f = [Aims EXCEPT ![s] = f[s]]
  BY DEF Aims

\* A pass that ends gives its target up, and no resource changes.
LEMMA PassEnds ==
    ASSUME PassOK, pass' = NoPass, scene' = scene, drifts' = drifts,
           \A s \in Services : svc'[s].items = svc[s].items
    PROVE  Plans \/ Stutters
  <1>1. Mine' = Mine /\ Theirs' = Theirs
    BY SameItems
  <1>2. pass'.on = "idle" /\ pass'.desired = {}
    BY DEF NoPass
  <1>3. CASE pass.on = "idle"
    <2>1. Aims' = Aims
      BY <1>2, <1>3, IdlePass, SameAims
    <2> QED  BY <1>1, <2>1 DEF Stutters
  <1>4. CASE pass.on # "idle"
    <2>1. pass.on \in Services
      BY <1>4, PassOnService
    <2>2. \A t \in Services \ {pass.on} : pass.on # t /\ pass'.on # t
      BY <1>2, ServicesAssumption
    <2>3. Aims' = [Aims EXCEPT ![pass.on] = Aims'[pass.on]]
      BY <2>1, <2>2, AimsOfOne
    <2> QED  BY <1>1, <2>1, <2>3 DEF Plans
  <1> QED  BY <1>3, <1>4

\* Drift is a step of the environment.
LEMMA DriftMoves ==
    ASSUME IInv, Drift
    PROVE  Moves
  <1>1. pass' = IF pass.on = Active THEN [pass EXCEPT !.calm = FALSE] ELSE pass
    BY DEF Drift, Disturb
  <1>2. DOMAIN pass = DOMAIN NoPass
    BY DEF IInv, PassOK
  <1>3. "on" \in DOMAIN NoPass /\ "desired" \in DOMAIN NoPass
    BY DEF NoPass
  <1>4. pass'.on = pass.on /\ pass'.desired = pass.desired
    BY <1>1, <1>2, <1>3
  <1> QED  BY <1>4, SameAims DEF Moves, Drift

\* Read begins a pass: it sets the target, and no resource changes.
LEMMA ReadPlans ==
    ASSUME IInv, NEW s \in Services, NEW out, Read(s, out)
    PROVE  Plans
  <1>1. pass.on = "idle" /\ UNCHANGED <<scene, svc, drifts>> /\ pass'.on = s
    BY DEF Read, NoPass
  <1>2. \A t \in Services \ {s} : pass.on # t /\ pass'.on # t
    BY <1>1, ServicesAssumption
  <1>3. Aims' = [Aims EXCEPT ![s] = Aims'[s]]
    BY <1>2, AimsOfOne
  <1> QED  BY <1>1, <1>3, SameItems DEF Plans

\* EnsureTag changes no resource.
LEMMA EnsureTagAbstract ==
    ASSUME IInv, NEW out, EnsureTag(out)
    PROVE  Plans \/ Stutters
  <1>1. pass.on \in Services /\ DOMAIN svc = Services /\ ServiceOK(svc[pass.on], scene.kind)
    BY PassOnService DEF IInv, EnsureTag, StateOK, HeldOK
  <1>2. UNCHANGED <<scene, drifts>>
    BY DEF EnsureTag
  <1>3. \A t \in Services : svc'[t].items = svc[t].items
    <2>1. EnsureOwnershipTag(svc[pass.on]).items = svc[pass.on].items
      BY <1>1 DEF EnsureOwnershipTag, ServiceOK
    <2> QED  BY <1>1, <2>1 DEF EnsureTag
  <1>4. CASE out = "ok"
    <2>1. DOMAIN pass = DOMAIN NoPass /\ pass' = [pass EXCEPT !.phase = "apply"]
      BY <1>4 DEF IInv, PassOK, EnsureTag
    <2>2. pass'.on = pass.on /\ pass'.desired = pass.desired
      BY <2>1 DEF NoPass
    <2> QED  BY <1>2, <1>3, <2>2, SameItems, SameAims DEF Stutters
  <1>5. CASE out # "ok"
    BY <1>2, <1>3, <1>5, PassEnds DEF EnsureTag, IInv
  <1> QED  BY <1>4, <1>5

\* A change applied is an abstract write or removal, or nothing.
LEMMA ApplyOneAbstract ==
    ASSUME IInv, NEW ch \in pass.todo, NEW out, ApplyOne(ch, out)
    PROVE  Applies \/ Stutters
  <1> DEFINE s == pass.on
             q == RequestFor(s, ch)
             tv == IF out # "lost" /\ Accepts(svc[s], q) THEN Serve(svc[s], q) ELSE svc[s]
  <1>1. s \in Services
    BY PassOnService DEF IInv, ApplyOne
  <1>2. /\ HeldOK(scene, svc[s], caches[s]) /\ scene \in Scenes
        /\ ChangeOK(scene, svc[s], caches[s], pass.desired, ch)
        /\ DOMAIN svc = Services /\ DOMAIN pass = DOMAIN NoPass
    BY <1>1 DEF IInv, StateOK, PassOK
  <1>3. /\ Send(q, out) /\ UNCHANGED <<scene, drifts>>
        /\ pass' = [pass EXCEPT !.todo = @ \ {ch}, !.failed = @ \/ ~Done(q, out)]
    BY DEF ApplyOne
  <1>4. svc'[s] = tv /\ \A t \in Services \ {s} : svc'[t] = svc[t]
    BY <1>1, <1>2, <1>3, SentTo
  <1>5. Sound(scene, svc[s], q, pass.desired)
    BY <1>2, RequestSound DEF RequestFor, HeldOK
  <1>6. Aims' = Aims /\ Aims[s] = Names(pass.desired)
    <2>1. pass'.on = pass.on /\ pass'.desired = pass.desired
      BY <1>2, <1>3 DEF NoPass
    <2> QED  BY <1>1, <2>1, SameAims DEF Aims
  <1> HIDE DEF q
  <1>7. CASE scene.kind \notin MarkedKinds
    BY <1>3, <1>6, <1>7, Unmarked DEF Stutters
  <1>8. CASE scene.kind \in MarkedKinds
    <2>1. Effect(svc[s].items, tv.items, Names(pass.desired))
      <3>1. CASE out # "lost" /\ Accepts(svc[s], q)
        BY <1>2, <1>5, <1>8, <3>1, FairEffect DEF HeldOK, Sound
      <3>2. CASE ~(out # "lost" /\ Accepts(svc[s], q))
        <4>1. tv = svc[s]
          BY <3>2
        <4> HIDE DEF tv
        <4> QED  BY <4>1 DEF Effect
      <3> QED  BY <3>1, <3>2
    <2> HIDE DEF tv
    <2>2. /\ \A t \in Services : Mine[t] = OwnedNames(svc[t].items) /\ Mine'[t] = OwnedNames(svc'[t].items)
          /\ \A t \in Services : Theirs[t] = ForeignOnes(svc[t].items) /\ Theirs'[t] = ForeignOnes(svc'[t].items)
      BY <1>3, <1>8 DEF Mine, Theirs, Marked
    <2>3. \A t \in Services \ {s} : Mine'[t] = Mine[t] /\ Theirs'[t] = Theirs[t]
      BY <1>4, <2>2
    <2>4. Mine'[s] = OwnedNames(tv.items) /\ Mine[s] = OwnedNames(svc[s].items)
          /\ Theirs'[s] = ForeignOnes(tv.items) /\ Theirs[s] = ForeignOnes(svc[s].items)
      BY <1>1, <1>4, <2>2
    <2>5. /\ Theirs'[s] = Theirs[s]
          /\ \/ Mine'[s] = Mine[s]
             \/ \E n \in Aims[s] : Mine'[s] = Mine[s] \cup {n}
             \/ \E n \in Mine[s] : n \notin Aims[s] /\ Mine'[s] = Mine[s] \ {n}
      BY ONLY <1>6, <2>1, <2>4 DEF Effect
    <2>6. \A f : f = Theirs' /\ f[s] = Theirs[s] => f = Theirs
      BY <1>1, <2>3 DEF Theirs
    <2>7. \A f, S : f = Mine' /\ f[s] = S => f = [Mine EXCEPT ![s] = S]
      BY <1>1, <2>3 DEF Mine
    <2>8. \A S : S = Mine[s] => [Mine EXCEPT ![s] = S] = Mine
      BY <1>1 DEF Mine
    <2>9. Theirs' = Theirs
      BY <2>5, <2>6
    <2>10. CASE Mine'[s] = Mine[s]
      BY <1>3, <1>6, <2>7, <2>8, <2>9, <2>10 DEF Stutters
    <2>11. CASE \E n \in Aims[s] : Mine'[s] = Mine[s] \cup {n}
      BY <1>1, <1>3, <1>6, <2>7, <2>9, <2>11 DEF Applies
    <2>12. CASE \E n \in Mine[s] : n \notin Aims[s] /\ Mine'[s] = Mine[s] \ {n}
      BY <1>1, <1>3, <1>6, <2>7, <2>9, <2>12 DEF Applies
    <2> QED  BY <2>5, <2>10, <2>11, <2>12
  <1> QED  BY <1>7, <1>8

\* The parts that are applied without a comparison carry no mark.
LEMMA DirectStutters ==
    ASSUME IInv, scene' = scene, drifts' = drifts,
           pass'.on = pass.on, pass'.desired = pass.desired, scene.kind \in DOMAIN DirectOrder
    PROVE  Stutters
  <1>1. scene.kind \notin MarkedKinds
    BY DEF DirectOrder, MarkedKinds, PrefixKinds
  <1> QED  BY <1>1, Unmarked, SameAims DEF Stutters

\* Every step is one that OwnedResources allows.
LEMMA StepAbstract ==
    ASSUME IInv, [Next]_vars
    PROVE  Plans \/ Applies \/ Moves \/ Stutters
  <1>1. CASE UNCHANGED vars
    <2>1. UNCHANGED <<scene, svc, pass, drifts>>
      BY <1>1 DEF vars
    <2> QED  BY <2>1, SameItems, SameAims DEF Stutters
  <1>2. CASE UserStep
    <2>1. CASE Drift
      BY <2>1, DriftMoves
    <2>2. CASE UNCHANGED <<scene, svc, pass, drifts>>
      BY <2>2, SameItems, SameAims DEF Stutters
    <2> QED  BY <1>2, <2>1, <2>2
             DEF UserStep, UserEdits, UserDeletes, UserCreates, UserWrites, UserRemoves
  <1>3. ASSUME NEW s \in Services, NEW out, Read(s, out) PROVE Plans
    BY <1>3, ReadPlans
  <1>4. ASSUME NEW out, EnsureTag(out) PROVE Plans \/ Stutters
    BY <1>4, EnsureTagAbstract
  <1>5. ASSUME NEW ch \in pass.todo, NEW out, ApplyOne(ch, out) PROVE Applies \/ Stutters
    BY <1>5, ApplyOneAbstract
  <1>6. ASSUME NEW out, ReadDirect(out) PROVE Stutters
    <2>1. UNCHANGED <<scene, drifts>> /\ scene.kind \in DOMAIN DirectOrder
      BY <1>6 DEF ReadDirect, DirectKinds, ApplyDirect
    <2>2. DOMAIN pass = DOMAIN NoPass
      BY DEF IInv, PassOK
    <2>3. pass'.on = pass.on /\ pass'.desired = pass.desired
      BY <1>6, <2>2 DEF ReadDirect, NoPass
    <2> QED  BY <2>1, <2>3, DirectStutters
  <1>7. ASSUME NEW q \in pass.requests, NEW out, SendDirect(q, out) PROVE Stutters
    <2>1. UNCHANGED <<scene, drifts>> /\ scene.kind \in DOMAIN DirectOrder
      BY <1>7 DEF SendDirect, IInv, PassOK
    <2>2. DOMAIN pass = DOMAIN NoPass
      BY DEF IInv, PassOK
    <2>3. pass'.on = pass.on /\ pass'.desired = pass.desired
      BY <1>7, <2>2 DEF SendDirect, NoPass
    <2> QED  BY <2>1, <2>3, DirectStutters
  <1>8. CASE Finish \/ Crash
    <2>1. UNCHANGED <<scene, svc, drifts>> /\ pass' = NoPass
      BY <1>8 DEF Finish, Crash
    <2> QED  BY <2>1, PassEnds DEF IInv
  <1> QED  BY <1>1, <1>2, <1>3, <1>4, <1>5, <1>6, <1>7, <1>8 DEF Next

\* The passes of the five adapters implement OwnedResources (Ownership!Spec):
\* whatever the interleaving, the faults and the drift, a marked resource of
\* the user is never touched by the operator.  (Users leave a name alone while
\* Radarr or Readarr is about to look it up: see UserCreates.)
THEOREM PassesTouchOnlyOwned == Spec => TouchesOnlyOwned
  <1>1. Init => Ownership!Init
    BY DEF Init, Ownership!Init
  <1>2. ASSUME IInv, [Next]_vars PROVE [Ownership!Next]_(Ownership!vars)
    <2>1. CASE Plans
      BY <2>1 DEF Plans, Ownership!Next, Ownership!Plan, Mine, Theirs, Aims, OwnedNames, ForeignOnes
    <2>2. CASE Applies
      BY <2>2 DEF Applies, Ownership!Next, Ownership!Write, Ownership!Drop, Mine, Theirs, Aims,
                  OwnedNames, ForeignOnes
    <2>3. CASE Moves
      BY <2>3 DEF Moves, Ownership!Next, Ownership!User, Aims
    <2>4. CASE Stutters
      BY <2>4 DEF Stutters, Ownership!vars, Mine, Theirs, Aims, OwnedNames, ForeignOnes
    <2> QED  BY <1>2, <2>1, <2>2, <2>3, <2>4, StepAbstract
  <1> QED  BY <1>1, <1>2, Inductive, PTL DEF Spec, TouchesOnlyOwned, Ownership!Spec

\* During an undisturbed cleanup what is still owned is still to be deleted;
\* after it nothing is owned.
Owing(s) == \A x \in svc[s].items : HasTag(x) => \E ch \in pass.todo : Drops(scene, ch, x)

\* What the pass of a cleanup has not deleted is in its todo list.
PassOwes ==
    pass.on \in Services =>
        /\ ~settled[pass.on]
        /\ pass.cleanup => pass.desired = {}
        /\ Cleaned(scene) /\ pass.cleanup /\ pass.calm /\ ~pass.failed => Owing(pass.on)

\* The invariant behind CleanupLeavesNothing.
CleanupInv == PassOwes /\ CleanupLeavesNothing

\* A step that leaves alone the services whose cleanup is over.
LEMMA StaysClean ==
    ASSUME IInv, CleanupLeavesNothing, scene' = scene,
           \A s \in Services : settled'[s] /\ gone'[s] => settled[s] /\ gone[s] /\ svc'[s].items = svc[s].items
    PROVE  CleanupLeavesNothing'
  <1>1. \A s \in Services : svc'[s].items = svc[s].items => Get(svc'[s], scene.kind) = Get(svc[s], scene.kind)
    BY DEF Get
  <1>2. ASSUME NEW s \in Services, settled'[s], gone'[s], scene.app # "prowlarr", scene.kind \in MarkedKinds,
               ~(scene.app \in {"radarr", "readarr"} /\ scene.kind = "QualityProfile")
        PROVE  \A x \in Get(svc'[s], scene.kind) : ~HasTag(x)
    <2>1. settled[s] /\ gone[s] /\ Get(svc'[s], scene.kind) = Get(svc[s], scene.kind)
      BY <1>1, <1>2
    <2>2. \A x \in Get(svc[s], scene.kind) : ~HasTag(x)
      BY <1>2, <2>1 DEF CleanupLeavesNothing
    <2> QED  BY <2>1, <2>2
  <1> QED  BY <1>2 DEF CleanupLeavesNothing

\* A pass that is over owes nothing.
LEMMA IdleOwesNothing ==
    ASSUME pass' = NoPass
    PROVE  PassOwes'
  BY ServicesAssumption DEF PassOwes, NoPass

\* The pass goes on with its todo list, and its service is as it was.
LEMMA StillOwes ==
    ASSUME PassOwes, scene' = scene, pass'.on = pass.on, pass'.desired = pass.desired,
           pass'.cleanup = pass.cleanup, pass'.todo = pass.todo,
           pass.on \in Services => (settled'[pass.on] => settled[pass.on]),
           pass'.calm => pass.calm /\ svc'[pass.on].items = svc[pass.on].items,
           ~pass'.failed => ~pass.failed
    PROVE  PassOwes'
  BY DEF PassOwes, Owing

\* The invariant holds initially.
LEMMA InitOwes ==
    ASSUME Init
    PROVE  CleanupInv
  <1>1. PassOwes
    BY ServicesAssumption DEF Init, NoPass, PassOwes
  <1>2. CleanupLeavesNothing
    BY DEF Init, CleanupLeavesNothing
  <1> QED  BY <1>1, <1>2 DEF CleanupInv

\* Drift spoils the cleanup or is not about the services in question.
LEMMA DriftOwes ==
    ASSUME IInv, CleanupInv, Drift, NEW tv, svc' = [svc EXCEPT ![Active] = tv]
    PROVE  CleanupInv'
  <1>1. /\ Active \in Services /\ DOMAIN svc = Services /\ DOMAIN settled = Services
        /\ DOMAIN pass = DOMAIN NoPass /\ PassOK
    BY ServicesAssumption DEF IInv, StateOK, PassOK
  <1>2. /\ settled' = [settled EXCEPT ![Active] = FALSE]
        /\ pass' = IF pass.on = Active THEN [pass EXCEPT !.calm = FALSE] ELSE pass
        /\ UNCHANGED <<scene, gone>>
    BY DEF Drift, Disturb
  <1>3. \A s \in Services : settled'[s] => s # Active /\ settled[s] /\ svc'[s] = svc[s]
    BY <1>1, <1>2
  <1>4. CleanupLeavesNothing'
    BY <1>2, <1>3, StaysClean DEF CleanupInv
  <1>5. CASE pass.on = "idle"
    <2>1. pass' = NoPass
      BY <1>1, <1>2, <1>5, IdlePass, ServicesAssumption
    <2> QED  BY <1>4, <2>1, IdleOwesNothing DEF CleanupInv
  <1>6. CASE pass.on # "idle"
    <2>1. pass.on \in Services
      BY <1>1, <1>6, PassOnService
    <2>2. /\ pass'.on = pass.on /\ pass'.desired = pass.desired /\ pass'.cleanup = pass.cleanup
          /\ pass'.todo = pass.todo /\ pass'.failed = pass.failed
          /\ pass'.calm => pass.calm /\ pass.on # Active
      <3>1. {"on", "desired", "cleanup", "todo", "failed", "calm"} \subseteq DOMAIN pass
        BY <1>1 DEF NoPass
      <3> QED  BY <1>2, <3>1
    <2>3. pass'.calm => pass.calm /\ svc'[pass.on].items = svc[pass.on].items
      BY <1>1, <2>1, <2>2
    <2>4. PassOwes'
      BY <1>2, <1>3, <2>1, <2>2, <2>3, StillOwes DEF CleanupInv
    <2> QED  BY <1>4, <2>4 DEF CleanupInv
  <1> QED  BY <1>5, <1>6

\* A step of the user keeps the invariant.
LEMMA UserOwes ==
    ASSUME IInv, CleanupInv, UserStep
    PROVE  CleanupInv'
  <1>1. CASE UserDeletes \/ \E ir \in scene.irs : UserEdits(ir)
    <2>1. /\ settled' = [settled EXCEPT ![Active] = FALSE] /\ UNCHANGED <<scene, svc, pass>>
          /\ gone' = gone \/ gone' = [gone EXCEPT ![Active] = TRUE]
      BY <1>1 DEF UserDeletes, UserEdits
    <2>2. DOMAIN settled = Services /\ DOMAIN gone = Services
      BY DEF IInv, StateOK
    <2>3. \A s \in Services : settled'[s] => settled[s] /\ gone'[s] = gone[s]
      BY <2>1, <2>2
    <2>4. CleanupLeavesNothing'
      BY <2>1, <2>3, StaysClean DEF CleanupInv
    <2>5. PassOwes'
      BY <2>1, <2>3, StillOwes DEF CleanupInv
    <2> QED  BY <2>4, <2>5 DEF CleanupInv
  <1>2. ASSUME NEW n, NEW c, UserCreates(n, c) PROVE CleanupInv'
    <2>1. PICK tv : svc' = [svc EXCEPT ![Active] = tv]
      BY <1>2 DEF UserCreates
    <2> QED  BY <1>2, <2>1, DriftOwes DEF UserCreates
  <1>3. ASSUME NEW x, NEW c, UserWrites(x, c) PROVE CleanupInv'
    <2>1. PICK tv : svc' = [svc EXCEPT ![Active] = tv]
      BY <1>3 DEF UserWrites
    <2> QED  BY <1>3, <2>1, DriftOwes DEF UserWrites
  <1>4. ASSUME NEW x, UserRemoves(x) PROVE CleanupInv'
    <2>1. PICK tv : svc' = [svc EXCEPT ![Active] = tv]
      BY <1>4 DEF UserRemoves
    <2> QED  BY <1>4, <2>1, DriftOwes DEF UserRemoves
  <1> QED  BY <1>1, <1>2, <1>3, <1>4 DEF UserStep

\* Read plans the deletion of everything that is owned, or the pass fails.
LEMMA ReadOwes ==
    ASSUME IInv, CleanupInv, NEW s \in Services, NEW out, Read(s, out)
    PROVE  CleanupInv'
  <1> DEFINE tag == GetOwnershipTagID(svc[s], out # "tagsLost")
             blind == IF out = "listLost" THEN {scene.kind} ELSE {}
             current == AdapterCurrentState(scene.app, svc[s], scene.schema, tag, blind)
             ids == GlobalsAfter(scene.app, current, globals)
             desired == IF gone[s] THEN {} ELSE want[s]
             plan == AdapterDiff(scene.app, current, desired, ids, gone[s])
             phase == IF IsEmpty(plan) THEN "direct" ELSE "tag"
  <1>1. /\ pass' = [NoPass EXCEPT !.on = s, !.desired = desired, !.cleanup = gone[s],
                                  !.todo = plan, !.calm = out = "ok" /\ svc[s].tag,
                                  !.settled = settled[s] /\ out = "ok", !.phase = phase]
        /\ settled' = [settled EXCEPT ![s] = FALSE]
        /\ UNCHANGED <<scene, svc, gone>>
    BY DEF Read
  <1>2. scene \in Scenes /\ HeldOK(scene, svc[s], caches[s]) /\ DOMAIN settled = Services
    BY DEF IInv, StateOK
  <1>3. \A t \in Services : settled'[t] => settled[t] /\ t # s
    BY <1>1, <1>2
  <1>4. CleanupLeavesNothing'
    BY <1>1, <1>3, StaysClean DEF CleanupInv
  <1>5. ASSUME Cleaned(scene), gone[s], out = "ok", svc[s].tag, NEW x \in svc[s].items, HasTag(x)
        PROVE  \E ch \in plan : Drops(scene, ch, x)
    <2>1. tag /\ scene.kind \notin blind /\ desired = {}
      BY <1>5 DEF GetOwnershipTagID
    <2>2. plan = AdapterDiff(scene.app, current, {}, ids, gone[s])
      BY <2>1
    <2>3. current = AdapterCurrentState(scene.app, svc[s], scene.schema, tag, blind)
      OBVIOUS
    <2> HIDE DEF tag, blind, current, plan
    <2>4. \E ch \in AdapterDiff(scene.app, current, {}, GlobalsAfter(scene.app, current, globals), gone[s]) :
              Drops(scene, ch, x)
      BY <1>2, <1>5, <2>1, <2>3, CleanupPlans
    <2> QED  BY <2>2, <2>4
  <1> HIDE DEF plan, phase
  <1>6. /\ pass'.on = s /\ pass'.desired = desired /\ pass'.cleanup = gone[s] /\ pass'.todo = plan
        /\ pass'.calm => out = "ok" /\ svc[s].tag
    BY <1>1 DEF NoPass
  <1>7. gone[s] => desired = {}
    OBVIOUS
  <1> HIDE DEF desired
  <1>8. PassOwes'
    BY <1>1, <1>3, <1>5, <1>6, <1>7 DEF PassOwes, Owing
  <1> QED  BY <1>4, <1>8 DEF CleanupInv

\* EnsureTag keeps the invariant.
LEMMA EnsureTagOwes ==
    ASSUME IInv, CleanupInv, NEW out, EnsureTag(out)
    PROVE  CleanupInv'
  <1>1. /\ pass.on \in Services /\ DOMAIN svc = Services /\ ServiceOK(svc[pass.on], scene.kind)
        /\ DOMAIN pass = DOMAIN NoPass
    BY PassOnService DEF IInv, EnsureTag, StateOK, HeldOK, PassOK
  <1>2. UNCHANGED <<scene, gone, settled>>
    BY DEF EnsureTag
  <1>3. \A t \in Services : svc'[t].items = svc[t].items
    <2>1. EnsureOwnershipTag(svc[pass.on]).items = svc[pass.on].items
      BY <1>1 DEF EnsureOwnershipTag, ServiceOK
    <2> QED  BY <1>1, <2>1 DEF EnsureTag
  <1>4. CleanupLeavesNothing'
    BY <1>2, <1>3, StaysClean DEF CleanupInv
  <1>5. CASE out = "ok"
    <2>1. pass' = [pass EXCEPT !.phase = "apply"]
      BY <1>5 DEF EnsureTag
    <2>2. /\ pass'.on = pass.on /\ pass'.desired = pass.desired /\ pass'.cleanup = pass.cleanup
          /\ pass'.todo = pass.todo /\ pass'.failed = pass.failed /\ pass'.calm = pass.calm
      BY <1>1, <2>1 DEF NoPass
    <2>3. PassOwes'
      BY <1>1, <1>2, <1>3, <2>2, StillOwes DEF CleanupInv
    <2> QED  BY <1>4, <2>3 DEF CleanupInv
  <1>6. CASE out # "ok"
    BY <1>4, <1>6, IdleOwesNothing DEF EnsureTag, CleanupInv
  <1> QED  BY <1>5, <1>6

\* A deletion that is worked off took its resource away, or the pass failed.
LEMMA ApplyOneOwes ==
    ASSUME IInv, CleanupInv, NEW ch \in pass.todo, NEW out, ApplyOne(ch, out)
    PROVE  CleanupInv'
  <1> DEFINE s == pass.on
             q == RequestFor(s, ch)
  <1>1. s \in Services
    BY PassOnService DEF IInv, ApplyOne
  <1>2. /\ HeldOK(scene, svc[s], caches[s]) /\ scene \in Scenes
        /\ ChangeOK(scene, svc[s], caches[s], pass.desired, ch)
        /\ DOMAIN svc = Services /\ DOMAIN pass = DOMAIN NoPass
        /\ ServiceOK(svc[s], scene.kind)
    BY <1>1 DEF IInv, StateOK, PassOK, HeldOK
  <1>3. /\ Send(q, out) /\ UNCHANGED <<scene, gone, settled>>
        /\ pass' = [pass EXCEPT !.todo = @ \ {ch}, !.failed = @ \/ ~Done(q, out)]
    BY DEF ApplyOne
  <1>4. /\ svc'[s] = IF out # "lost" /\ Accepts(svc[s], q) THEN Serve(svc[s], q) ELSE svc[s]
        /\ \A t \in Services \ {s} : svc'[t] = svc[t]
    BY <1>1, <1>2, <1>3, SentTo
  <1>5. ~settled[s] /\ (pass.cleanup => pass.desired = {})
    BY <1>1 DEF CleanupInv, PassOwes
  <1>6. CleanupLeavesNothing'
    BY <1>3, <1>4, <1>5, StaysClean DEF CleanupInv
  <1>7. /\ pass'.on = s /\ pass'.desired = pass.desired /\ pass'.cleanup = pass.cleanup
        /\ pass'.calm = pass.calm /\ pass'.todo = pass.todo \ {ch}
        /\ ~pass'.failed => ~pass.failed /\ Done(q, out)
    BY <1>2, <1>3 DEF NoPass
  <1>8. ASSUME Cleaned(scene), pass.cleanup, pass.calm, ~pass'.failed, NEW x \in svc'[s].items, HasTag(x)
        PROVE  \E other \in pass.todo \ {ch} : Drops(scene, other, x)
    <2>1. out # "lost" /\ Accepts(svc[s], q) /\ svc'[s] = Serve(svc[s], q)
      BY <1>4, <1>7, <1>8 DEF Done
    <2>2. ch.op = "delete"
      BY <1>2, <1>5, <1>8 DEF ChangeOK, Cleaned, Names
    <2>3. q = AdapterApply(scene.app, svc[s], scene.schema, caches[s], ch)
      BY DEF RequestFor
    <2> HIDE DEF q
    <2>4. x \in svc[s].items /\ ~Drops(scene, ch, x)
      BY <1>2, <1>8, <2>1, <2>2, <2>3, DeletionTakes
    <2>5. \E other \in pass.todo : Drops(scene, other, x)
      BY <1>1, <1>7, <1>8, <2>4 DEF CleanupInv, PassOwes, Owing
    <2> QED  BY <2>4, <2>5
  <1>9. PassOwes'
    BY <1>3, <1>5, <1>7, <1>8 DEF PassOwes, Owing
  <1> QED  BY <1>6, <1>9 DEF CleanupInv

\* The parts without a comparison are of kinds that a cleanup does not delete.
LEMMA DirectOwes ==
    ASSUME IInv, CleanupInv, scene.kind \in DOMAIN DirectOrder, UNCHANGED <<scene, settled>>,
           pass'.on = pass.on, pass'.desired = pass.desired, pass'.cleanup = pass.cleanup
    PROVE  CleanupInv'
  <1>1. scene.kind \notin MarkedKinds
    BY DEF DirectOrder, MarkedKinds, PrefixKinds
  <1>2. CleanupLeavesNothing'
    BY <1>1 DEF CleanupLeavesNothing
  <1>3. PassOwes'
    BY <1>1 DEF CleanupInv, PassOwes, Cleaned
  <1> QED  BY <1>2, <1>3 DEF CleanupInv

\* The end of a cleanup without errors: nothing to do is left, so nothing is owned.
LEMMA FinishOwes ==
    ASSUME IInv, CleanupInv, Finish
    PROVE  CleanupInv'
  <1>1. pass.on \in Services /\ DOMAIN settled = Services
    BY PassOnService DEF Finish, IInv, StateOK
  <1>2. /\ UNCHANGED <<scene, svc, gone>> /\ pass' = NoPass
        /\ settled' = [settled EXCEPT ![pass.on] =
                          /\ pass.calm /\ ~pass.failed
                          /\ pass.desired = want[pass.on] /\ pass.cleanup = gone[pass.on]]
    BY DEF Finish
  <1>3. scene.kind \in DOMAIN DirectOrder \/ pass.todo = {}
    BY DEF Finish, IInv, PassOK
  <1>4. settled'[pass.on] => pass.calm /\ ~pass.failed /\ pass.cleanup = gone[pass.on]
    BY <1>1, <1>2
  <1>5. \A s \in Services \ {pass.on} : settled'[s] = settled[s]
    BY <1>1, <1>2
  <1>6. ASSUME NEW s \in Services, settled'[s], gone[s], Cleaned(scene)
        PROVE  \A x \in Get(svc[s], scene.kind) : ~HasTag(x)
    <2>1. CASE s # pass.on
      BY <1>5, <1>6, <2>1 DEF CleanupInv, CleanupLeavesNothing, Cleaned
    <2>2. CASE s = pass.on
      <3>1. scene.kind \notin DOMAIN DirectOrder
        BY <1>6 DEF Cleaned, DirectOrder, MarkedKinds, PrefixKinds
      <3>2. Owing(s)
        BY <1>1, <1>4, <1>6, <2>2 DEF CleanupInv, PassOwes
      <3> QED  BY <1>3, <3>1, <3>2 DEF Owing, Get
    <2> QED  BY <2>1, <2>2
  <1>7. CleanupLeavesNothing'
    BY <1>2, <1>6 DEF CleanupLeavesNothing, Cleaned
  <1> QED  BY <1>2, <1>7, IdleOwesNothing DEF CleanupInv

\* Every step keeps the invariant.
LEMMA CleanupInvKept ==
    ASSUME IInv, CleanupInv, [Next]_vars
    PROVE  CleanupInv'
  <1>1. CASE UNCHANGED vars
    BY <1>1 DEF vars, CleanupInv, PassOwes, Owing, CleanupLeavesNothing
  <1>2. ASSUME NEW out, ReadDirect(out) PROVE CleanupInv'
    <2>1. UNCHANGED <<scene, settled>> /\ scene.kind \in DOMAIN DirectOrder /\ DOMAIN pass = DOMAIN NoPass
      BY <1>2 DEF ReadDirect, DirectKinds, ApplyDirect, IInv, PassOK
    <2>2. pass'.on = pass.on /\ pass'.desired = pass.desired /\ pass'.cleanup = pass.cleanup
      BY <1>2, <2>1 DEF ReadDirect, NoPass
    <2> QED  BY <2>1, <2>2, DirectOwes
  <1>3. ASSUME NEW q \in pass.requests, NEW out, SendDirect(q, out) PROVE CleanupInv'
    <2>1. UNCHANGED <<scene, settled>> /\ scene.kind \in DOMAIN DirectOrder /\ DOMAIN pass = DOMAIN NoPass
      BY <1>3 DEF SendDirect, IInv, PassOK
    <2>2. pass'.on = pass.on /\ pass'.desired = pass.desired /\ pass'.cleanup = pass.cleanup
      BY <1>3, <2>1 DEF SendDirect, NoPass
    <2> QED  BY <2>1, <2>2, DirectOwes
  <1>4. CASE Crash
    <2>1. UNCHANGED <<scene, svc, gone, settled>> /\ pass' = NoPass
      BY <1>4 DEF Crash
    <2> QED  BY <2>1, StaysClean, IdleOwesNothing DEF CleanupInv
  <1> QED  BY <1>1, <1>2, <1>3, <1>4, UserOwes, ReadOwes, EnsureTagOwes, ApplyOneOwes, FinishOwes
           DEF Next

\* After a clean pass for a deleted object, none of the operator's resources is
\* left in the service (ReconcileHelper's cleanup, with any adapter but
\* Prowlarr's and of every marked kind but the quality profiles of Radarr and
\* Readarr, whatever the users, the faults and the other passes do).
THEOREM CleanupIsComplete == Spec => []CleanupLeavesNothing
  <1>1. CleanupInv => CleanupLeavesNothing
    BY DEF CleanupInv
  <1> QED  BY <1>1, InitOwes, CleanupInvKept, Inductive, PTL DEF Spec

=============================================================================
