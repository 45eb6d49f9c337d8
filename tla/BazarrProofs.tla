---------------------------- MODULE BazarrProofs ----------------------------
(***************************************************************************)
(* Proofs about Bazarr, for all specifications that the API server admits, *)
(* any secrets and any number of events: the type invariant, that the      *)
(* operator makes no profile twice, and that it leaves alone what is not   *)
(* its own.                                                                *)
(*                                                                         *)
(* NoDuplicateProfiles is not inductive: a pass decides by the list that   *)
(* it got before.  ListHeld says what that list is still good for: a       *)
(* profile of the operator is in it, with the name it has now, or was made *)
(* by this pass for an earlier entry of the specification.  MapsHeld says  *)
(* the same of the ConfigMap that a pass has read and is about to write or *)
(* to delete.                                                              *)
(***************************************************************************)
EXTENDS Bazarr, WellFoundedInduction, TLAPS

\* What profiles and ConfigMaps are made of.
IsProfile(p)   == DOMAIN p = {"id", "by", "body"}
IsConfigMap(c) == DOMAIN c = {"ours", "config"} /\ c.ours \in BOOLEAN

\* While the profiles are sent, the list that was got before is about the
\* profiles that are there, and misses only what this pass made.
ListHeld ==
    At("profiles") =>
        /\ pass.next \in Nat
        /\ \A q \in pass.listed : q.id \in Nat /\ q.id < svc.nextId
        /\ \A p \in svc.profiles, q \in pass.listed :
               p.id = q.id => p.body.name = q.body.name /\ p.by = q.by
        /\ \A p \in svc.profiles : p.by = "operator" =>
               \/ \E q \in pass.listed : q.id = p.id
               \/ \E s \in pass.spec : \E i \in DOMAIN Specs[s].languageProfiles :
                      i < pass.next /\ Specs[s].languageProfiles[i].name = p.body.name

\* The ConfigMap that a pass has read is the one that is there, unless it was
\* changed since; the one that it is about to delete is its own.
MapsHeld ==
    /\ \A c \in pass.cm : IsConfigMap(c)
    /\ \A c, d \in pass.cm : c = d
    /\ pass.phase \in {"putConfigMap", "drop"} /\ ~pass.cmStale =>
           \A s \in pass.spec : \A n \in Specs[s].configMapRef : cms[n] \subseteq pass.cm
    /\ At("drop") => Owned(pass.cm)

Shapes ==
    /\ \A p \in svc.profiles : IsProfile(p)
    /\ \A n \in ConfigMaps : \A c \in cms[n] : IsConfigMap(c)

IInv == TypeOK /\ Shapes /\ NoDuplicateProfiles /\ ListHeld /\ MapsHeld

-----------------------------------------------------------------------------
(***************************************************************************)
(* Numbers: a set of numbers with a bound has a last one.                  *)
(***************************************************************************)

\* The first number of a set.
LEMMA HasFirst ==
    ASSUME NEW S \in SUBSET Nat, S # {}
    PROVE  \E m \in S : \A k \in S : m <= k
<1> DEFINE R == {ss \in Nat \X Nat : ss[1] < ss[2]}
<1>1. IsWellFoundedOn(R, Nat)
  BY NatLessThanWellFounded DEF OpToRel
<1> HIDE DEF R
<1>2. PICK x \in S : \A y \in S : ~(<<y, x>> \in R)
  BY <1>1, WFMin
<1>3. \A y \in S : ~(y < x)
  BY <1>2 DEF R
<1> QED  BY <1>3

\* The last number of a set below a bound.
LEMMA HasLast ==
    ASSUME NEW b \in Nat, NEW S \in SUBSET (0 .. b), S # {}
    PROVE  \E m \in S : \A k \in S : k <= m
<1> DEFINE D == {d \in Nat : \E k \in S : d + k = b}
<1>1. \A k \in S : k \in Nat /\ b - k \in Nat /\ (b - k) + k = b
  OBVIOUS
<1>2. D \in SUBSET Nat /\ D # {}
  BY <1>1
<1>3. PICK d \in D : \A e \in D : d <= e
  <2> HIDE DEF D
  <2> QED  BY <1>2, HasFirst
<1>4. PICK m \in S : d + m = b
  BY <1>3
<1>5. ASSUME NEW k \in S
      PROVE  k <= m
  <2>1. b - k \in D
    BY <1>1
  <2>2. d \in Nat /\ d <= b - k
    BY <2>1, <1>3
  <2> QED  BY <2>2, <1>1, <1>4
<1> QED  BY <1>5

\* currentByName has a profile for every name that is in the list.
LEMMA ExistingFound ==
    ASSUME NEW listed, NEW b \in Nat, NEW name,
           \A q \in listed : q.id \in Nat /\ q.id < b
    PROVE  /\ Existing(listed, name) = {} => \A q \in listed : q.body.name # name
           /\ \A p \in Existing(listed, name) : p \in listed /\ p.body.name = name
<1> DEFINE same == {p \in listed : p.body.name = name}
           ids  == {p.id : p \in same}
<1>1. \A p \in Existing(listed, name) : p \in listed /\ p.body.name = name
  BY DEF Existing
<1>2. ASSUME NEW q \in listed, q.body.name = name
      PROVE  Existing(listed, name) # {}
  <2>1. ids \in SUBSET (0 .. b) /\ ids # {}
    BY <1>2
  <2>2. PICK m \in ids : \A k \in ids : k <= m
    <3> HIDE DEF ids
    <3> QED  BY <2>1, HasLast
  <2>3. PICK p \in same : p.id = m
    BY <2>2
  <2>4. p \in Existing(listed, name)
    BY <2>2, <2>3 DEF Existing
  <2> QED  BY <2>4
<1> QED  BY <1>1, <1>2

-----------------------------------------------------------------------------
(***************************************************************************)
(* Type correctness.                                                       *)
(***************************************************************************)

\* TypeOK of a pass.
PassOK(p) ==
    /\ DOMAIN p = DOMAIN NoPass /\ p.phase \in Phases /\ p.status \in Statuses
    /\ p.stale \in BOOLEAN /\ p.cmStale \in BOOLEAN /\ p.calm \in BOOLEAN
    /\ p.phase # "idle" => \E s \in DOMAIN Specs : p.spec = {s}

\* Between the passes there is nothing.
LEMMA NoPassOK == PassOK(NoPass)
<1>1. NoStatus \in Statuses
  BY DEF NoStatus, Statuses, Reasons
<1>2. NoPass.stale \in BOOLEAN /\ NoPass.cmStale \in BOOLEAN /\ NoPass.calm \in BOOLEAN
  <2>1. NoPass.stale = FALSE /\ NoPass.cmStale = FALSE /\ NoPass.calm = TRUE
    BY DEF NoPass
  <2> QED  BY <2>1
<1>3. NoPass.status \in Statuses /\ NoPass.phase = "idle"
  BY <1>1 DEF NoPass
<1> QED  BY <1>2, <1>3 DEF PassOK, Phases

\* TypeOK names the pass.
LEMMA PassTyped == TypeOK => PassOK(pass) /\ calm \in BOOLEAN
BY DEF TypeOK, PassOK, At

\* The fields of a pass.
LEMMA PassFields ==
    DOMAIN NoPass = {"phase", "spec", "status", "stale", "config", "cm", "cmStale", "listed", "next", "calm"}
BY DEF NoPass

\* The specification that a running pass is over.
LEMMA ThePassIs ==
    ASSUME TypeOK, ~At("idle")
    PROVE  /\ ThePass \in DOMAIN Specs
           /\ pass.spec = {ThePass}
           /\ spec = Specs[ThePass]
<1>1. PICK s \in DOMAIN Specs : pass.spec = {s}
  BY DEF TypeOK
<1>2. ThePass = s
  BY <1>1 DEF ThePass
<1> QED  BY <1>1, <1>2 DEF spec

\* A failed pass goes on to store its status.
LEMMA FailedOK ==
    ASSUME TypeOK, ~At("idle"), NEW st \in Statuses, NEW reason \in Reasons \ {"Ready"}
    PROVE  PassOK(Failed(st, reason))
<1>1. [st EXCEPT !.ready = "False", !.reason = reason] \in Statuses
  BY DEF Statuses
<1> DEFINE new == [st EXCEPT !.ready = "False", !.reason = reason]
<1> HIDE DEF new
<1>2. PassOK([pass EXCEPT !.phase = "store", !.status = new])
  BY <1>1, PassTyped, PassFields DEF PassOK, At, Phases, new
<1> QED  BY <1>2 DEF Failed, new

\* A change of a flag.
LEMMA NoticeOK ==
    ASSUME TypeOK, NEW field \in {"stale", "calm", "cmStale"}, NEW value \in BOOLEAN
    PROVE  PassOK(Notice(field, value))
BY PassTyped, PassFields DEF PassOK, Notice

\* TypeOK and Shapes of Bazarr, and of the ConfigMaps.
SvcOK ==
    /\ DOMAIN svc = {"profiles", "providers", "nextId"} /\ svc.nextId \in Nat
    /\ \A p \in svc.profiles : IsProfile(p) /\ p.id \in Nat /\ p.id < svc.nextId
    /\ \A p, q \in svc.profiles : p.id = q.id => p = q

CmsOK ==
    /\ DOMAIN cms = ConfigMaps
    /\ \A n \in ConfigMaps : \A c \in cms[n] : IsConfigMap(c)
    /\ \A n \in ConfigMaps : \A c, d \in cms[n] : c = d

ObjOK == obj \in Objects /\ (obj.exists /\ obj.deleting => obj.finalizer)

\* The invariant, part by part.
LEMMA Parts ==
    IInv <=> /\ PassOK(pass) /\ calm \in BOOLEAN
             /\ ObjOK /\ status \in Statuses /\ store \in DOMAIN SecretSets
             /\ SvcOK /\ NoDuplicateProfiles /\ ListHeld
             /\ CmsOK /\ MapsHeld
BY DEF IInv, TypeOK, Shapes, PassOK, SvcOK, CmsOK, ObjOK, At

\* The same after a step.
LEMMA PartsNext ==
    ASSUME PassOK(pass)', calm' \in BOOLEAN,
           ObjOK', status' \in Statuses, store' \in DOMAIN SecretSets,
           SvcOK', NoDuplicateProfiles', ListHeld',
           CmsOK', MapsHeld'
    PROVE  IInv'
BY DEF IInv, TypeOK, Shapes, PassOK, SvcOK, CmsOK, ObjOK, At

\* A step that leaves Bazarr alone and does not begin to send profiles.
LEMMA SvcFrame ==
    ASSUME IInv, svc' = svc,
           \/ pass'.phase # "profiles"
           \/ /\ pass'.phase = pass.phase /\ pass'.spec = pass.spec
              /\ pass'.listed = pass.listed /\ pass'.next = pass.next
    PROVE  SvcOK' /\ NoDuplicateProfiles' /\ ListHeld'
<1>1. SvcOK /\ NoDuplicateProfiles /\ ListHeld
  BY Parts
<1>2. SvcOK'
  BY <1>1 DEF SvcOK
<1>3. NoDuplicateProfiles'
  BY <1>1 DEF NoDuplicateProfiles, NamedTwice
<1>4. ListHeld'
  BY <1>1 DEF ListHeld, At
<1> QED  BY <1>2, <1>3, <1>4

\* A step that leaves the ConfigMaps alone and does not come to write one.
LEMMA CmsFrame ==
    ASSUME IInv, cms' = cms,
           \/ pass'.cm = {} /\ pass'.phase \notin {"putConfigMap", "drop"}
           \/ /\ pass'.cm = pass.cm /\ pass'.spec = pass.spec
              /\ pass'.phase \in {"putConfigMap", "drop"} =>
                     pass'.phase = pass.phase /\ (pass.cmStale => pass'.cmStale)
    PROVE  CmsOK' /\ MapsHeld'
<1>1. CmsOK /\ MapsHeld
  BY Parts
<1>2. CmsOK'
  BY <1>1 DEF CmsOK
<1>3. MapsHeld'
  BY <1>1 DEF MapsHeld, At, Owned
<1> QED  BY <1>2, <1>3

\* A step that leaves the object and the secrets alone.
LEMMA ObjFrame ==
    ASSUME IInv, obj' = obj, store' = store
    PROVE  ObjOK' /\ store' \in DOMAIN SecretSets
BY Parts DEF ObjOK

-----------------------------------------------------------------------------
(***************************************************************************)
(* What users and others do.                                               *)
(***************************************************************************)

\* A change of a flag leaves the rest of the pass as it is.
LEMMA NoticeKeeps ==
    ASSUME TypeOK, NEW field \in {"stale", "calm"}, NEW value \in BOOLEAN, pass' = Notice(field, value)
    PROVE  /\ PassOK(pass)'
           /\ pass'.phase = pass.phase /\ pass'.spec = pass.spec /\ pass'.listed = pass.listed
           /\ pass'.next = pass.next /\ pass'.cm = pass.cm /\ pass'.cmStale = pass.cmStale
<1>1. PassOK(pass')
  BY NoticeOK
<1>2. DOMAIN pass = DOMAIN NoPass
  BY DEF TypeOK
<1> QED  BY <1>1, <1>2, PassFields DEF Notice

\* An edit of the object.
LEMMA EditInv ==
    ASSUME IInv, Edit, ObjOK'
    PROVE  IInv'
<1>1. PassOK(pass)' /\ pass'.phase = pass.phase /\ pass'.spec = pass.spec /\ pass'.listed = pass.listed
      /\ pass'.next = pass.next /\ pass'.cm = pass.cm /\ pass'.cmStale = pass.cmStale
  BY NoticeKeeps DEF Edit, IInv
<1>2. SvcOK' /\ NoDuplicateProfiles' /\ ListHeld'
  BY <1>1, SvcFrame DEF Edit
<1>3. CmsOK' /\ MapsHeld'
  BY <1>1, CmsFrame DEF Edit
<1>4. status' \in Statuses
  BY Parts DEF Edit, Statuses
<1>5. calm' \in BOOLEAN /\ store' \in DOMAIN SecretSets
  BY Parts DEF Edit
<1> QED  BY <1>1, <1>2, <1>3, <1>4, <1>5, PartsNext

\* The user edits, suspends and deletes the object.
LEMMA UserInv ==
    ASSUME IInv, (\E s \in DOMAIN Specs : UserEdits(s)) \/ UserSuspends \/ UserDeletes
    PROVE  IInv'
<1> USE Parts DEF ObjOK, Objects
<1>1. CASE \E s \in DOMAIN Specs : UserEdits(s)
  BY <1>1, EditInv DEF UserEdits
<1>2. CASE UserSuspends
  BY <1>2, EditInv DEF UserSuspends
<1>3. CASE UserDeletes
  <2>1. obj' \in Objects
    BY <1>3 DEF UserDeletes
  <2>2. (obj.exists /\ obj.deleting => obj.finalizer)'
    BY <1>3 DEF UserDeletes
  <2> QED  BY <1>3, <2>1, <2>2, EditInv DEF UserDeletes
<1> QED  BY <1>1, <1>2, <1>3

\* Somebody changes secrets.
LEMMA SecretsChangeInv ==
    ASSUME IInv, NEW s \in DOMAIN SecretSets, SecretsChange(s)
    PROVE  IInv'
<1>1. PassOK(pass)' /\ pass'.phase = pass.phase /\ pass'.spec = pass.spec /\ pass'.listed = pass.listed
      /\ pass'.next = pass.next /\ pass'.cm = pass.cm /\ pass'.cmStale = pass.cmStale
  BY NoticeKeeps DEF SecretsChange, IInv
<1>2. SvcOK' /\ NoDuplicateProfiles' /\ ListHeld'
  BY <1>1, SvcFrame DEF SecretsChange
<1>3. CmsOK' /\ MapsHeld'
  BY <1>1, CmsFrame DEF SecretsChange
<1>4. status' \in Statuses /\ ObjOK' /\ store' \in DOMAIN SecretSets
  BY Parts DEF SecretsChange, Disturb, ObjOK
<1>5. calm' \in BOOLEAN
  BY DEF SecretsChange, Disturb
<1> QED  BY <1>1, <1>2, <1>3, <1>4, <1>5, PartsNext

\* Somebody changes a ConfigMap: a pass that has read it notices.
LEMMA ConfigMapChangesInv ==
    ASSUME IInv, NEW n \in ConfigMaps, NEW content \in ForeignContents(cms[n]), ConfigMapChanges(n, content)
    PROVE  IInv'
<1>1. /\ PassOK(pass)' /\ pass'.phase = pass.phase /\ pass'.spec = pass.spec /\ pass'.listed = pass.listed
      /\ pass'.next = pass.next /\ pass'.cm = pass.cm
  <2>1. PassOK(Notice("calm", FALSE)) /\ DOMAIN pass = DOMAIN NoPass
    BY NoticeOK DEF IInv, TypeOK
  <2>2. (pass.phase # "idle") \in BOOLEAN
    OBVIOUS
  <2>3. pass' = [Notice("calm", FALSE) EXCEPT !.cmStale = pass.phase # "idle"]
    BY DEF ConfigMapChanges
  <2>4. PassOK(pass')
    BY <2>1, <2>2, <2>3, PassFields DEF PassOK
  <2> QED  BY <2>1, <2>3, <2>4, PassFields DEF Notice
<1>2. SvcOK' /\ NoDuplicateProfiles' /\ ListHeld'
  BY <1>1, SvcFrame DEF ConfigMapChanges
<1>3. CmsOK /\ MapsHeld /\ cms' = [cms EXCEPT ![n] = content]
  BY Parts DEF ConfigMapChanges
<1>4. (\A c \in content : IsConfigMap(c)) /\ (\A c, d \in content : c = d)
  <2>1. CASE content = None
    BY <2>1 DEF None
  <2>2. CASE content = {[ours |-> FALSE, config |-> None]}
    BY <2>2 DEF IsConfigMap
  <2>3. CASE \E c \in cms[n] : content = {[c EXCEPT !.config = None]}
    BY <2>3, <1>3 DEF IsConfigMap, CmsOK
  <2> QED  BY <2>1, <2>2, <2>3 DEF ForeignContents
<1>5. CmsOK'
  BY <1>3, <1>4 DEF CmsOK
<1>6. MapsHeld'
  <2>1. pass.phase # "idle" => pass'.cmStale
    BY PassFields DEF ConfigMapChanges, Notice, IInv, TypeOK
  <2> QED  BY <1>1, <1>3, <2>1 DEF MapsHeld, At, Owned
<1>7. status' \in Statuses /\ ObjOK' /\ store' \in DOMAIN SecretSets
  BY Parts DEF ConfigMapChanges, Disturb, ObjOK
<1>8. calm' \in BOOLEAN
  BY DEF ConfigMapChanges, Disturb
<1> QED  BY <1>1, <1>2, <1>5, <1>6, <1>7, <1>8, PartsNext

\* Somebody makes or deletes a profile in Bazarr: no profile of the operator is
\* added, and ids are not used again.
LEMMA ProfilesChangeInv ==
    ASSUME IInv, (\E p \in svc.profiles : ProfileDeleted(p)) \/ ProfileMade
    PROVE  IInv'
<1>1. PassOK(pass)' /\ pass'.phase = pass.phase /\ pass'.spec = pass.spec /\ pass'.listed = pass.listed
      /\ pass'.next = pass.next /\ pass'.cm = pass.cm /\ pass'.cmStale = pass.cmStale
  BY NoticeKeeps DEF ProfileDeleted, ProfileMade, IInv
<1>2. CmsOK' /\ MapsHeld'
  BY <1>1, CmsFrame DEF ProfileDeleted, ProfileMade
<1>3. status' \in Statuses /\ ObjOK' /\ store' \in DOMAIN SecretSets
  BY Parts DEF ProfileDeleted, ProfileMade, Disturb, ObjOK
<1>4. calm' \in BOOLEAN
  BY DEF ProfileDeleted, ProfileMade, Disturb
<1> DEFINE foreign == [id |-> svc.nextId, by |-> "user", body |-> ForeignProfile]
<1>5. SvcOK /\ NoDuplicateProfiles /\ ListHeld
  BY Parts
<1>6. /\ svc'.profiles \subseteq svc.profiles \cup {foreign}
      /\ svc'.nextId \in Nat /\ svc.nextId <= svc'.nextId
      /\ foreign \in svc'.profiles => svc.nextId < svc'.nextId \/ foreign \in svc.profiles
      /\ DOMAIN svc' = DOMAIN svc
  <2>1. CASE ProfileMade
    BY <1>5, <2>1 DEF ProfileMade, SvcOK
  <2>2. ASSUME NEW p \in svc.profiles, ProfileDeleted(p)
        PROVE  svc'.profiles = svc.profiles \ {p} /\ svc'.nextId = svc.nextId /\ DOMAIN svc' = DOMAIN svc
    BY <1>5, <2>2 DEF ProfileDeleted, SvcOK
  <2> QED  BY <1>5, <2>1, <2>2 DEF SvcOK
<1>7. SvcOK'
  BY <1>5, <1>6 DEF SvcOK, IsProfile
<1>8. NoDuplicateProfiles'
  BY <1>5, <1>6 DEF NoDuplicateProfiles, NamedTwice
<1>9. ListHeld'
  BY <1>1, <1>5, <1>6 DEF ListHeld, At, SvcOK
<1> QED  BY <1>1, <1>2, <1>3, <1>4, <1>7, <1>8, <1>9, PartsNext

-----------------------------------------------------------------------------
(***************************************************************************)
(* The steps of a pass that do not write to Bazarr.                        *)
(***************************************************************************)

\* Kubernetes deletes the ConfigMaps of an object that is gone.
LEMMA CollectInv ==
    ASSUME IInv, NEW n \in ConfigMaps, CollectGarbage(n)
    PROVE  IInv'
<1>1. CmsOK /\ MapsHeld /\ PassOK(pass) /\ ObjOK /\ status \in Statuses /\ store \in DOMAIN SecretSets
      /\ calm \in BOOLEAN
  BY Parts
<1>2. SvcOK' /\ NoDuplicateProfiles' /\ ListHeld'
  BY SvcFrame DEF CollectGarbage
<1>3. cms' = [cms EXCEPT ![n] = {}]
  BY DEF CollectGarbage, None
<1>4. CmsOK'
  BY <1>1, <1>3 DEF CmsOK
<1>5. MapsHeld'
  BY <1>1, <1>3 DEF CollectGarbage, MapsHeld, At, Owned, CmsOK
<1>6. PassOK(pass)' /\ ObjOK' /\ status' \in Statuses /\ store' \in DOMAIN SecretSets /\ calm' \in BOOLEAN
  BY <1>1 DEF CollectGarbage, PassOK, ObjOK
<1> QED  BY <1>2, <1>4, <1>5, <1>6, PartsNext

\* The end of a pass.
LEMMA EndInv ==
    ASSUME IInv, pass' = NoPass, ObjOK', status' \in Statuses, calm' \in BOOLEAN,
           UNCHANGED <<store, cms, svc>>
    PROVE  IInv'
<1>1. PassOK(pass)'
  BY NoPassOK
<1>2. pass'.phase = "idle" /\ pass'.cm = {}
  BY DEF NoPass, None
<1>3. SvcOK' /\ NoDuplicateProfiles' /\ ListHeld'
  BY <1>2, SvcFrame
<1>4. CmsOK' /\ MapsHeld'
  BY <1>2, CmsFrame
<1>5. store' \in DOMAIN SecretSets
  BY Parts
<1> QED  BY <1>1, <1>3, <1>4, <1>5, PartsNext

\* The steps that end a pass.
LEMMA PassEndsInv ==
    ASSUME IInv, AddFinalizer \/ StoreStatus \/ RemoveFinalizer \/ Restart
    PROVE  IInv'
<1>1. PassOK(pass) /\ ObjOK /\ status \in Statuses /\ calm \in BOOLEAN
  BY Parts
<1>2. ObjOK'
  <2>1. CASE AddFinalizer
    BY <1>1, <2>1 DEF AddFinalizer, ObjOK, Objects
  <2>2. CASE RemoveFinalizer
    BY <1>1, <2>2 DEF RemoveFinalizer, ObjOK, Objects
  <2>3. CASE StoreStatus \/ Restart
    BY <1>1, <2>3 DEF StoreStatus, Restart, ObjOK
  <2> QED  BY <2>1, <2>2, <2>3
<1>3. status' \in Statuses /\ calm' \in BOOLEAN
  BY <1>1 DEF AddFinalizer, StoreStatus, RemoveFinalizer, Restart, PassOK
<1> QED  BY <1>2, <1>3, EndInv DEF AddFinalizer, StoreStatus, RemoveFinalizer, Restart

\* A step within a pass that changes nothing but the pass, keeps what it has read
\* and does not come to write.
LEMMA WithinInv ==
    ASSUME IInv, PassOK(pass)', UNCHANGED <<obj, status, store, cms, svc, calm>>,
           pass'.phase \notin {"profiles", "putConfigMap", "drop"},
           \/ pass'.cm = pass.cm /\ pass'.spec = pass.spec
           \/ pass'.cm = {}
    PROVE  IInv'
<1>1. SvcOK' /\ NoDuplicateProfiles' /\ ListHeld'
  BY SvcFrame
<1>2. CmsOK' /\ MapsHeld'
  BY CmsFrame
<1>3. ObjOK' /\ store' \in DOMAIN SecretSets /\ status' \in Statuses /\ calm' \in BOOLEAN
  BY Parts DEF ObjOK
<1> QED  BY <1>1, <1>2, <1>3, PartsNext

\* A failed pass keeps what it has read.
LEMMA FailedKeeps ==
    ASSUME TypeOK, NEW st, NEW reason
    PROVE  /\ Failed(st, reason).phase = "store" /\ Failed(st, reason).cm = pass.cm
           /\ Failed(st, reason).spec = pass.spec
BY PassFields DEF Failed, TypeOK

\* A pass begins.
LEMMA ReconcileInv ==
    ASSUME IInv, Reconcile
    PROVE  IInv'
<1>1. ObjOK /\ status \in Statuses /\ PassOK(NoPass)
  BY Parts, NoPassOK
<1>2. obj.spec \in DOMAIN Specs /\ Specs[obj.spec].configMode \in {"file", "api"}
  BY <1>1, EveryModeIsAdmitted DEF ObjOK, Objects, ValidBazarrConfigSpec
<1> DEFINE st == [status EXCEPT !.current = TRUE]
           ph == IF obj.deleting THEN "delete" ELSE IF ~obj.finalizer THEN "finalizer"
                 ELSE Specs[obj.spec].configMode
<1>3. st \in Statuses
  BY <1>1 DEF Statuses
<1>4. ph \in {"delete", "finalizer", "file", "api"}
  BY <1>2
<1>5. pass' = [NoPass EXCEPT !.spec = {obj.spec}, !.status = st, !.phase = ph]
  BY DEF Reconcile
<1> HIDE DEF st, ph
<1>6. PassOK(pass')
  BY <1>1, <1>2, <1>3, <1>4, <1>5, PassFields DEF PassOK, Phases
<1>7. pass'.phase = ph /\ pass'.cm = {}
  BY <1>5, PassFields DEF NoPass, None
<1> QED  BY <1>4, <1>6, <1>7, WithinInv DEF Reconcile

\* The condition after a file pass that has done its work.
LEMMA GeneratedOK ==
    ASSUME TypeOK, ~At("idle"), NEW st \in Statuses
    PROVE  /\ PassOK(Generated(st))
           /\ Generated(st).phase = "store" /\ Generated(st).cm = pass.cm /\ Generated(st).spec = pass.spec
<1> DEFINE new == [st EXCEPT !.ready = "True", !.reason = "Ready", !.generated = TRUE,
                             !.bazarr = FALSE, !.profiles = FALSE, !.providers = FALSE]
<1>1. new \in Statuses
  BY DEF Statuses, Reasons
<1>2. Generated(st) = [pass EXCEPT !.phase = "store", !.status = new]
  BY DEF Generated
<1> HIDE DEF new
<1> QED  BY <1>1, <1>2, PassTyped, PassFields DEF PassOK, At, Phases

\* reconcileFileMode up to the ConfigMap.
LEMMA FileModeInv ==
    ASSUME IInv, reconcileFileMode
    PROVE  IInv'
<1> DEFINE reason == FileFailure(spec)
           st     == FileStatus(reason)
<1>1. TypeOK /\ ~At("idle") /\ PassOK(pass)
  BY Parts DEF IInv, reconcileFileMode, At
<1>2. reason \in Reasons \ {"Ready"}
  BY DEF FileFailure, Reasons
<1>3. st \in Statuses
  <2>1. pass.status \in Statuses
    BY <1>1 DEF PassOK
  <2>2. (reason # "SonarrSecretResolutionFailed") \in BOOLEAN /\ (reason # "RadarrSecretResolutionFailed") \in BOOLEAN
    OBVIOUS
  <2> HIDE DEF reason
  <2> QED  BY <2>1, <2>2 DEF FileStatus, Statuses
<1>4. \/ pass' = Failed(st, reason)
      \/ pass' = Generated(st)
      \/ \E config : pass' = [pass EXCEPT !.status = st, !.config = config, !.phase = "getConfigMap"]
  BY DEF reconcileFileMode
<1> HIDE DEF st, reason
<1>5. PassOK(pass') /\ pass'.phase \in {"store", "getConfigMap"} /\ pass'.cm = pass.cm /\ pass'.spec = pass.spec
  <2>1. CASE pass' = Failed(st, reason)
    BY <1>1, <1>2, <1>3, <2>1, FailedOK, FailedKeeps
  <2>2. CASE pass' = Generated(st)
    BY <1>1, <1>3, <2>2, GeneratedOK
  <2>3. ASSUME NEW config, pass' = [pass EXCEPT !.status = st, !.config = config, !.phase = "getConfigMap"]
        PROVE  PassOK(pass') /\ pass'.phase = "getConfigMap" /\ pass'.cm = pass.cm /\ pass'.spec = pass.spec
    BY <1>1, <1>3, <2>3, PassFields DEF PassOK, Phases, At
  <2> QED  BY <1>4, <2>1, <2>2, <2>3
<1> QED  BY <1>5, WithinInv DEF reconcileFileMode

\* What a pass reads of the ConfigMap that its specification names.
LEMMA ReadMaps ==
    ASSUME IInv, ~At("idle"), NEW cm, cm = UNION {cms[n] : n \in spec.configMapRef}
    PROVE  /\ \A c \in cm : IsConfigMap(c)
           /\ \A c, d \in cm : c = d
           /\ \A s \in pass.spec : \A n \in Specs[s].configMapRef : cms[n] \subseteq cm
<1>1. TypeOK /\ CmsOK
  BY Parts DEF IInv
<1>2. /\ ThePass \in DOMAIN Specs /\ pass.spec = {ThePass} /\ spec = Specs[ThePass]
  BY <1>1, ThePassIs
<1>3. spec.configMapRef \subseteq ConfigMaps
  BY <1>2 DEF ConfigMaps
<1>4. \A m, n \in spec.configMapRef : m = n
  BY <1>2, ConfigMapRefIsPointer
<1>5. \A s \in pass.spec : Specs[s] = spec
  BY <1>2
<1> HIDE DEF spec
<1> QED  BY <1>1, <1>3, <1>4, <1>5 DEF CmsOK

\* ensureConfigMap: the Get.
LEMMA GetConfigMapInv ==
    ASSUME IInv, NEW out \in Reads, GetConfigMap(out)
    PROVE  IInv'
<1>1. TypeOK /\ ~At("idle") /\ PassOK(pass)
  BY Parts DEF IInv, GetConfigMap, At
<1>2. CASE out # "ok"
  <2>1. pass' = Failed(pass.status, "ConfigMapUpdateFailed")
    BY <1>2 DEF GetConfigMap
  <2>2. "ConfigMapUpdateFailed" \in Reasons /\ pass.status \in Statuses
    BY <1>1 DEF PassOK, Reasons
  <2>3. PassOK(pass') /\ pass'.phase = "store" /\ pass'.cm = pass.cm /\ pass'.spec = pass.spec
    BY <1>1, <2>1, <2>2, FailedOK, FailedKeeps
  <2> QED  BY <2>3, WithinInv DEF GetConfigMap
<1>3. CASE out = "ok"
  <2> DEFINE cm == UNION {cms[n] : n \in spec.configMapRef}
  <2>1. pass' = [pass EXCEPT !.phase = "putConfigMap", !.cmStale = FALSE, !.cm = cm]
    BY <1>3 DEF GetConfigMap
  <2>2. /\ \A c \in cm : IsConfigMap(c)
        /\ \A c, d \in cm : c = d
        /\ \A s \in pass.spec : \A n \in Specs[s].configMapRef : cms[n] \subseteq cm
    <3> HIDE DEF cm
    <3> QED  BY <1>1, ReadMaps DEF cm
  <2> HIDE DEF cm
  <2>3. PassOK(pass') /\ pass'.phase = "putConfigMap" /\ pass'.cm = cm /\ pass'.spec = pass.spec
    BY <1>1, <2>1, PassFields DEF PassOK, Phases, At
  <2>4. SvcOK' /\ NoDuplicateProfiles' /\ ListHeld'
    BY <2>3, SvcFrame DEF GetConfigMap
  <2>5. CmsOK' /\ ObjOK' /\ store' \in DOMAIN SecretSets /\ status' \in Statuses /\ calm' \in BOOLEAN
    BY Parts DEF GetConfigMap, ObjOK, CmsOK
  <2>6. MapsHeld'
    BY <2>2, <2>3 DEF GetConfigMap, MapsHeld, At
  <2> QED  BY <2>3, <2>4, <2>5, <2>6, PartsNext
<1> QED  BY <1>2, <1>3

\* ensureConfigMap: the Create or Update.
LEMMA PutConfigMapInv ==
    ASSUME IInv, NEW out \in Writes, PutConfigMap(out)
    PROVE  IInv'
<1>1. TypeOK /\ ~At("idle") /\ PassOK(pass) /\ CmsOK /\ MapsHeld
  BY Parts DEF IInv, PutConfigMap, At
<1>2. PassOK(pass') /\ pass'.phase = "store" /\ pass'.cm = pass.cm /\ pass'.spec = pass.spec
  <2>1. "ConfigMapUpdateFailed" \in Reasons /\ pass.status \in Statuses
    BY <1>1 DEF PassOK, Reasons
  <2>2. pass' = Failed(pass.status, "ConfigMapUpdateFailed") \/ pass' = Generated(pass.status)
    BY DEF PutConfigMap
  <2> QED  BY <1>1, <2>1, <2>2, FailedOK, FailedKeeps, GeneratedOK
<1>3. SvcOK' /\ NoDuplicateProfiles' /\ ListHeld'
  BY <1>2, SvcFrame DEF PutConfigMap
<1>4. CmsOK'
  <2> DEFINE new == Written(pass.cm, pass.config)
  <2>1. (\A c \in new : IsConfigMap(c)) /\ (\A c, d \in new : c = d)
    <3>1. CASE pass.cm = None
      BY <3>1 DEF Written, IsConfigMap
    <3>2. CASE pass.cm # None
      <4>1. new = {[c EXCEPT !.config = pass.config] : c \in pass.cm}
        BY <3>2 DEF Written
      <4>2. (\A c \in pass.cm : IsConfigMap(c)) /\ (\A c, d \in pass.cm : c = d)
        BY <1>1 DEF MapsHeld
      <4> QED  BY <4>1, <4>2 DEF IsConfigMap
    <3> QED  BY <3>1, <3>2
  <2>2. \/ cms' = cms
        \/ cms' = [n \in ConfigMaps |-> IF n \in spec.configMapRef THEN new ELSE cms[n]]
    BY DEF PutConfigMap
  <2> HIDE DEF new
  <2> QED  BY <1>1, <2>1, <2>2 DEF CmsOK
<1>5. MapsHeld'
  BY <1>1, <1>2 DEF MapsHeld, At
<1>6. ObjOK' /\ store' \in DOMAIN SecretSets /\ status' \in Statuses /\ calm' \in BOOLEAN
  BY Parts DEF PutConfigMap, ObjOK
<1> QED  BY <1>2, <1>3, <1>4, <1>5, <1>6, PartsNext

-----------------------------------------------------------------------------
(***************************************************************************)
(* API mode.                                                               *)
(***************************************************************************)

\* reconcileAPIMode up to the health of Bazarr.
LEMMA APIModeInv ==
    ASSUME IInv, NEW out \in Reads, reconcileAPIMode(out)
    PROVE  IInv'
<1> DEFINE gone == [ApiMode EXCEPT !.bazarr = FALSE]
           here == [ApiMode EXCEPT !.bazarr = TRUE]
<1>1. TypeOK /\ ~At("idle") /\ PassOK(pass)
  BY Parts DEF IInv, reconcileAPIMode, At
<1>2. ApiMode \in Statuses
  BY <1>1 DEF PassOK, ApiMode, Statuses
<1>3. gone \in Statuses /\ here \in Statuses
  BY <1>2 DEF Statuses
<1>4. {"ConnectionMissing", "BazarrSecretResolutionFailed", "BazarrConnectionFailed"} \subseteq Reasons \ {"Ready"}
  BY DEF Reasons
<1>5. \/ pass' = Failed(ApiMode, "ConnectionMissing")
      \/ pass' = Failed(gone, "BazarrSecretResolutionFailed")
      \/ pass' = Failed(gone, "BazarrConnectionFailed")
      \/ pass' = [pass EXCEPT !.phase = "health", !.status = here]
  BY DEF reconcileAPIMode
<1> HIDE DEF gone, here
<1>6. PassOK(pass') /\ pass'.phase \in {"store", "health"} /\ pass'.cm = pass.cm /\ pass'.spec = pass.spec
  <2>1. ASSUME NEW st \in Statuses, NEW reason \in Reasons \ {"Ready"}, pass' = Failed(st, reason)
        PROVE  PassOK(pass') /\ pass'.phase = "store" /\ pass'.cm = pass.cm /\ pass'.spec = pass.spec
    BY <1>1, <2>1, FailedOK, FailedKeeps
  <2>2. CASE pass' = [pass EXCEPT !.phase = "health", !.status = here]
    BY <1>1, <1>3, <2>2, PassFields DEF PassOK, Phases, At
  <2> QED  BY <1>2, <1>3, <1>4, <1>5, <2>1, <2>2
<1> QED  BY <1>6, WithinInv DEF reconcileAPIMode

\* What Bazarr says of its connections.
LEMMA GetHealthInv ==
    ASSUME IInv, NEW sonarr, NEW radarr, GetHealth(sonarr, radarr)
    PROVE  IInv'
<1>1. TypeOK /\ ~At("idle") /\ PassOK(pass)
  BY Parts DEF IInv, GetHealth, At
<1> DEFINE a  == CASE sonarr = "none" -> pass.status.sonarr [] OTHER -> sonarr = "True"
           b  == CASE radarr = "none" -> pass.status.radarr [] OTHER -> radarr = "True"
           st == [pass.status EXCEPT !.sonarr = a, !.radarr = b]
<1>2. pass.status \in Statuses
  BY <1>1 DEF PassOK
<1>3. a \in BOOLEAN /\ b \in BOOLEAN
  <2>1. pass.status.sonarr \in BOOLEAN /\ pass.status.radarr \in BOOLEAN
    BY <1>2 DEF Statuses
  <2>2. (sonarr = "True") \in BOOLEAN /\ (radarr = "True") \in BOOLEAN
    OBVIOUS
  <2> QED  BY <2>1, <2>2
<1>4. pass' = [pass EXCEPT !.phase = "list", !.status = st]
  BY <1>1, PassFields DEF GetHealth, PassOK
<1>5. st \in Statuses
  <2> HIDE DEF a, b
  <2> QED  BY <1>2, <1>3 DEF Statuses
<1> HIDE DEF st
<1>6. PassOK(pass') /\ pass'.phase = "list" /\ pass'.cm = pass.cm /\ pass'.spec = pass.spec
  BY <1>1, <1>4, <1>5, PassFields DEF PassOK, Phases, At
<1> QED  BY <1>6, WithinInv DEF GetHealth

\* The list of the profiles is got: it is all that is there.
LEMMA GetLanguageProfilesInv ==
    ASSUME IInv, NEW out \in Reads, GetLanguageProfiles(out)
    PROVE  IInv'
<1>1. TypeOK /\ ~At("idle") /\ PassOK(pass) /\ SvcOK /\ MapsHeld
  BY Parts DEF IInv, GetLanguageProfiles, At
<1>2. CASE out # "ok"
  <2> DEFINE st == [pass.status EXCEPT !.profiles = FALSE]
  <2>1. st \in Statuses
    BY <1>1 DEF PassOK, Statuses
  <2>2. pass' = Failed(st, "LanguageProfileSyncFailed") /\ "LanguageProfileSyncFailed" \in Reasons
    BY <1>2 DEF GetLanguageProfiles, Reasons
  <2> HIDE DEF st
  <2>3. PassOK(pass') /\ pass'.phase = "store" /\ pass'.cm = pass.cm /\ pass'.spec = pass.spec
    BY <1>1, <2>1, <2>2, FailedOK, FailedKeeps
  <2> QED  BY <2>3, WithinInv DEF GetLanguageProfiles
<1>3. CASE out = "ok"
  <2>1. pass' = [pass EXCEPT !.phase = "profiles", !.listed = svc.profiles, !.next = 1]
    BY <1>3 DEF GetLanguageProfiles
  <2>2. /\ PassOK(pass') /\ pass'.phase = "profiles" /\ pass'.cm = pass.cm /\ pass'.spec = pass.spec
        /\ pass'.listed = svc.profiles /\ pass'.next = 1
    BY <1>1, <2>1, PassFields DEF PassOK, Phases, At
  <2>3. CmsOK' /\ MapsHeld'
    BY <2>2, CmsFrame DEF GetLanguageProfiles
  <2>4. ListHeld'
    <3>1. \A p, q \in svc.profiles : p.id = q.id => p.body.name = q.body.name /\ p.by = q.by
      BY <1>1 DEF SvcOK
    <3>2. \A p \in svc.profiles : p.id \in Nat /\ p.id < svc.nextId /\ \E q \in svc.profiles : q.id = p.id
      BY <1>1 DEF SvcOK
    <3>3. svc' = svc
      BY DEF GetLanguageProfiles
    <3> QED  BY <2>2, <3>1, <3>2, <3>3 DEF ListHeld
  <2>5. SvcOK' /\ ObjOK' /\ store' \in DOMAIN SecretSets /\ status' \in Statuses /\ calm' \in BOOLEAN
    BY Parts DEF GetLanguageProfiles, ObjOK, SvcOK
  <2>6. NoDuplicateProfiles'
    BY DEF GetLanguageProfiles, IInv, NoDuplicateProfiles, NamedTwice
  <2> QED  BY <2>2, <2>3, <2>4, <2>5, <2>6, PartsNext
<1> QED  BY <1>2, <1>3

\* The profile to update, when there is one, and the profiles of that name.
LEMMA DesiredFacts ==
    ASSUME IInv, At("profiles"), pass.next \in DOMAIN spec.languageProfiles,
           NEW body, body = ApiProfile(spec.languageProfiles[pass.next])
    PROVE  /\ body.name = spec.languageProfiles[pass.next].name
           /\ Existing(pass.listed, body.name) = {} => \A q \in pass.listed : q.body.name # body.name
           /\ \A p \in Existing(pass.listed, body.name) : p \in pass.listed /\ p.body.name = body.name
<1>1. SvcOK /\ ListHeld
  BY Parts
<1>2. svc.nextId \in Nat /\ \A q \in pass.listed : q.id \in Nat /\ q.id < svc.nextId
  BY <1>1 DEF SvcOK, ListHeld
<1>3. body.name = spec.languageProfiles[pass.next].name
  BY DEF ApiProfile
<1> QED  BY <1>2, <1>3, ExistingFound

\* A profile is made.  The list has none of its name; if the operator has made
\* one meanwhile, it was this pass, for an earlier entry with the name.
LEMMA CreateInv ==
    ASSUME IInv, At("profiles"), pass.next \in DOMAIN spec.languageProfiles,
           NEW body, body.name = spec.languageProfiles[pass.next].name,
           \A q \in pass.listed : q.body.name # body.name,
           svc' = CreateLanguageProfile(body),
           pass' = [pass EXCEPT !.next = pass.next + 1]
    PROVE  SvcOK' /\ NoDuplicateProfiles' /\ ListHeld'
<1> DEFINE made == [id |-> svc.nextId, by |-> "operator", body |-> body]
<1>1. TypeOK /\ SvcOK /\ ListHeld /\ NoDuplicateProfiles
  BY Parts DEF IInv
<1>2. ThePass \in DOMAIN Specs /\ pass.spec = {ThePass} /\ spec = Specs[ThePass]
  BY <1>1, ThePassIs DEF At
<1>3. /\ DOMAIN svc' = DOMAIN svc
      /\ svc'.profiles = svc.profiles \cup {made}
      /\ svc'.nextId = svc.nextId + 1
  BY <1>1 DEF CreateLanguageProfile, SvcOK
<1>4. /\ pass'.phase = "profiles" /\ pass'.spec = pass.spec /\ pass'.listed = pass.listed
      /\ pass'.next = pass.next + 1 /\ pass.next \in Nat
  BY <1>1, PassFields DEF TypeOK, At, ListHeld
<1>5. made.id = svc.nextId /\ made.by = "operator" /\ made.body = body /\ IsProfile(made)
  BY DEF IsProfile
<1> HIDE DEF made
<1>6. SvcOK'
  BY <1>1, <1>3, <1>5 DEF SvcOK
<1>7. ASSUME NEW p \in svc.profiles, p.by = "operator", p.body.name = body.name
      PROVE  NamedTwice(body.name)
  <2>1. ~\E q \in pass.listed : q.id = p.id
    BY <1>1, <1>7 DEF ListHeld
  <2>2. PICK i \in DOMAIN spec.languageProfiles :
            i < pass.next /\ spec.languageProfiles[i].name = body.name
    BY <1>1, <1>2, <1>7, <2>1 DEF ListHeld
  <2>3. i # pass.next
    BY <1>2, <1>4, <2>2, LanguageProfilesIsList
  <2> QED  BY <1>2, <2>2, <2>3 DEF NamedTwice
<1>8. NoDuplicateProfiles'
  <2> SUFFICES ASSUME NEW p \in svc'.profiles, NEW q \in svc'.profiles,
                      p.by = "operator", q.by = "operator", p.body.name = q.body.name
               PROVE  p = q \/ NamedTwice(p.body.name)
    BY DEF NoDuplicateProfiles, NamedTwice
  <2> QED  BY <1>1, <1>3, <1>5, <1>7 DEF NoDuplicateProfiles
<1>9. ListHeld'
  <2>1. \A q \in pass.listed : q.id \in Nat /\ q.id < svc.nextId + 1 /\ q.id # made.id
    BY <1>1, <1>5 DEF ListHeld, SvcOK
  <2>2. \A p \in svc'.profiles, q \in pass.listed :
            p.id = q.id => p.body.name = q.body.name /\ p.by = q.by
    BY <1>1, <1>3, <2>1 DEF ListHeld
  <2>3. ASSUME NEW p \in svc'.profiles, p.by = "operator"
        PROVE  \/ \E q \in pass.listed : q.id = p.id
               \/ \E s \in pass.spec : \E i \in DOMAIN Specs[s].languageProfiles :
                      i < pass.next + 1 /\ Specs[s].languageProfiles[i].name = p.body.name
    <3>1. CASE p = made
      BY <1>2, <1>4, <1>5, <3>1
    <3>2. CASE p \in svc.profiles
      <4>1. \/ \E q \in pass.listed : q.id = p.id
            \/ \E i \in DOMAIN spec.languageProfiles :
                   i < pass.next /\ spec.languageProfiles[i].name = p.body.name
        BY <1>1, <1>2, <2>3, <3>2 DEF ListHeld
      <4>2. \A i \in DOMAIN spec.languageProfiles : i < pass.next => i < pass.next + 1
        BY <1>2, <1>4, LanguageProfilesIsList
      <4> QED  BY <1>2, <4>1, <4>2
    <3> QED  BY <1>3, <3>1, <3>2
  <2> QED  BY <1>1, <1>3, <1>4, <2>1, <2>2, <2>3 DEF ListHeld, SvcOK
<1> QED  BY <1>6, <1>8, <1>9

\* What an update leaves of the profiles: it touches those with the name that it
\* sends, and none changes its id, its maker or its name.
LEMMA UpdateFacts ==
    ASSUME IInv, At("profiles"), NEW body, NEW p \in pass.listed, p.body.name = body.name,
           svc' = UpdateLanguageProfile(p, body)
    PROVE  /\ DOMAIN svc' = DOMAIN svc /\ svc'.nextId = svc.nextId
           /\ \A q \in svc.profiles : q \in svc'.profiles \/ q.body.name = body.name
           /\ \A r \in svc'.profiles : IsProfile(r)
           /\ \A r \in svc'.profiles : \E q \in svc.profiles :
                  /\ r.id = q.id /\ r.by = q.by /\ r.body.name = q.body.name
                  /\ r = IF q.id = p.id THEN [q EXCEPT !.body = body] ELSE q
<1>1. SvcOK /\ ListHeld
  BY Parts
<1>2. /\ svc'.profiles = {IF q.id = p.id THEN [q EXCEPT !.body = body] ELSE q : q \in svc.profiles}
      /\ DOMAIN svc' = DOMAIN svc /\ svc'.nextId = svc.nextId
  BY <1>1 DEF UpdateLanguageProfile, SvcOK
<1>3. \A q \in svc.profiles : q.id = p.id => q.body.name = body.name
  BY <1>1 DEF ListHeld
<1>4. \A q \in svc.profiles : q \in svc'.profiles \/ q.body.name = body.name
  BY <1>2, <1>3
<1>5. ASSUME NEW q \in svc.profiles
      PROVE  LET r == IF q.id = p.id THEN [q EXCEPT !.body = body] ELSE q
             IN  IsProfile(r) /\ r.id = q.id /\ r.by = q.by /\ r.body.name = q.body.name
  BY <1>1, <1>3 DEF SvcOK, IsProfile
<1>6. ASSUME NEW r \in svc'.profiles
      PROVE  IsProfile(r) /\ \E q \in svc.profiles :
                 /\ r.id = q.id /\ r.by = q.by /\ r.body.name = q.body.name
                 /\ r = IF q.id = p.id THEN [q EXCEPT !.body = body] ELSE q
  <2>1. PICK q \in svc.profiles : r = IF q.id = p.id THEN [q EXCEPT !.body = body] ELSE q
    BY <1>2, <1>6
  <2> QED  BY <1>5, <2>1
<1> QED  BY <1>2, <1>4, <1>6

\* A profile is updated.
LEMMA UpdateInv ==
    ASSUME IInv, At("profiles"), NEW body, NEW p \in pass.listed, p.body.name = body.name,
           svc' = UpdateLanguageProfile(p, body),
           pass' = [pass EXCEPT !.next = pass.next + 1]
    PROVE  SvcOK' /\ NoDuplicateProfiles' /\ ListHeld'
<1> DEFINE F(r, q) == /\ r.id = q.id /\ r.by = q.by /\ r.body.name = q.body.name
                      /\ r = IF q.id = p.id THEN [q EXCEPT !.body = body] ELSE q
<1>1. TypeOK /\ SvcOK /\ ListHeld /\ NoDuplicateProfiles
  BY Parts DEF IInv
<1>2. /\ DOMAIN svc' = DOMAIN svc /\ svc'.nextId = svc.nextId
      /\ \A r \in svc'.profiles : IsProfile(r)
      /\ \A r \in svc'.profiles : \E q \in svc.profiles : F(r, q)
  BY UpdateFacts
<1>3. \A q, q2, r, r2 : F(r, q) /\ F(r2, q2) /\ q = q2 => r = r2
  OBVIOUS
<1>4. \A r, q : F(r, q) => r.id = q.id /\ r.by = q.by /\ r.body.name = q.body.name
  OBVIOUS
<1> HIDE DEF F
<1>5. SvcOK'
  BY <1>1, <1>2, <1>3, <1>4 DEF SvcOK
<1>6. NoDuplicateProfiles'
  <2> SUFFICES ASSUME NEW r \in svc'.profiles, NEW r2 \in svc'.profiles,
                      r.by = "operator", r2.by = "operator", r.body.name = r2.body.name
               PROVE  r = r2 \/ NamedTwice(r.body.name)
    BY DEF NoDuplicateProfiles, NamedTwice
  <2>1. PICK q \in svc.profiles : F(r, q)
    BY <1>2
  <2>2. PICK q2 \in svc.profiles : F(r2, q2)
    BY <1>2
  <2>3. q = q2 \/ NamedTwice(q.body.name)
    BY <1>1, <1>4, <2>1, <2>2 DEF NoDuplicateProfiles
  <2> QED  BY <1>3, <1>4, <2>1, <2>2, <2>3
<1>7. ThePass \in DOMAIN Specs /\ pass.spec = {ThePass}
  BY <1>1, ThePassIs DEF At
<1>8. /\ pass'.phase = "profiles" /\ pass'.spec = pass.spec /\ pass'.listed = pass.listed
      /\ pass'.next = pass.next + 1 /\ pass.next \in Nat
  BY <1>1, PassFields DEF TypeOK, At, ListHeld
<1>9. ListHeld'
  <2>1. \A r \in svc'.profiles, q \in pass.listed :
            r.id = q.id => r.body.name = q.body.name /\ r.by = q.by
    BY <1>1, <1>2, <1>4 DEF ListHeld
  <2>2. ASSUME NEW r \in svc'.profiles, r.by = "operator"
        PROVE  \/ \E q \in pass.listed : q.id = r.id
               \/ \E s \in pass.spec : \E i \in DOMAIN Specs[s].languageProfiles :
                      i < pass.next + 1 /\ Specs[s].languageProfiles[i].name = r.body.name
    <3>1. PICK q \in svc.profiles : F(r, q)
      BY <1>2
    <3>2. \/ \E x \in pass.listed : x.id = r.id
          \/ \E s \in pass.spec : \E i \in DOMAIN Specs[s].languageProfiles :
                 i < pass.next /\ Specs[s].languageProfiles[i].name = r.body.name
      BY <1>1, <1>4, <2>2, <3>1 DEF ListHeld
    <3>3. \A s \in pass.spec : \A i \in DOMAIN Specs[s].languageProfiles : i < pass.next => i < pass.next + 1
      BY <1>7, <1>8, LanguageProfilesIsList
    <3> QED  BY <3>2, <3>3
  <2> QED  BY <1>1, <1>2, <1>8, <2>1, <2>2 DEF ListHeld
<1> QED  BY <1>5, <1>6, <1>9

\* A step over one profile.
LEMMA syncLanguageProfilesInv ==
    ASSUME IInv, NEW out \in Writes, syncLanguageProfiles(out)
    PROVE  IInv'
<1> DEFINE body  == ApiProfile(spec.languageProfiles[pass.next])
           found == Existing(pass.listed, body.name)
<1>1. TypeOK /\ At("profiles") /\ pass.next \in DOMAIN spec.languageProfiles /\ PassOK(pass)
      /\ SvcOK /\ ListHeld /\ NoDuplicateProfiles
  BY Parts DEF IInv, syncLanguageProfiles
<1>2. pass' = [pass EXCEPT !.next = pass.next + 1]
  BY DEF syncLanguageProfiles
<1>3. /\ PassOK(pass') /\ pass'.phase = "profiles" /\ pass'.cm = pass.cm /\ pass'.spec = pass.spec
      /\ pass'.listed = pass.listed /\ pass'.next = pass.next + 1
  BY <1>1, <1>2, PassFields DEF PassOK, At
<1>4. /\ body.name = spec.languageProfiles[pass.next].name
      /\ found = {} => \A q \in pass.listed : q.body.name # body.name
      /\ \A p \in found : p \in pass.listed /\ p.body.name = body.name
  <2> HIDE DEF body
  <2> QED  BY <1>1, DesiredFacts DEF body
<1>5. \/ svc' = svc
      \/ found = {} /\ svc' = CreateLanguageProfile(body)
      \/ \E p \in found : svc' = UpdateLanguageProfile(p, body)
  BY DEF syncLanguageProfiles
<1>6. SvcOK' /\ NoDuplicateProfiles' /\ ListHeld'
  <2> HIDE DEF body, found
  <2>1. CASE svc' = svc
    <3>1. ThePass \in DOMAIN Specs /\ pass.spec = {ThePass}
      BY <1>1, ThePassIs DEF At
    <3>2. \A s \in pass.spec : \A i \in DOMAIN Specs[s].languageProfiles : i < pass.next => i < pass.next + 1
      BY <1>1, <3>1, LanguageProfilesIsList DEF ListHeld
    <3>3. ListHeld'
      BY <1>1, <1>3, <2>1, <3>2 DEF ListHeld, At
    <3>4. SvcOK' /\ NoDuplicateProfiles'
      BY <1>1, <2>1 DEF SvcOK, NoDuplicateProfiles, NamedTwice
    <3> QED  BY <3>3, <3>4
  <2>2. CASE found = {} /\ svc' = CreateLanguageProfile(body)
    BY <1>1, <1>2, <1>4, <2>2, CreateInv
  <2>3. CASE \E p \in found : svc' = UpdateLanguageProfile(p, body)
    BY <1>1, <1>2, <1>4, <2>3, UpdateInv
  <2> QED  BY <1>5, <2>1, <2>2, <2>3
<1>7. CmsOK' /\ MapsHeld'
  BY <1>3, CmsFrame DEF syncLanguageProfiles
<1>8. ObjOK' /\ store' \in DOMAIN SecretSets /\ status' \in Statuses /\ calm' \in BOOLEAN
  BY Parts DEF syncLanguageProfiles, ObjOK
<1> QED  BY <1>3, <1>6, <1>7, <1>8, PartsNext

\* The providers are sent; profiles are not touched.
LEMMA syncProvidersInv ==
    ASSUME IInv, NEW out \in Writes, syncProviders(out)
    PROVE  IInv'
<1> DEFINE st     == [pass.status EXCEPT !.profiles = TRUE]
           bad    == [st EXCEPT !.providers = FALSE]
<1>1. TypeOK /\ ~At("idle") /\ PassOK(pass) /\ SvcOK /\ ListHeld /\ NoDuplicateProfiles
  BY Parts DEF IInv, syncProviders, ProfilesDone, At
<1>2. bad \in Statuses /\ SyncedStatus \in Statuses
  BY <1>1 DEF PassOK, SyncedStatus, Statuses, Reasons
<1>3. \/ pass' = Failed(bad, "ProviderSyncFailed")
      \/ pass' = [pass EXCEPT !.phase = "store", !.status = SyncedStatus]
  BY DEF syncProviders
<1> HIDE DEF bad
<1>4. PassOK(pass') /\ pass'.phase = "store" /\ pass'.cm = pass.cm /\ pass'.spec = pass.spec
  <2>1. CASE pass' = Failed(bad, "ProviderSyncFailed")
    <3>1. "ProviderSyncFailed" \in Reasons
      BY DEF Reasons
    <3> QED  BY <1>1, <1>2, <2>1, <3>1, FailedOK, FailedKeeps
  <2>2. CASE pass' = [pass EXCEPT !.phase = "store", !.status = SyncedStatus]
    BY <1>1, <1>2, <2>2, PassFields DEF PassOK, Phases, At
  <2> QED  BY <1>3, <2>1, <2>2
<1>5. svc'.profiles = svc.profiles /\ svc'.nextId = svc.nextId /\ DOMAIN svc' = DOMAIN svc
  <2>1. svc' = svc \/ \E list : svc' = UpdateProviders(list)
    BY DEF syncProviders
  <2> QED  BY <1>1, <2>1 DEF UpdateProviders, SvcOK
<1>6. SvcOK' /\ NoDuplicateProfiles'
  BY <1>1, <1>5 DEF SvcOK, NoDuplicateProfiles, NamedTwice
<1>7. ListHeld'
  BY <1>4 DEF ListHeld, At
<1>8. CmsOK' /\ MapsHeld'
  BY <1>4, CmsFrame DEF syncProviders
<1>9. ObjOK' /\ store' \in DOMAIN SecretSets /\ status' \in Statuses /\ calm' \in BOOLEAN
  BY Parts DEF syncProviders, ObjOK
<1> QED  BY <1>4, <1>6, <1>7, <1>8, <1>9, PartsNext

-----------------------------------------------------------------------------
(***************************************************************************)
(* Deletion.                                                               *)
(***************************************************************************)

\* The Get of reconcileDelete: only an owned ConfigMap is going to be deleted.
LEMMA reconcileDeleteInv ==
    ASSUME IInv, NEW out \in Reads, reconcileDelete(out)
    PROVE  IInv'
<1> DEFINE cm == UNION {cms[n] : n \in spec.configMapRef}
           ph == IF out = "ok" /\ Owned(cm) THEN "drop" ELSE "unfinalize"
<1>1. TypeOK /\ ~At("idle") /\ PassOK(pass)
  BY Parts DEF IInv, reconcileDelete, At
<1>2. pass' = [pass EXCEPT !.cm = cm, !.cmStale = FALSE, !.phase = ph]
  BY DEF reconcileDelete
<1>3. ph \in {"drop", "unfinalize"} /\ (ph = "drop" => Owned(cm))
  OBVIOUS
<1>4. /\ \A c \in cm : IsConfigMap(c)
      /\ \A c, d \in cm : c = d
      /\ \A s \in pass.spec : \A n \in Specs[s].configMapRef : cms[n] \subseteq cm
  <2> HIDE DEF cm
  <2> QED  BY <1>1, ReadMaps DEF cm
<1> HIDE DEF cm, ph
<1>5. PassOK(pass') /\ pass'.phase = ph /\ pass'.cm = cm /\ pass'.spec = pass.spec
  BY <1>1, <1>2, <1>3, PassFields DEF PassOK, Phases, At
<1>6. SvcOK' /\ NoDuplicateProfiles' /\ ListHeld'
  BY <1>3, <1>5, SvcFrame DEF reconcileDelete
<1>7. CmsOK' /\ ObjOK' /\ store' \in DOMAIN SecretSets /\ status' \in Statuses /\ calm' \in BOOLEAN
  BY Parts DEF reconcileDelete, ObjOK, CmsOK
<1>8. MapsHeld'
  BY <1>3, <1>4, <1>5 DEF reconcileDelete, MapsHeld, At, Owned
<1> QED  BY <1>5, <1>6, <1>7, <1>8, PartsNext

\* The Delete.
LEMMA DropConfigMapInv ==
    ASSUME IInv, NEW out \in Writes, DropConfigMap(out)
    PROVE  IInv'
<1>1. TypeOK /\ ~At("idle") /\ PassOK(pass) /\ CmsOK /\ MapsHeld
  BY Parts DEF IInv, DropConfigMap, At
<1>2. PassOK(pass') /\ pass'.phase = "unfinalize" /\ pass'.cm = pass.cm /\ pass'.spec = pass.spec
  BY <1>1, PassFields DEF DropConfigMap, PassOK, Phases, At
<1>3. SvcOK' /\ NoDuplicateProfiles' /\ ListHeld'
  BY <1>2, SvcFrame DEF DropConfigMap
<1>4. CmsOK'
  <2>1. \/ cms' = cms
        \/ cms' = [n \in ConfigMaps |-> IF n \in spec.configMapRef THEN {} ELSE cms[n]]
    BY DEF DropConfigMap, None
  <2> QED  BY <1>1, <2>1 DEF CmsOK
<1>5. MapsHeld'
  BY <1>1, <1>2 DEF MapsHeld, At
<1>6. ObjOK' /\ store' \in DOMAIN SecretSets /\ status' \in Statuses /\ calm' \in BOOLEAN
  BY Parts DEF DropConfigMap, ObjOK
<1> QED  BY <1>2, <1>3, <1>4, <1>5, <1>6, PartsNext

-----------------------------------------------------------------------------
(***************************************************************************)
(* The theorems.                                                           *)
(***************************************************************************)

\* It holds in the beginning.
LEMMA InitInv == Init => IInv
<1> SUFFICES ASSUME Init
             PROVE  IInv
  OBVIOUS
<1>1. PassOK(pass) /\ status \in Statuses
  BY NoPassOK DEF Init, PassOK, NoPass
<1>2. pass.phase = "idle" /\ pass.cm = {}
  BY DEF Init, NoPass, None
<1>3. ObjOK
  BY DEF Init, ObjOK, Objects
<1>4. SvcOK /\ NoDuplicateProfiles
  BY DEF Init, SvcOK, NoDuplicateProfiles
<1>5. CmsOK
  BY DEF Init, CmsOK, None
<1>6. MapsHeld /\ ListHeld
  BY <1>2 DEF MapsHeld, ListHeld, At
<1>7. store \in DOMAIN SecretSets /\ calm \in BOOLEAN
  BY DEF Init
<1> QED  BY <1>1, <1>3, <1>4, <1>5, <1>6, <1>7, Parts

\* Every step keeps it.
LEMMA NextInv == IInv /\ [Next]_vars => IInv'
<1> SUFFICES ASSUME IInv, [Next]_vars
             PROVE  IInv'
  OBVIOUS
<1>1. CASE UserStep
  BY <1>1, UserInv, SecretsChangeInv, ConfigMapChangesInv, ProfilesChangeInv DEF UserStep
<1>2. CASE PassStep
  BY <1>2, ReconcileInv, PassEndsInv, FileModeInv, GetConfigMapInv, PutConfigMapInv, APIModeInv, GetHealthInv,
     GetLanguageProfilesInv, syncLanguageProfilesInv, syncProvidersInv, reconcileDeleteInv, DropConfigMapInv
     DEF PassStep
<1>3. CASE Collect
  BY <1>3, CollectInv DEF Collect
<1>4. CASE Restart
  BY <1>4, PassEndsInv
<1>5. CASE UNCHANGED vars
  <2>1. PassOK(pass)' /\ ObjOK' /\ status' \in Statuses /\ store' \in DOMAIN SecretSets /\ calm' \in BOOLEAN
    BY <1>5, Parts DEF vars, PassOK, ObjOK
  <2>2. SvcOK' /\ NoDuplicateProfiles' /\ ListHeld'
    BY <1>5, SvcFrame DEF vars
  <2>3. CmsOK' /\ MapsHeld'
    BY <1>5, CmsFrame DEF vars
  <2> QED  BY <2>1, <2>2, <2>3, PartsNext
<1> QED  BY <1>1, <1>2, <1>3, <1>4, <1>5 DEF Next

\* The inductive invariant holds in every state: between the steps of a pass the
\* list of profiles and the ConfigMap that it has read stay what they are taken
\* for.
THEOREM Invariant == Spec => []IInv
BY InitInv, NextInv, PTL DEF Spec

\* Type correctness of BazarrConfigReconciler and of what it writes.
THEOREM TypeCorrect == Spec => []TypeOK
<1>1. IInv => TypeOK
  BY DEF IInv
<1> QED  BY <1>1, Invariant, PTL

\* syncLanguageProfiles makes at most one profile of a name, whatever answers are
\* lost and wherever the operator is stopped, unless a specification names the
\* profile twice.
THEOREM ProfilesAreUnique == Spec => []NoDuplicateProfiles
<1>1. IInv => NoDuplicateProfiles
  BY DEF IInv
<1> QED  BY <1>1, Invariant, PTL

\* What users and others do is no step of the operator.
LEMMA NotOperator ==
    ASSUME IInv, UserStep \/ Collect
    PROVE  ~OperatorStep
<1>1. ASSUME NEW field \in {"stale", "calm"}, NEW value \in BOOLEAN, pass' = Notice(field, value)
      PROVE  ~OperatorStep
  BY <1>1, NoticeKeeps DEF OperatorStep, IInv
<1>2. ASSUME NEW n \in ConfigMaps, NEW c, ConfigMapChanges(n, c)
      PROVE  ~OperatorStep
  <2>1. DOMAIN pass = DOMAIN NoPass
    BY DEF IInv, TypeOK
  <2>2. pass' = [Notice("calm", FALSE) EXCEPT !.cmStale = pass.phase # "idle"]
    BY <1>2 DEF ConfigMapChanges
  <2> QED  BY <2>1, <2>2, PassFields DEF Notice, OperatorStep
<1>3. CASE Collect
  BY <1>3 DEF Collect, CollectGarbage, OperatorStep
<1>4. CASE \/ \E s \in DOMAIN Specs : UserEdits(s)
           \/ UserSuspends \/ UserDeletes
           \/ \E s \in DOMAIN SecretSets : SecretsChange(s)
           \/ \E p \in svc.profiles : ProfileDeleted(p)
           \/ ProfileMade
  BY <1>1, <1>4 DEF UserEdits, UserSuspends, UserDeletes, Edit, SecretsChange, ProfileDeleted, ProfileMade
<1> QED  BY <1>2, <1>3, <1>4 DEF UserStep

\* A step that leaves profiles and ConfigMaps as they are.
LEMMA NothingWritten ==
    ASSUME IInv, svc'.profiles = svc.profiles, cms' = cms
    PROVE  KeepsOthers
<1>1. CmsOK
  BY Parts
<1>2. ASSUME NEW n \in ConfigMaps, NEW c \in cms[n], ~c.ours
      PROVE  \E d \in cms'[n] : ~d.ours
  BY <1>2
<1> QED  BY <1>2 DEF KeepsOthers

\* The ConfigMaps through the Create or Update, and the Delete.
LEMMA MapsKept ==
    ASSUME IInv, svc' = svc,
           (\E out \in Writes : PutConfigMap(out)) \/ (\E out \in Writes : DropConfigMap(out))
    PROVE  KeepsOthers
<1>1. TypeOK /\ CmsOK /\ MapsHeld /\ ~At("idle")
  BY Parts DEF IInv, PutConfigMap, DropConfigMap, At
<1>2. ThePass \in DOMAIN Specs /\ pass.spec = {ThePass} /\ spec = Specs[ThePass]
  BY <1>1, ThePassIs
<1>3. ASSUME NEW n \in ConfigMaps, NEW c \in cms[n], ~c.ours, ~pass.cmStale
      PROVE  \E d \in cms'[n] : ~d.ours
  <2>1. n \in spec.configMapRef => c \in pass.cm
    <3>1. pass.phase \in {"putConfigMap", "drop"}
      BY DEF PutConfigMap, DropConfigMap, At
    <3> QED  BY <1>1, <1>2, <1>3, <3>1 DEF MapsHeld
  <2>2. CASE cms' = cms
    BY <1>3, <2>2
  <2>3. CASE \E out \in Writes : PutConfigMap(out) /\ cms' # cms
    <3>1. cms'[n] = IF n \in spec.configMapRef THEN Written(pass.cm, pass.config) ELSE cms[n]
      BY <2>3 DEF PutConfigMap
    <3>2. CASE n \in spec.configMapRef
      <4>1. c \in pass.cm /\ IsConfigMap(c)
        BY <1>1, <1>3, <2>1, <3>2 DEF CmsOK
      <4>2. [c EXCEPT !.config = pass.config] \in cms'[n]
        BY <3>1, <3>2, <4>1 DEF Written, None
      <4>3. ~[c EXCEPT !.config = pass.config].ours
        BY <1>3, <4>1 DEF IsConfigMap
      <4> QED  BY <4>2, <4>3
    <3> QED  BY <1>3, <3>1, <3>2
  <2>4. CASE \E out \in Writes : DropConfigMap(out) /\ cms' # cms
    <3>1. cms'[n] = IF n \in spec.configMapRef THEN {} ELSE cms[n]
      BY <2>4 DEF DropConfigMap, None
    <3>2. n \notin spec.configMapRef
      BY <1>1, <1>3, <2>1, <2>4 DEF DropConfigMap, MapsHeld, Owned, At
    <3> QED  BY <1>3, <3>1, <3>2
  <2> QED  BY <2>2, <2>3, <2>4
<1> QED  BY <1>3 DEF KeepsOthers

\* The profiles through a step of syncLanguageProfiles.
LEMMA ProfilesKept ==
    ASSUME IInv, NEW out \in Writes, syncLanguageProfiles(out)
    PROVE  KeepsOthers
<1> DEFINE body  == ApiProfile(spec.languageProfiles[pass.next])
           found == Existing(pass.listed, body.name)
<1>1. TypeOK /\ At("profiles") /\ pass.next \in DOMAIN spec.languageProfiles /\ SvcOK
  BY Parts DEF IInv, syncLanguageProfiles
<1>2. ThePass \in DOMAIN Specs /\ pass.spec = {ThePass} /\ spec = Specs[ThePass]
  BY <1>1, ThePassIs DEF At
<1>3. /\ body.name = spec.languageProfiles[pass.next].name
      /\ \A p \in found : p \in pass.listed /\ p.body.name = body.name
  <2> HIDE DEF body
  <2> QED  BY <1>1, DesiredFacts DEF body
<1>4. \/ svc' = svc
      \/ svc' = CreateLanguageProfile(body)
      \/ \E p \in found : svc' = UpdateLanguageProfile(p, body)
  BY DEF syncLanguageProfiles
<1> HIDE DEF body, found
<1>5. \A p \in svc.profiles : p \in svc'.profiles \/ p.body.name = body.name
  <2>1. CASE svc' = CreateLanguageProfile(body)
    BY <1>1, <2>1 DEF CreateLanguageProfile, SvcOK
  <2>2. CASE \E p \in found : svc' = UpdateLanguageProfile(p, body)
    BY <1>1, <1>3, <2>2, UpdateFacts
  <2> QED  BY <1>4, <2>1, <2>2
<1>6. \A p \in svc.profiles :
          \/ p \in svc'.profiles
          \/ \E s \in pass.spec : \E i \in DOMAIN Specs[s].languageProfiles :
                 Specs[s].languageProfiles[i].name = p.body.name
  BY <1>1, <1>2, <1>3, <1>5
<1>7. \A n \in ConfigMaps : \A c \in cms[n] : c.ours \/ pass.cmStale \/ \E d \in cms'[n] : ~d.ours
  BY DEF syncLanguageProfiles
<1> QED  BY <1>6, <1>7 DEF KeepsOthers

\* A step of the operator leaves alone what is not its own: profiles that the
\* specification does not name, and ConfigMaps that it does not own.
THEOREM OthersAreKept == Spec => OthersKept
<1>1. IInv /\ [Next]_vars => [OperatorStep => KeepsOthers]_vars
  <2> SUFFICES ASSUME IInv, Next, OperatorStep
               PROVE  KeepsOthers
    OBVIOUS
  <2>1. CASE UserStep \/ Collect
    BY <2>1, NotOperator
  <2>2. CASE \/ Reconcile \/ AddFinalizer \/ StoreStatus \/ reconcileFileMode \/ RemoveFinalizer \/ Restart
             \/ \E out \in Reads : GetConfigMap(out) \/ reconcileAPIMode(out) \/ GetLanguageProfiles(out)
                                   \/ reconcileDelete(out)
             \/ \E h \in HealthAnswers : GetHealth(h[1], h[2])
    BY <2>2, NothingWritten
       DEF Reconcile, AddFinalizer, StoreStatus, reconcileFileMode, RemoveFinalizer, Restart, GetConfigMap,
           reconcileAPIMode, GetLanguageProfiles, reconcileDelete, GetHealth
  <2>3. CASE (\E out \in Writes : PutConfigMap(out)) \/ (\E out \in Writes : DropConfigMap(out))
    BY <2>3, MapsKept DEF PutConfigMap, DropConfigMap
  <2>4. CASE \E out \in Writes : syncLanguageProfiles(out)
    BY <2>4, ProfilesKept
  <2>5. CASE \E out \in Writes : syncProviders(out)
    <3>1. cms' = cms /\ SvcOK
      BY <2>5, Parts DEF syncProviders
    <3>2. svc' = svc \/ \E list : svc' = UpdateProviders(list)
      BY <2>5 DEF syncProviders
    <3>3. svc'.profiles = svc.profiles
      BY <3>1, <3>2 DEF UpdateProviders, SvcOK
    <3> QED  BY <3>1, <3>3, NothingWritten
  <2> QED  BY <2>1, <2>2, <2>3, <2>4, <2>5 DEF Next, PassStep
<1> QED  BY <1>1, Invariant, PTL DEF Spec, OthersKept

=============================================================================
