------------------------- MODULE ClientSessionProofs -------------------------
(***************************************************************************)
(* Proofs about ClientSession, for all specifications, any number of       *)
(* events and sessions that expire as often as the client likes: the type  *)
(* invariant, that a pass does not fail without a reason, and that one     *)
(* which succeeds has brought every value to the client.                   *)
(*                                                                         *)
(* Neither is inductive.  For the first, Troubles relates what the client  *)
(* object believes of its session to the expired sessions and lost         *)
(* requests that the pass has met.  For the second, Brought says of every  *)
(* call before the present one that its values are in the client, unless   *)
(* a later one has written over them.                                      *)
(***************************************************************************)
EXTENDS ClientSession, TLAPS

\* The pass is over the operations of its specification.
OpsHeld == pass.on => pass.ops = Ops(pass.spec)

\* Every expired session and every repeated request is a trouble that the pass
\* has met.
Troubles ==
    pass.on =>
        /\ app = "Transmission" =>
               /\ (pass.stage = "send" => pass.session) /\ pass.attempt <= pass.troubles
               /\ (pass.session /\ ~srv.valid => pass.attempt + 1 <= pass.troubles)
        /\ app = "QBittorrent" =>
               /\ (pass.stage \in {"send", "resend"} => pass.session)
               /\ (pass.session /\ ~srv.valid => 1 <= pass.troubles)
               /\ (pass.stage \in {"relogin", "resend"} => 1 <= pass.troubles)
               /\ (pass.stage = "resend" /\ ~srv.valid => 2 <= pass.troubles)
        /\ app = "Deluge" =>
               /\ (pass.stage \in {"check", "send"} => pass.session)
               /\ ((pass.session \/ pass.stage \in {"hosts", "connect"}) /\ ~srv.valid => 1 <= pass.troubles)
               /\ (pass.session /\ ~srv.daemon /\ srv.hosts => 1 <= pass.troubles)

\* Keys whose answers the code does not look at.
Ignored == IF app = "SABnzbd" THEN Unchecked ELSE {}

\* Of the calls before o, the last with key k is i.
LastBefore(ops, o, k, i) ==
    /\ i \in DOMAIN ops /\ i < o /\ k \in DOMAIN ops[i] \ Ignored
    /\ \A l \in DOMAIN ops : i < l /\ l < o => k \notin DOMAIN ops[l]

\* What earlier calls wrote is in the client, or the present one, of which an
\* attempt came through, has written over it.
Brought ==
    pass.on /\ pass.calm =>
        \A i \in DOMAIN pass.ops : \A k \in DOMAIN pass.ops[i] : LastBefore(pass.ops, pass.op, k, i) =>
            /\ k \in DOMAIN conf
            /\ conf[k] = pass.ops[i][k] \/ (k \in DOMAIN Call /\ conf[k] = Call[k])

IInv == TypeOK /\ OpsHeld /\ Troubles /\ Brought

-----------------------------------------------------------------------------
(***************************************************************************)
(* The parts of the invariant.                                             *)
(***************************************************************************)

\* TypeOK of the pass, and of the rest.
PassOK ==
    /\ DOMAIN pass = DOMAIN Idle
    /\ pass.on =>
           /\ pass.spec \in Named(app) /\ pass.key \in Passwords
           /\ pass.op \in DOMAIN pass.ops /\ pass.stage \in Stages
    /\ pass.attempt \in 0 .. MaxRetries /\ pass.troubles \in 0 .. (MaxRetries + 1)
    /\ pass.on \in BOOLEAN /\ pass.session \in BOOLEAN /\ pass.recheck \in BOOLEAN /\ pass.calm \in BOOLEAN

Servers == [valid : BOOLEAN, daemon : BOOLEAN, hosts : BOOLEAN]

RestOK ==
    /\ obj \in Named(app) /\ last \in [result : {"none", "ok", "failed"}, spec : Named(app)]
    /\ secret \in Passwords /\ accepted \in Passwords
    /\ srv \in Servers /\ (srv.daemon => app = "Deluge")
    /\ events \in Nat

\* TypeOK is the two.
LEMMA TypeParts == TypeOK <=> PassOK /\ RestOK
BY DEF TypeOK, PassOK, RestOK, Servers

\* The same after a step.
LEMMA TypePartsNext == TypeOK' <=> PassOK' /\ RestOK'
BY DEF TypeOK, PassOK, RestOK, Servers

\* The fields of a pass.
LEMMA PassFields ==
    DOMAIN Idle = {"on", "spec", "ops", "key", "op", "stage", "session", "attempt", "recheck", "troubles", "calm"}
BY DEF Idle

\* Between the passes there is nothing to be wrong.
LEMMA IdleInv ==
    ASSUME pass' = Idle
    PROVE  PassOK' /\ OpsHeld' /\ Troubles' /\ Brought' /\ pass'.on = FALSE
<1>1. pass'.on = FALSE
  BY DEF Idle
<1>2. /\ pass'.attempt = 0 /\ pass'.troubles = 0
      /\ pass'.session = FALSE /\ pass'.recheck = FALSE /\ pass'.calm = TRUE
  BY DEF Idle
<1>3. DOMAIN pass' = DOMAIN Idle
  OBVIOUS
<1>5. pass'.attempt \in 0 .. MaxRetries /\ pass'.troubles \in 0 .. (MaxRetries + 1)
  BY <1>2 DEF MaxRetries
<1>6. PassOK'
  BY <1>1, <1>2, <1>3, <1>5 DEF PassOK
<1>4. OpsHeld' /\ Troubles' /\ Brought'
  BY <1>1 DEF OpsHeld, Troubles, Brought
<1> QED  BY <1>1, <1>4, <1>6

\* The operations of a specification: the two queries, and the calls that write.
LEMMA OpsFacts ==
    ASSUME NEW n \in DOMAIN Specs
    PROVE  /\ Len(Ops(n)) \in Nat /\ 2 <= Len(Ops(n)) /\ DOMAIN Ops(n) = 1 .. Len(Ops(n))
           /\ DOMAIN Ops(n)[1] = {} /\ DOMAIN Ops(n)[2] = {}
<1> DEFINE calls == Calls(Specs[n].app, Specs[n].sections)
<1>1. calls \in Seq({calls[i] : i \in DOMAIN calls})
  BY CallsAreLists
<1>2. DOMAIN Query = {}
  BY DEF Query
<1>3. Ops(n) = <<Query, Query>> \o calls
  BY DEF Ops
<1> HIDE DEF calls
<1>4. Len(calls) \in Nat
  BY <1>1
<1>5. DOMAIN Ops(n) = 1 .. (Len(calls) + 2) /\ Len(Ops(n)) = Len(calls) + 2
  BY <1>1, <1>3
<1>6. Ops(n)[1] = Query /\ Ops(n)[2] = Query
  BY <1>1, <1>3
<1> QED  BY <1>2, <1>4, <1>5, <1>6

\* The operations of the running pass.
LEMMA PassOps ==
    ASSUME IInv, pass.on
    PROVE  /\ Len(pass.ops) \in Nat /\ 2 <= Len(pass.ops) /\ DOMAIN pass.ops = 1 .. Len(pass.ops)
           /\ DOMAIN pass.ops[1] = {} /\ DOMAIN pass.ops[2] = {}
           /\ pass.op \in 1 .. Len(pass.ops)
<1>1. pass.ops = Ops(pass.spec) /\ pass.spec \in DOMAIN Specs /\ pass.op \in DOMAIN pass.ops
  BY DEF IInv, OpsHeld, TypeOK, Named
<1> QED  BY <1>1, OpsFacts

\* A pass that has met one more trouble.
LEMMA HurtFacts ==
    ASSUME TypeOK
    PROVE  /\ DOMAIN Hurt = DOMAIN Idle
           /\ Hurt.on = pass.on /\ Hurt.spec = pass.spec /\ Hurt.ops = pass.ops /\ Hurt.key = pass.key
           /\ Hurt.op = pass.op /\ Hurt.stage = pass.stage /\ Hurt.session = pass.session
           /\ Hurt.attempt = pass.attempt /\ Hurt.recheck = pass.recheck /\ Hurt.calm = pass.calm
           /\ Hurt.troubles = IF pass.troubles <= MaxRetries THEN pass.troubles + 1 ELSE pass.troubles
BY PassFields DEF Hurt, TypeOK

\* What both are.
Same(p) ==
    /\ DOMAIN p = DOMAIN Idle
    /\ p.on = pass.on /\ p.spec = pass.spec /\ p.ops = pass.ops /\ p.key = pass.key
    /\ p.op = pass.op /\ p.stage = pass.stage /\ p.session = pass.session
    /\ p.attempt = pass.attempt /\ p.recheck = pass.recheck /\ p.calm = pass.calm
    /\ p.troubles \in 0 .. (MaxRetries + 1) /\ pass.troubles <= p.troubles

\* The pass itself, and the one that has met a trouble.
LEMMA SamePass == TypeOK => Same(pass) /\ Same(Hurt)
<1> SUFFICES ASSUME TypeOK
             PROVE  Same(pass) /\ Same(Hurt)
  OBVIOUS
<1>1. pass.troubles \in 0 .. (MaxRetries + 1) /\ MaxRetries \in Nat
  BY DEF TypeOK, MaxRetries
<1>2. Same(pass)
  BY <1>1 DEF Same, TypeOK
<1>3. Same(Hurt)
  BY <1>1, HurtFacts DEF Same
<1> QED  BY <1>2, <1>3

-----------------------------------------------------------------------------
(***************************************************************************)
(* What a request may do to the pass.                                      *)
(***************************************************************************)

\* What a request leaves alone, and what it may change besides the pass.
Around ==
    /\ app' = app /\ obj' = obj /\ secret' = secret /\ accepted' = accepted
    /\ srv' \in Servers /\ (srv'.daemon => app = "Deluge")
    /\ events' \in Nat
    /\ conf' \in {conf, Applied}

\* No session gets lost by the request.
SessionKept == srv'.daemon = srv.daemon /\ srv'.hosts = srv.hosts /\ (srv.valid => srv'.valid)

\* The call has been carried out, if its answer tells.
Served == conf' = Applied \/ (conf' = conf /\ DOMAIN Call \subseteq Ignored)

SameCalls == pass'.on /\ pass'.spec = pass.spec /\ pass'.ops = pass.ops /\ pass'.calm = pass.calm

\* The pass goes on with the call, goes over to the next one, or ends.
GoesOn   == SameCalls /\ pass'.op = pass.op /\ last' = last
Advances == SameCalls /\ pass.op # Len(pass.ops) /\ pass'.op = pass.op + 1 /\ last' = last /\ Served
Succeeds == pass.op = Len(pass.ops) /\ pass' = Idle /\ last' = [result |-> "ok", spec |-> pass.spec] /\ Served
Fails    == pass' = Idle /\ last' = [result |-> "failed", spec |-> pass.spec] /\ Excused

Shape == GoesOn \/ Advances \/ Succeeds \/ Fails

Good == PassOK' /\ RestOK' /\ OpsHeld' /\ Troubles' /\ Shape

\* The names of the specifications of the client do not change.
LEMMA NamedNext == ASSUME app' = app PROVE Named(app)' = Named(app)
BY DEF Named

\* Where a call begins, the client object has the session that this needs.
LEMMA BeginFacts ==
    ASSUME NEW session \in BOOLEAN
    PROVE  /\ Begin(session) \in Stages
           /\ app = "Transmission" /\ Begin(session) = "send" => session
           /\ app = "QBittorrent" => /\ (Begin(session) \in {"send", "resend"} => session)
                                     /\ Begin(session) \notin {"relogin", "resend"}
           /\ app = "Deluge" => /\ (Begin(session) \in {"check", "send"} => session)
                                /\ Begin(session) \notin {"hosts", "connect"}
<1>1. CASE app = "Transmission"
  BY <1>1 DEF Begin, Stages
<1>2. CASE app = "QBittorrent"
  BY <1>2 DEF Begin, Stages
<1>3. CASE app = "Deluge"
  BY <1>3 DEF Begin, Stages
<1>4. CASE app \notin {"Transmission", "QBittorrent", "Deluge"}
  BY <1>4 DEF Begin, Stages
<1> QED  BY <1>1, <1>2, <1>3, <1>4

\* The end of a pass.
LEMMA FinishInv ==
    ASSUME TypeOK, pass.on, Around, NEW p, Same(p), NEW r \in {"ok", "failed"}, Finish(p, r)
    PROVE  /\ PassOK' /\ RestOK' /\ OpsHeld' /\ Troubles'
           /\ pass' = Idle /\ last' = [result |-> r, spec |-> pass.spec]
<1>1. pass' = Idle /\ last' = [result |-> r, spec |-> pass.spec]
  BY DEF Finish, Same
<1>2. last' \in [result : {"none", "ok", "failed"}, spec : Named(app)']
  BY <1>1, NamedNext DEF Around, TypeOK
<1>3. RestOK'
  BY <1>2, NamedNext DEF Around, TypeOK, RestOK
<1> QED  BY <1>1, <1>3, IdleInv

\* A call that succeeds.
LEMMA SucceedInv ==
    ASSUME IInv, pass.on, Around, SessionKept, Served, NEW p, Same(p), Succeed(p)
    PROVE  Good
<1>1. CASE p.op = Len(p.ops)
  <2>1. Finish(p, "ok") /\ pass.op = Len(pass.ops)
    BY <1>1 DEF Succeed, Same
  <2>2. /\ PassOK' /\ RestOK' /\ OpsHeld' /\ Troubles'
        /\ pass' = Idle /\ last' = [result |-> "ok", spec |-> pass.spec]
    BY <2>1, FinishInv DEF IInv
  <2>3. Succeeds
    BY <2>1, <2>2 DEF Succeeds
  <2> QED  BY <2>2, <2>3 DEF Good, Shape
<1>2. CASE p.op # Len(p.ops)
  <2>1. pass' = [p EXCEPT !.op = @ + 1, !.stage = Begin(p.session), !.attempt = 0] /\ last' = last
    BY <1>2 DEF Succeed
  <2>2. DOMAIN p = DOMAIN Idle
    BY DEF Same
  <2>3. /\ DOMAIN pass' = DOMAIN Idle
        /\ pass'.on = p.on /\ pass'.spec = p.spec /\ pass'.ops = p.ops /\ pass'.key = p.key
        /\ pass'.op = p.op + 1 /\ pass'.stage = Begin(p.session) /\ pass'.session = p.session
        /\ pass'.attempt = 0 /\ pass'.recheck = p.recheck /\ pass'.calm = p.calm
        /\ pass'.troubles = p.troubles
    BY <2>1, <2>2, PassFields
  <2>4. /\ pass'.on /\ pass'.spec = pass.spec /\ pass'.ops = pass.ops /\ pass'.key = pass.key
        /\ pass'.op = pass.op + 1 /\ pass'.stage = Begin(pass.session) /\ pass'.session = pass.session
        /\ pass'.attempt = 0 /\ pass'.recheck = pass.recheck /\ pass'.calm = pass.calm
        /\ pass'.on = pass.on
        /\ pass'.troubles \in 0 .. (MaxRetries + 1) /\ pass.troubles <= pass'.troubles
        /\ pass.op # Len(pass.ops)
    BY <2>3, <1>2 DEF Same
  <2>5. pass'.op \in DOMAIN pass'.ops
    BY <2>4, PassOps
  <2>6. pass.session \in BOOLEAN /\ pass.recheck \in BOOLEAN /\ pass.calm \in BOOLEAN /\ pass.on \in BOOLEAN
    BY DEF IInv, TypeOK
  <2>7. Stages' = Stages /\ Named(app)' = Named(app)
    BY NamedNext DEF Stages, Around
  <2>8. pass'.stage \in Stages'
    BY <2>4, <2>6, <2>7, BeginFacts
  <2>9. pass'.spec \in Named(app)' /\ pass'.key \in Passwords
    BY <2>4, <2>7 DEF IInv, TypeOK
  <2>10. pass'.attempt \in 0 .. MaxRetries
    BY <2>4 DEF MaxRetries
  <2>11. PassOK'
    BY <2>3, <2>4, <2>5, <2>6, <2>8, <2>9, <2>10 DEF PassOK
  <2>12. RestOK'
    BY <2>1, <2>7 DEF RestOK, Around, IInv, TypeOK
  <2>13. OpsHeld'
    BY <2>4 DEF OpsHeld, IInv, Ops
  <2>14. Troubles'
    <3>1. pass.attempt \in Nat /\ pass.troubles \in Nat /\ pass'.troubles \in Nat
      BY <2>4 DEF IInv, TypeOK, MaxRetries
    <3>2. app' = app
      BY DEF Around
    <3>3. CASE app = "Transmission"
      <4>1. pass'.stage = "send" => pass'.session
        BY <3>3, <2>4, <2>6, BeginFacts
      <4>2. pass'.session /\ ~srv'.valid => 1 <= pass'.troubles
        BY <3>3, <3>1, <2>4 DEF IInv, Troubles, SessionKept
      <4> QED  BY <3>1, <3>2, <3>3, <4>1, <4>2, <2>4 DEF Troubles
    <3>4. CASE app = "QBittorrent"
      <4>1. /\ pass'.stage \in {"send", "resend"} => pass'.session
            /\ pass'.stage \notin {"relogin", "resend"}
        BY <3>4, <2>4, <2>6, BeginFacts
      <4>2. pass'.session /\ ~srv'.valid => 1 <= pass'.troubles
        BY <3>4, <3>1, <2>4 DEF IInv, Troubles, SessionKept
      <4> QED  BY <3>1, <3>2, <3>4, <4>1, <4>2, <2>4 DEF Troubles
    <3>5. CASE app = "Deluge"
      <4>1. /\ pass'.stage \in {"check", "send"} => pass'.session
            /\ pass'.stage \notin {"hosts", "connect"}
        BY <3>5, <2>4, <2>6, BeginFacts
      <4>2. pass'.session /\ ~srv'.valid => 1 <= pass'.troubles
        BY <3>5, <3>1, <2>4 DEF IInv, Troubles, SessionKept
      <4>3. pass'.session /\ ~srv'.daemon /\ srv'.hosts => 1 <= pass'.troubles
        BY <3>5, <3>1, <2>4 DEF IInv, Troubles, SessionKept
      <4> QED  BY <3>1, <3>2, <3>5, <4>1, <4>2, <4>3, <2>4 DEF Troubles
    <3>6. CASE app \notin {"Transmission", "QBittorrent", "Deluge"}
      BY <3>2, <3>6 DEF Troubles
    <3> QED  BY <3>3, <3>4, <3>5, <3>6
  <2>15. Advances
    BY <2>1, <2>4 DEF Advances, SameCalls
  <2> QED  BY <2>11, <2>12, <2>13, <2>14, <2>15 DEF Good, Shape
<1> QED  BY <1>1, <1>2

\* A call that fails, for a reason or as the version may.
LEMMA FailInv ==
    ASSUME IInv, pass.on, Around, SessionKept, Excused, NEW p, Same(p), Fail(p)
    PROVE  Good
<1>1. CASE p.op = 2
  <2>1. DOMAIN Call = {}
    BY <1>1, PassOps DEF Call, Same
  <2>2. Served
    BY <2>1 DEF Served, Around
  <2> QED  BY <1>1, <2>2, SucceedInv DEF Fail
<1>2. CASE p.op # 2
  <2>1. Finish(p, "failed")
    BY <1>2 DEF Fail
  <2>2. /\ PassOK' /\ RestOK' /\ OpsHeld' /\ Troubles'
        /\ pass' = Idle /\ last' = [result |-> "failed", spec |-> pass.spec]
    BY <2>1, FinishInv DEF IInv
  <2> QED  BY <2>2 DEF Good, Shape, Fails
<1> QED  BY <1>1, <1>2

\* What a request that sends another one may change in the client object.
Alike(q) ==
    /\ DOMAIN q = DOMAIN Idle
    /\ q.on = pass.on /\ q.spec = pass.spec /\ q.ops = pass.ops /\ q.key = pass.key
    /\ q.op = pass.op /\ q.calm = pass.calm
    /\ q.session \in BOOLEAN /\ q.recheck \in BOOLEAN
    /\ q.attempt \in 0 .. MaxRetries /\ q.troubles \in 0 .. (MaxRetries + 1)

\* A request that is followed by another one of the same call.
LEMMA SendingInv ==
    ASSUME IInv, pass.on, Around, NEW q, Alike(q), NEW stage \in Stages, Sending(q, stage)
    PROVE  /\ PassOK' /\ RestOK' /\ OpsHeld' /\ Shape
           /\ pass'.session = q.session /\ pass'.stage = stage
           /\ pass'.attempt = q.attempt /\ pass'.troubles = q.troubles
<1>1. pass' = [q EXCEPT !.stage = stage] /\ last' = last
  BY DEF Sending
<1>2. DOMAIN q = DOMAIN Idle
  BY DEF Alike
<1>3. /\ DOMAIN pass' = DOMAIN Idle
      /\ pass'.on = q.on /\ pass'.spec = q.spec /\ pass'.ops = q.ops /\ pass'.key = q.key
      /\ pass'.op = q.op /\ pass'.stage = stage /\ pass'.session = q.session
      /\ pass'.attempt = q.attempt /\ pass'.recheck = q.recheck /\ pass'.calm = q.calm
      /\ pass'.troubles = q.troubles
  BY <1>1, <1>2, PassFields
<1>4. Stages' = Stages /\ Named(app)' = Named(app)
  BY NamedNext DEF Stages, Around
<1>5. PassOK'
  <2>1. pass.calm \in BOOLEAN /\ pass.on \in BOOLEAN /\ pass.spec \in Named(app) /\ pass.key \in Passwords
        /\ pass.op \in DOMAIN pass.ops
    BY DEF IInv, TypeOK
  <2> QED  BY <1>3, <1>4, <2>1 DEF PassOK, Alike
<1>6. RestOK'
  BY <1>1, <1>4 DEF RestOK, Around, IInv, TypeOK
<1>7. OpsHeld'
  BY <1>3 DEF OpsHeld, IInv, Ops, Alike
<1>8. GoesOn
  BY <1>1, <1>3 DEF GoesOn, SameCalls, Alike
<1> QED  BY <1>3, <1>5, <1>6, <1>7, <1>8 DEF Shape

\* The client objects that the requests leave.
LEMMA AlikePasses ==
    ASSUME TypeOK, NEW p, Same(p)
    PROVE  /\ Alike(p)
           /\ \A b \in BOOLEAN : LET q == [p EXCEPT !.session = b]
                                 IN  /\ Alike(q) /\ q.session = b
                                     /\ q.attempt = pass.attempt /\ q.troubles = p.troubles
           /\ p.attempt < MaxRetries => LET q == [p EXCEPT !.attempt = @ + 1]
                                        IN  /\ Alike(q) /\ q.session = pass.session
                                            /\ q.attempt = pass.attempt + 1 /\ q.troubles = p.troubles
           /\ LET q == [p EXCEPT !.session = TRUE, !.recheck = FALSE]
              IN  Alike(q) /\ q.session = TRUE /\ q.attempt = pass.attempt /\ q.troubles = p.troubles
<1>1. DOMAIN p = DOMAIN Idle
  BY DEF Same
<1>2. /\ p.on = pass.on /\ p.spec = pass.spec /\ p.ops = pass.ops /\ p.key = pass.key
      /\ p.op = pass.op /\ p.session = pass.session /\ p.attempt = pass.attempt
      /\ p.recheck = pass.recheck /\ p.calm = pass.calm
      /\ p.troubles \in 0 .. (MaxRetries + 1)
  BY DEF Same
<1>3. /\ pass.session \in BOOLEAN /\ pass.recheck \in BOOLEAN
      /\ pass.attempt \in 0 .. MaxRetries
  BY DEF TypeOK
<1>4. MaxRetries \in Nat
  BY DEF MaxRetries
<1>5. Alike(p)
  BY <1>1, <1>2, <1>3 DEF Alike
<1>6. ASSUME NEW b \in BOOLEAN
      PROVE  LET q == [p EXCEPT !.session = b]
             IN  Alike(q) /\ q.session = b /\ q.attempt = pass.attempt /\ q.troubles = p.troubles
  <2> DEFINE q == [p EXCEPT !.session = b]
  <2>1. /\ DOMAIN q = DOMAIN Idle
        /\ q.on = p.on /\ q.spec = p.spec /\ q.ops = p.ops /\ q.key = p.key /\ q.op = p.op
        /\ q.session = b /\ q.attempt = p.attempt /\ q.recheck = p.recheck /\ q.calm = p.calm
        /\ q.troubles = p.troubles
    BY <1>1, PassFields
  <2> HIDE DEF q
  <2>2. Alike(q)
    BY <1>2, <1>3, <2>1 DEF Alike
  <2>3. Alike(q) /\ q.session = b /\ q.attempt = pass.attempt /\ q.troubles = p.troubles
    BY <1>2, <2>1, <2>2
  <2> QED  BY <2>3 DEF q
<1>7. ASSUME p.attempt < MaxRetries
      PROVE  LET q == [p EXCEPT !.attempt = @ + 1]
             IN  /\ Alike(q) /\ q.session = pass.session
                 /\ q.attempt = pass.attempt + 1 /\ q.troubles = p.troubles
  <2> DEFINE q == [p EXCEPT !.attempt = @ + 1]
  <2>1. /\ DOMAIN q = DOMAIN Idle
        /\ q.on = p.on /\ q.spec = p.spec /\ q.ops = p.ops /\ q.key = p.key /\ q.op = p.op
        /\ q.session = p.session /\ q.attempt = p.attempt + 1 /\ q.recheck = p.recheck /\ q.calm = p.calm
        /\ q.troubles = p.troubles
    BY <1>1, PassFields
  <2> HIDE DEF q
  <2>2. q.attempt \in 0 .. MaxRetries
    BY <1>2, <1>3, <1>4, <1>7, <2>1
  <2>3. Alike(q)
    BY <1>2, <1>3, <2>1, <2>2 DEF Alike
  <2>4. Alike(q) /\ q.session = pass.session /\ q.attempt = pass.attempt + 1 /\ q.troubles = p.troubles
    BY <1>2, <2>1, <2>3
  <2> QED  BY <2>4 DEF q
<1>8. LET q == [p EXCEPT !.session = TRUE, !.recheck = FALSE]
      IN  Alike(q) /\ q.session = TRUE /\ q.attempt = pass.attempt /\ q.troubles = p.troubles
  <2> DEFINE q == [p EXCEPT !.session = TRUE, !.recheck = FALSE]
  <2>1. /\ DOMAIN q = DOMAIN Idle
        /\ q.on = p.on /\ q.spec = p.spec /\ q.ops = p.ops /\ q.key = p.key /\ q.op = p.op
        /\ q.session = TRUE /\ q.attempt = p.attempt /\ q.recheck = FALSE /\ q.calm = p.calm
        /\ q.troubles = p.troubles
    BY <1>1, PassFields
  <2> HIDE DEF q
  <2>2. Alike(q)
    BY <1>2, <1>3, <2>1 DEF Alike
  <2>3. Alike(q) /\ q.session = TRUE /\ q.attempt = pass.attempt /\ q.troubles = p.troubles
    BY <1>2, <2>1, <2>2
  <2> QED  BY <2>3 DEF q
<1> QED  BY <1>5, <1>6, <1>7, <1>8

\* One more trouble is counted, up to the cap.
LEMMA HurtCounts ==
    ASSUME TypeOK
    PROVE  /\ pass.troubles \in Nat /\ pass.attempt \in Nat /\ pass.attempt <= 3 /\ pass.troubles <= 4
           /\ Hurt.troubles \in Nat /\ 1 <= Hurt.troubles
           /\ Hurt.troubles = pass.troubles + 1 \/ (Hurt.troubles = 4 /\ pass.troubles = 4)
<1>1. pass.attempt \in 0 .. 3 /\ pass.troubles \in 0 .. 4
  BY DEF TypeOK, MaxRetries
<1>2. Hurt.troubles = IF pass.troubles <= 3 THEN pass.troubles + 1 ELSE pass.troubles
  BY HurtFacts DEF MaxRetries
<1> QED  BY <1>1, <1>2

\* The stage tells the client.
LEMMA StageFacts ==
    ASSUME TypeOK, pass.on
    PROVE  /\ pass.stage = "session" => app = "Transmission"
           /\ app = "Transmission" => {"session", "send"} = Stages
           /\ app = "QBittorrent" => {"login", "send", "relogin", "resend"} = Stages
           /\ app = "Deluge" => {"check", "login", "hosts", "connect", "send"} = Stages
<1>1. pass.stage \in Stages
  BY DEF TypeOK
<1>2. CASE app = "Transmission"
  BY <1>1, <1>2 DEF Stages
<1>3. CASE app = "QBittorrent"
  BY <1>1, <1>3 DEF Stages
<1>4. CASE app = "Deluge"
  BY <1>1, <1>4 DEF Stages
<1>5. CASE app \notin {"Transmission", "QBittorrent", "Deluge"}
  BY <1>1, <1>5 DEF Stages
<1> QED  BY <1>2, <1>3, <1>4, <1>5

\* What the outcome of a request does to the bound on events, and to the
\* settings of the client.
LEMMA OutcomeFacts ==
    ASSUME TypeOK, NEW out \in Outcomes
    PROVE  /\ Answered(out) => events' \in Nat /\ out = "ok"
           /\ Unanswered(out) => events' \in Nat /\ Lost /\ out # "ok"
<1>1. events \in Nat
  BY DEF TypeOK
<1> QED  BY <1>1 DEF Answered, Unanswered, Event, Lost

\* The settings of the client after a request: as they were, or with the call.
LEMMA ServeFacts ==
    ASSUME NEW serves \in BOOLEAN, Serve(serves)
    PROVE  conf' \in {conf, Applied} /\ (serves /\ ~Refused => conf' = Applied)
<1>1. CASE serves /\ ~Refused
  BY <1>1 DEF Serve
<1>2. CASE ~(serves /\ ~Refused)
  BY <1>2 DEF Serve
<1> QED  BY <1>1, <1>2

\* A session that is given out.
LEMMA ValidServer ==
    ASSUME TypeOK, srv' = [srv EXCEPT !.valid = TRUE]
    PROVE  srv' \in Servers /\ srv'.valid = TRUE /\ SessionKept
<1>1. srv \in Servers
  BY DEF TypeOK, Servers
<1> QED  BY <1>1 DEF Servers, SessionKept

\* No session is given out.
LEMMA SameServer ==
    ASSUME TypeOK, srv' = srv
    PROVE  srv' \in Servers /\ SessionKept
BY DEF TypeOK, Servers, SessionKept

\* What every request keeps.
LEMMA AroundFacts ==
    ASSUME TypeOK, Kept, srv' \in Servers, SessionKept, events' \in Nat, conf' \in {conf, Applied}
    PROVE  Around
<1>1. srv'.daemon => app = "Deluge"
  BY DEF SessionKept, TypeOK
<1> QED  BY <1>1 DEF Kept, Around

-----------------------------------------------------------------------------
(***************************************************************************)
(* The requests, client by client.                                         *)
(***************************************************************************)

\* A request for a session id.
LEMMA getSessionIDInv ==
    ASSUME IInv, NEW out \in Outcomes, getSessionID(out)
    PROVE  Good
<1>1. TypeOK /\ Troubles /\ pass.on /\ pass.stage = "session" /\ app = "Transmission"
  BY StageFacts DEF IInv, getSessionID, At
<1>2. Kept /\ conf' \in {conf, Applied}
  BY DEF getSessionID
<1>3. CASE Answered(out) /\ Authorized
  <2>1. srv' = [srv EXCEPT !.valid = TRUE] /\ Sending([pass EXCEPT !.session = TRUE], "send")
    BY <1>3, OutcomeFacts, <1>1 DEF getSessionID, Answered, Unanswered
  <2>2. srv' \in Servers /\ srv'.valid = TRUE /\ Around
    BY <1>1, <1>2, <1>3, <2>1, OutcomeFacts, ValidServer, AroundFacts
  <2> DEFINE q == [pass EXCEPT !.session = TRUE]
  <2>3. Alike(q) /\ q.session = TRUE /\ q.attempt = pass.attempt /\ q.troubles = pass.troubles
    BY <1>1, SamePass, AlikePasses
  <2>4. "send" \in Stages
    BY <1>1, StageFacts
  <2> HIDE DEF q
  <2>5. /\ PassOK' /\ RestOK' /\ OpsHeld' /\ Shape
        /\ pass'.session = q.session /\ pass'.attempt = q.attempt /\ pass'.troubles = q.troubles
    BY <1>1, <2>1, <2>2, <2>3, <2>4, SendingInv DEF q
  <2>6. Troubles'
    BY <1>1, <2>2, <2>3, <2>5 DEF Troubles, Around
  <2> QED  BY <2>5, <2>6 DEF Good
<1>4. CASE Answered(out) /\ ~Authorized
  <2>1. srv' = srv /\ Fail(pass)
    BY <1>4 DEF getSessionID, Answered, Unanswered
  <2>2. Around /\ SessionKept
    BY <1>1, <1>2, <1>4, <2>1, OutcomeFacts, SameServer, AroundFacts
  <2>3. Excused
    BY <1>4 DEF Excused
  <2> QED  BY <1>1, <2>1, <2>2, <2>3, SamePass, FailInv
<1>5. CASE Unanswered(out)
  <2>1. srv' = srv /\ Fail(Hurt)
    BY <1>5 DEF getSessionID, Answered, Unanswered
  <2>2. Around /\ SessionKept
    BY <1>1, <1>2, <1>5, <2>1, OutcomeFacts, SameServer, AroundFacts
  <2>3. Lost /\ At("session")
    BY <1>1, <1>5, OutcomeFacts DEF At
  <2>4. Excused
    BY <1>1, <2>3 DEF Excused
  <2> QED  BY <1>1, <2>1, <2>2, <2>4, SamePass, FailInv
<1> QED  BY <1>3, <1>4, <1>5 DEF getSessionID

\* The next attempt, of a pass whose troubles cover it.
LEMMA AgainInv ==
    ASSUME IInv, pass.on, app = "Transmission", pass.stage = "send", Around, SessionKept, NEW p, Same(p), Again(p),
           pass.attempt + 1 <= p.troubles,
           srv'.valid \/ pass.attempt + 2 <= p.troubles \/ pass.attempt = MaxRetries,
           pass.attempt = MaxRetries => Excused
    PROVE  Good
<1>1. TypeOK /\ Troubles /\ pass.session /\ p.attempt = pass.attempt
  BY DEF IInv, Troubles, Same
<1>2. pass.attempt \in Nat /\ pass.attempt <= 3 /\ MaxRetries = 3 /\ p.troubles \in Nat
  BY <1>1, HurtCounts DEF MaxRetries, Same
<1>3. CASE p.attempt < MaxRetries
  <2> DEFINE q == [p EXCEPT !.attempt = @ + 1]
  <2>1. Sending(q, "send")
    BY <1>3 DEF Again
  <2>2. Alike(q) /\ q.session = pass.session /\ q.attempt = pass.attempt + 1 /\ q.troubles = p.troubles
    BY <1>1, <1>3, AlikePasses
  <2>3. "send" \in Stages
    BY <1>1, StageFacts
  <2> HIDE DEF q
  <2>4. /\ PassOK' /\ RestOK' /\ OpsHeld' /\ Shape
        /\ pass'.session = q.session /\ pass'.attempt = q.attempt /\ pass'.troubles = q.troubles
    BY <1>1, <2>1, <2>2, <2>3, SendingInv
  <2>5. pass'.attempt = pass.attempt + 1 /\ pass'.troubles = p.troubles /\ pass'.session
    BY <1>1, <2>2, <2>4
  <2>6. pass'.attempt <= pass'.troubles /\ (~srv'.valid => pass'.attempt + 1 <= pass'.troubles)
    BY <1>1, <1>2, <1>3, <2>5
  <2>7. Troubles'
    BY <1>1, <2>5, <2>6 DEF Troubles, Around
  <2> QED  BY <2>4, <2>7 DEF Good
<1>4. CASE ~(p.attempt < MaxRetries)
  <2>1. Fail(p) /\ pass.attempt = MaxRetries
    BY <1>1, <1>2, <1>4 DEF Again
  <2> QED  BY <2>1, FailInv
<1> QED  BY <1>3, <1>4

\* A request of Transmission.
LEMMA TransmissionRequestInv ==
    ASSUME IInv, NEW out \in Outcomes, TransmissionRequest(out)
    PROVE  Good
<1>1. TypeOK /\ Troubles /\ pass.on /\ pass.stage = "send" /\ app = "Transmission" /\ Kept
  BY DEF IInv, TransmissionRequest, At
<1>2. /\ pass.attempt \in Nat /\ pass.troubles \in Nat /\ Hurt.troubles \in Nat /\ pass.attempt <= 3
      /\ Hurt.troubles = pass.troubles + 1 \/ (Hurt.troubles = 4 /\ pass.troubles = 4)
      /\ MaxRetries = 3
  BY <1>1, HurtCounts DEF MaxRetries
<1>3. Same(pass) /\ Same(Hurt)
  BY <1>1, SamePass
<1>4. pass.session /\ pass.attempt <= pass.troubles /\ (~srv.valid => pass.attempt + 1 <= pass.troubles)
  BY <1>1 DEF Troubles
<1>5. CASE Answered(out) /\ ~Authorized
  <2>1. Fail(pass) /\ srv' = srv /\ conf' = conf
    BY <1>5 DEF TransmissionRequest, Answered, Unanswered
  <2>2. Around /\ SessionKept
    BY <1>1, <1>5, <2>1, OutcomeFacts, SameServer, AroundFacts
  <2>3. Excused
    BY <1>5 DEF Excused
  <2> QED  BY <1>1, <1>3, <2>1, <2>2, <2>3, FailInv
<1>6. CASE Answered(out) /\ Authorized /\ ~srv.valid
  <2>1. Again(pass) /\ srv' = [srv EXCEPT !.valid = TRUE] /\ conf' = conf
    BY <1>6 DEF TransmissionRequest, Answered, Unanswered
  <2>2. Around /\ SessionKept /\ srv'.valid
    BY <1>1, <1>6, <2>1, OutcomeFacts, ValidServer, AroundFacts
  <2>3. pass.attempt = MaxRetries => pass.troubles + (IF Lost THEN 1 ELSE 0) > MaxRetries
    BY <1>2, <1>4, <1>6
  <2>4. pass.attempt = MaxRetries => Excused
    BY <1>1, <2>3 DEF Excused
  <2>5. pass.attempt + 1 <= pass.troubles
    BY <1>4, <1>6
  <2> QED  BY <1>1, <1>3, <2>1, <2>2, <2>4, <2>5, AgainInv
<1>7. CASE Answered(out) /\ Authorized /\ srv.valid
  <2>1. (IF Refused THEN Fail(pass) ELSE Succeed(pass)) /\ Serve(TRUE) /\ srv' = srv
    BY <1>7 DEF TransmissionRequest, Answered, Unanswered
  <2>2. Around /\ SessionKept /\ (~Refused => conf' = Applied)
    BY <1>1, <1>7, <2>1, OutcomeFacts, SameServer, AroundFacts, ServeFacts
  <2>3. CASE Refused
    <3>1. Excused
      BY <1>1, <2>3 DEF Excused, CallRefused, Overlooked
    <3> QED  BY <1>1, <1>3, <2>1, <2>2, <2>3, <3>1, FailInv
  <2>4. CASE ~Refused
    BY <1>1, <1>3, <2>1, <2>2, <2>4, SucceedInv DEF Served
  <2> QED  BY <2>3, <2>4
<1>8. CASE Unanswered(out)
  <2>1. Again(Hurt) /\ Serve(out = "late" /\ Authorized /\ srv.valid) /\ srv' = srv
    BY <1>8 DEF TransmissionRequest, Answered, Unanswered
  <2>2. (out = "late" /\ Authorized /\ srv.valid) \in BOOLEAN
    BY <1>1 DEF TypeOK, Authorized
  <2>3. conf' \in {conf, Applied}
    BY <2>1, <2>2, ServeFacts
  <2>4. Around /\ SessionKept /\ Lost
    BY <1>1, <1>8, <2>1, <2>3, OutcomeFacts, SameServer, AroundFacts
  <2>5. pass.attempt = MaxRetries => pass.troubles + (IF Lost THEN 1 ELSE 0) > MaxRetries
    BY <1>2, <1>4, <2>4
  <2>6. pass.attempt = MaxRetries => Excused
    BY <1>1, <2>5 DEF Excused
  <2>7. pass.attempt + 1 <= Hurt.troubles
    BY <1>2, <1>4
  <2>8. srv'.valid \/ pass.attempt + 2 <= Hurt.troubles \/ pass.attempt = MaxRetries
    BY <1>2, <1>4, <2>1
  <2> QED  BY <1>1, <1>3, <2>1, <2>4, <2>6, <2>7, <2>8, AgainInv
<1> QED  BY <1>1, <1>5, <1>6, <1>7, <1>8 DEF TransmissionRequest

\* A login of qBittorrent.
LEMMA QBittorrentLoginInv ==
    ASSUME IInv, NEW out \in Outcomes, QBittorrentLogin(out)
    PROVE  Good
<1>1. TypeOK /\ Troubles /\ app = "QBittorrent"
  BY DEF IInv, QBittorrentLogin
<1>2. PICK next \in {"send", "resend"} :
          /\ pass.on /\ LogIn(out, next)
          /\ pass.stage = (IF next = "send" THEN "login" ELSE "relogin")
  BY DEF QBittorrentLogin, At
<1>3. Kept /\ conf' \in {conf, Applied}
  BY <1>2 DEF LogIn
<1>4. CASE Answered(out) /\ Authorized
  <2> DEFINE q == [pass EXCEPT !.session = TRUE]
  <2>1. srv' = [srv EXCEPT !.valid = TRUE] /\ Sending(q, next)
    BY <1>2, <1>4 DEF LogIn, Answered, Unanswered
  <2>2. srv'.valid = TRUE /\ Around
    BY <1>1, <1>3, <1>4, <2>1, OutcomeFacts, ValidServer, AroundFacts
  <2>3. Alike(q) /\ q.session = TRUE /\ q.troubles = pass.troubles
    BY <1>1, SamePass, AlikePasses
  <2>4. next \in Stages
    BY <1>1, <1>2, StageFacts
  <2> HIDE DEF q
  <2>5. /\ PassOK' /\ RestOK' /\ OpsHeld' /\ Shape
        /\ pass'.session = q.session /\ pass'.stage = next /\ pass'.troubles = q.troubles
    BY <1>2, <2>1, <2>2, <2>3, <2>4, SendingInv
  <2>6. next = "resend" => 1 <= pass.troubles
    BY <1>1, <1>2 DEF Troubles
  <2>7. Troubles'
    BY <1>1, <2>2, <2>3, <2>5, <2>6 DEF Troubles, Around
  <2> QED  BY <2>5, <2>7 DEF Good
<1>5. CASE Answered(out) /\ ~Authorized
  <2>1. srv' = srv /\ Fail(pass)
    BY <1>2, <1>5 DEF LogIn, Answered, Unanswered
  <2>2. Around /\ SessionKept
    BY <1>1, <1>3, <1>5, <2>1, OutcomeFacts, SameServer, AroundFacts
  <2>3. Excused
    BY <1>5 DEF Excused
  <2> QED  BY <1>1, <1>2, <2>1, <2>2, <2>3, SamePass, FailInv
<1>6. CASE Unanswered(out)
  <2>1. srv' = srv /\ Fail(Hurt)
    BY <1>2, <1>6 DEF LogIn, Answered, Unanswered
  <2>2. Around /\ SessionKept /\ Lost
    BY <1>1, <1>3, <1>6, <2>1, OutcomeFacts, SameServer, AroundFacts
  <2>3. Excused
    BY <1>1, <2>2 DEF Excused
  <2> QED  BY <1>1, <1>2, <2>1, <2>2, <2>3, SamePass, FailInv
<1> QED  BY <1>2, <1>4, <1>5, <1>6 DEF LogIn

\* A request of qBittorrent.
LEMMA QBittorrentRequestInv ==
    ASSUME IInv, NEW out \in Outcomes, QBittorrentRequest(out)
    PROVE  Good
<1>1. TypeOK /\ Troubles /\ pass.on /\ pass.stage \in {"send", "resend"} /\ app = "QBittorrent" /\ Kept /\ srv' = srv
  BY DEF IInv, QBittorrentRequest, At
<1>2. Same(pass) /\ Same(Hurt)
  BY <1>1, SamePass
<1>3. pass.session /\ srv.valid \in BOOLEAN
  BY <1>1 DEF Troubles, TypeOK
<1>4. Answered(out) => Serve(srv.valid) /\ (IF srv.valid THEN IF Refused THEN Fail(pass) ELSE Succeed(pass) ELSE Forbidden)
  BY DEF QBittorrentRequest, Answered, Unanswered
<1>5. Unanswered(out) => Fail(Hurt) /\ Serve(out = "late" /\ srv.valid)
  BY DEF QBittorrentRequest, Answered, Unanswered
<1>6. CASE Answered(out)
  <2>1. Around /\ SessionKept /\ (srv.valid /\ ~Refused => conf' = Applied)
    BY <1>1, <1>3, <1>4, <1>6, OutcomeFacts, SameServer, AroundFacts, ServeFacts
  <2>2. CASE srv.valid /\ Refused
    <3>1. Excused
      BY <1>1, <2>2 DEF Excused, CallRefused, Overlooked
    <3> QED  BY <1>1, <1>2, <1>4, <1>6, <2>1, <2>2, <3>1, FailInv
  <2>3. CASE srv.valid /\ ~Refused
    BY <1>1, <1>2, <1>4, <1>6, <2>1, <2>3, SucceedInv DEF Served
  <2>4. CASE ~srv.valid /\ pass.stage = "send"
    <3> DEFINE q == [pass EXCEPT !.session = FALSE]
    <3>1. Sending(q, "relogin")
      BY <1>1, <1>4, <1>6, <2>4 DEF Forbidden, At
    <3>2. Alike(q) /\ q.session = FALSE /\ q.troubles = pass.troubles
      BY <1>1, <1>2, AlikePasses
    <3>3. "relogin" \in Stages
      BY <1>1, StageFacts
    <3> HIDE DEF q
    <3>4. /\ PassOK' /\ RestOK' /\ OpsHeld' /\ Shape
          /\ pass'.session = q.session /\ pass'.stage = "relogin" /\ pass'.troubles = q.troubles
      BY <1>1, <2>1, <3>1, <3>2, <3>3, SendingInv
    <3>5. 1 <= pass.troubles
      BY <1>1, <1>3, <2>4 DEF Troubles
    <3>6. Troubles'
      BY <1>1, <2>1, <3>2, <3>4, <3>5 DEF Troubles, Around
    <3> QED  BY <3>4, <3>6 DEF Good
  <2>5. CASE ~srv.valid /\ pass.stage = "resend"
    <3>1. Fail(pass)
      BY <1>1, <1>4, <1>6, <2>5 DEF Forbidden, At
    <3>2. 2 <= pass.troubles /\ pass.troubles \in Nat
      BY <1>1, <2>5, HurtCounts DEF Troubles
    <3>3. Excused
      BY <1>1, <3>2 DEF Excused
    <3> QED  BY <1>1, <1>2, <2>1, <3>1, <3>3, FailInv
  <2> QED  BY <1>1, <2>2, <2>3, <2>4, <2>5
<1>7. CASE Unanswered(out)
  <2>1. (out = "late" /\ srv.valid) \in BOOLEAN
    BY <1>3
  <2>2. conf' \in {conf, Applied}
    BY <1>5, <1>7, <2>1, ServeFacts
  <2>3. Around /\ SessionKept /\ Lost
    BY <1>1, <1>7, <2>2, OutcomeFacts, SameServer, AroundFacts
  <2>4. Excused
    BY <1>1, <2>3 DEF Excused
  <2> QED  BY <1>1, <1>2, <1>5, <1>7, <2>3, <2>4, FailInv
<1> QED  BY <1>6, <1>7 DEF QBittorrentRequest

\* Deluge's check of the session.
LEMMA CheckSessionInv ==
    ASSUME IInv, NEW out \in Outcomes, CheckSession(out)
    PROVE  Good
<1>1. /\ TypeOK /\ Troubles /\ pass.on /\ pass.stage = "check" /\ app = "Deluge" /\ Kept
      /\ srv' = srv /\ conf' \in {conf, Applied}
  BY DEF IInv, CheckSession, At
<1>2. Same(pass) /\ Same(Hurt) /\ "send" \in Stages /\ "login" \in Stages
  BY <1>1, SamePass, StageFacts
<1>3. Around /\ SessionKept
  BY <1>1, OutcomeFacts, SameServer, AroundFacts DEF CheckSession
<1>4. pass.session /\ (pass.session /\ ~srv.daemon /\ srv.hosts => 1 <= pass.troubles)
  BY <1>1 DEF Troubles
<1>5. ASSUME NEW p \in {pass, Hurt}, Sending([p EXCEPT !.session = FALSE], "login")
      PROVE  Good
  <2> DEFINE q == [p EXCEPT !.session = FALSE]
  <2>1. Alike(q) /\ q.session = FALSE /\ q.troubles = p.troubles
    BY <1>1, <1>2, AlikePasses
  <2> HIDE DEF q
  <2>2. /\ PassOK' /\ RestOK' /\ OpsHeld' /\ Shape
        /\ pass'.session = q.session /\ pass'.stage = "login" /\ pass'.troubles = q.troubles
    BY <1>1, <1>2, <1>3, <1>5, <2>1, SendingInv DEF q
  <2>3. Troubles'
    BY <1>1, <1>3, <2>1, <2>2 DEF Troubles, Around
  <2> QED  BY <2>2, <2>3 DEF Good
<1>6. CASE Answered(out) /\ srv.valid
  <2>1. Sending(pass, "send")
    BY <1>6 DEF CheckSession, Answered, Unanswered
  <2>2. Alike(pass)
    BY <1>1, <1>2, AlikePasses
  <2>3. /\ PassOK' /\ RestOK' /\ OpsHeld' /\ Shape
        /\ pass'.session = pass.session /\ pass'.stage = "send" /\ pass'.troubles = pass.troubles
    BY <1>1, <1>2, <1>3, <2>1, <2>2, SendingInv
  <2>4. Troubles'
    BY <1>1, <1>3, <1>4, <1>6, <2>3 DEF Troubles, Around
  <2> QED  BY <2>3, <2>4 DEF Good
<1>7. CASE Answered(out) /\ ~srv.valid
  BY <1>5, <1>7 DEF CheckSession, Answered, Unanswered
<1>8. CASE Unanswered(out)
  BY <1>5, <1>8 DEF CheckSession, Answered, Unanswered
<1> QED  BY <1>6, <1>7, <1>8 DEF CheckSession

\* Deluge's login.
LEMMA DelugeLoginInv ==
    ASSUME IInv, NEW out \in Outcomes, DelugeLogin(out)
    PROVE  Good
<1>1. /\ TypeOK /\ Troubles /\ pass.on /\ pass.stage = "login" /\ app = "Deluge" /\ Kept
      /\ conf' \in {conf, Applied}
  BY DEF IInv, DelugeLogin, At
<1>2. CASE Answered(out) /\ Authorized
  <2>1. srv' = [srv EXCEPT !.valid = TRUE] /\ Sending(pass, "hosts")
    BY <1>2 DEF DelugeLogin, Answered, Unanswered
  <2>2. srv'.valid = TRUE /\ Around /\ SessionKept
    BY <1>1, <1>2, <2>1, OutcomeFacts, ValidServer, AroundFacts
  <2>3. Alike(pass) /\ "hosts" \in Stages
    BY <1>1, SamePass, AlikePasses, StageFacts
  <2>4. /\ PassOK' /\ RestOK' /\ OpsHeld' /\ Shape
        /\ pass'.session = pass.session /\ pass'.stage = "hosts" /\ pass'.troubles = pass.troubles
    BY <1>1, <2>1, <2>2, <2>3, SendingInv
  <2>5. Troubles'
    BY <1>1, <2>2, <2>4 DEF Troubles, Around, SessionKept
  <2> QED  BY <2>4, <2>5 DEF Good
<1>3. CASE Answered(out) /\ ~Authorized
  <2>1. srv' = srv /\ Fail(pass)
    BY <1>3 DEF DelugeLogin, Answered, Unanswered
  <2>2. Around /\ SessionKept
    BY <1>1, <1>3, <2>1, OutcomeFacts, SameServer, AroundFacts
  <2>3. Excused
    BY <1>3 DEF Excused
  <2> QED  BY <1>1, <2>1, <2>2, <2>3, SamePass, FailInv
<1>4. CASE Unanswered(out)
  <2>1. srv' = srv /\ Fail(Hurt)
    BY <1>4 DEF DelugeLogin, Answered, Unanswered
  <2>2. Around /\ SessionKept /\ Lost
    BY <1>1, <1>4, <2>1, OutcomeFacts, SameServer, AroundFacts
  <2>3. Excused
    BY <1>1, <2>2 DEF Excused
  <2> QED  BY <1>1, <2>1, <2>2, <2>3, SamePass, FailInv
<1> QED  BY <1>2, <1>3, <1>4 DEF DelugeLogin

\* A login that is over, of a pass whose troubles tell what is wrong with the
\* session and the daemon.
LEMMA LoggedInInv ==
    ASSUME IInv, pass.on, app = "Deluge", Around, NEW p, Same(p), LoggedIn(p),
           ~srv'.valid \/ (~srv'.daemon /\ srv'.hosts) => 1 <= p.troubles
    PROVE  Good
<1> DEFINE q     == [p EXCEPT !.session = TRUE, !.recheck = FALSE]
           stage == IF p.recheck THEN "check" ELSE "send"
<1>1. Sending(q, stage)
  BY DEF LoggedIn
<1>2. Alike(q) /\ q.session = TRUE /\ q.troubles = p.troubles
  BY AlikePasses DEF IInv
<1>3. stage \in Stages /\ stage \in {"check", "send"}
  BY StageFacts DEF IInv
<1> HIDE DEF q, stage
<1>4. /\ PassOK' /\ RestOK' /\ OpsHeld' /\ Shape
      /\ pass'.session = q.session /\ pass'.stage = stage /\ pass'.troubles = q.troubles
  BY <1>1, <1>2, <1>3, SendingInv
<1>5. Troubles'
  BY <1>2, <1>3, <1>4 DEF Troubles, Around
<1> QED  BY <1>4, <1>5 DEF Good

\* Deluge's list of daemons.
LEMMA GetHostsInv ==
    ASSUME IInv, NEW out \in Outcomes, GetHosts(out)
    PROVE  Good
<1>1. /\ TypeOK /\ Troubles /\ pass.on /\ pass.stage = "hosts" /\ app = "Deluge" /\ Kept
      /\ srv' = srv /\ conf' \in {conf, Applied}
  BY DEF IInv, GetHosts, At
<1>2. Same(pass) /\ Same(Hurt) /\ "connect" \in Stages /\ pass.troubles \in Nat
  BY <1>1, SamePass, StageFacts, HurtCounts
<1>3. Around /\ SessionKept
  BY <1>1, OutcomeFacts, SameServer, AroundFacts DEF GetHosts
<1>4. /\ (~srv.valid => 1 <= pass.troubles)
      /\ (pass.session /\ ~srv.daemon /\ srv.hosts => 1 <= pass.troubles)
  BY <1>1 DEF Troubles
<1>5. CASE Answered(out) /\ ~srv.valid
  <2>1. Fail(pass)
    BY <1>5 DEF GetHosts, Answered, Unanswered
  <2>2. Excused
    BY <1>1, <1>2, <1>4, <1>5 DEF Excused
  <2> QED  BY <1>1, <1>2, <1>3, <2>1, <2>2, FailInv
<1>6. CASE Answered(out) /\ srv.valid /\ srv.hosts
  <2>1. Sending(pass, "connect")
    BY <1>6 DEF GetHosts, Answered, Unanswered
  <2>2. Alike(pass)
    BY <1>1, <1>2, AlikePasses
  <2>3. /\ PassOK' /\ RestOK' /\ OpsHeld' /\ Shape
        /\ pass'.session = pass.session /\ pass'.stage = "connect" /\ pass'.troubles = pass.troubles
    BY <1>1, <1>2, <1>3, <2>1, <2>2, SendingInv
  <2>4. Troubles'
    BY <1>1, <1>3, <1>4, <1>6, <2>3 DEF Troubles, Around
  <2> QED  BY <2>3, <2>4 DEF Good
<1>7. CASE Answered(out) /\ srv.valid /\ ~srv.hosts
  <2>1. LoggedIn(pass)
    BY <1>7 DEF GetHosts, Answered, Unanswered
  <2> QED  BY <1>1, <1>2, <1>3, <1>7, <2>1, LoggedInInv
<1>8. CASE Unanswered(out)
  <2>1. Fail(Hurt) /\ Lost
    BY <1>1, <1>8, OutcomeFacts DEF GetHosts, Answered, Unanswered
  <2>2. Excused
    BY <1>1, <2>1 DEF Excused
  <2> QED  BY <1>1, <1>2, <1>3, <2>1, <2>2, FailInv
<1> QED  BY <1>5, <1>6, <1>7, <1>8 DEF GetHosts

\* Deluge's connection to the daemon, whose error is dropped.
LEMMA ConnectInv ==
    ASSUME IInv, NEW out \in Outcomes, Connect(out)
    PROVE  Good
<1>1. /\ TypeOK /\ Troubles /\ pass.on /\ pass.stage = "connect" /\ app = "Deluge" /\ Kept
      /\ conf' \in {conf, Applied}
      /\ srv' = [srv EXCEPT !.daemon = @ \/ (out # "lost" /\ srv.valid)]
  BY DEF IInv, Connect, At
<1>2. Same(pass) /\ Same(Hurt) /\ pass.troubles \in Nat /\ 1 <= Hurt.troubles
  BY <1>1, SamePass, HurtCounts
<1>3. srv \in Servers
  BY <1>1 DEF TypeOK, Servers
<1>4. /\ srv' \in Servers /\ srv'.valid = srv.valid /\ srv'.hosts = srv.hosts
      /\ srv'.daemon = (srv.daemon \/ (out # "lost" /\ srv.valid))
  BY <1>1, <1>3 DEF Servers
<1>5. Around
  BY <1>1, <1>4, OutcomeFacts DEF Around, Connect, Kept
<1>6. ~srv.valid => 1 <= pass.troubles
  BY <1>1 DEF Troubles
<1>7. CASE Answered(out)
  <2>1. LoggedIn(pass) /\ out = "ok"
    BY <1>7 DEF Connect, Answered, Unanswered
  <2>2. ~srv'.valid \/ (~srv'.daemon /\ srv'.hosts) => 1 <= pass.troubles
    BY <1>4, <1>6, <2>1
  <2> QED  BY <1>1, <1>2, <1>5, <2>1, <2>2, LoggedInInv
<1>8. CASE Unanswered(out)
  <2>1. LoggedIn(Hurt)
    BY <1>8 DEF Connect, Answered, Unanswered
  <2> QED  BY <1>1, <1>2, <1>5, <2>1, LoggedInInv
<1> QED  BY <1>7, <1>8 DEF Connect

\* A request that the Web UI of Deluge passes on.
LEMMA DelugeRequestInv ==
    ASSUME IInv, NEW out \in Outcomes, DelugeRequest(out)
    PROVE  Good
<1> DEFINE serves == srv.valid /\ srv.daemon
<1>1. TypeOK /\ Troubles /\ pass.on /\ pass.stage = "send" /\ app = "Deluge" /\ Kept /\ srv' = srv
  BY DEF IInv, DelugeRequest, At
<1>2. Same(pass) /\ Same(Hurt) /\ pass.troubles \in Nat
  BY <1>1, SamePass, HurtCounts
<1>3. serves \in BOOLEAN /\ (out = "late" /\ serves) \in BOOLEAN
  BY <1>1 DEF TypeOK
<1>4. ~serves /\ srv.hosts => 1 <= pass.troubles
  BY <1>1 DEF Troubles
<1>5. CASE Answered(out)
  <2>1. Serve(serves) /\ (IF serves /\ ~Refused THEN Succeed(pass) ELSE Fail(pass))
    BY <1>5 DEF DelugeRequest, Answered, Unanswered
  <2> HIDE DEF serves
  <2>2. Around /\ SessionKept /\ (serves /\ ~Refused => conf' = Applied)
    BY <1>1, <1>3, <1>5, <2>1, OutcomeFacts, SameServer, AroundFacts, ServeFacts
  <2>3. CASE serves /\ ~Refused
    BY <1>1, <1>2, <2>1, <2>2, <2>3, SucceedInv DEF Served
  <2>4. CASE serves /\ Refused
    <3>1. Excused
      BY <1>1, <2>4 DEF Excused, CallRefused, Overlooked
    <3> QED  BY <1>1, <1>2, <2>1, <2>2, <2>4, <3>1, FailInv
  <2>5. CASE ~serves
    <3>1. Excused
      BY <1>1, <1>2, <1>4, <2>5 DEF Excused
    <3> QED  BY <1>1, <1>2, <2>1, <2>2, <2>5, <3>1, FailInv
  <2> QED  BY <2>3, <2>4, <2>5
<1>6. CASE Unanswered(out)
  <2>1. Fail(Hurt) /\ Serve(out = "late" /\ serves)
    BY <1>6 DEF DelugeRequest, Answered, Unanswered
  <2> HIDE DEF serves
  <2>2. conf' \in {conf, Applied}
    BY <1>3, <2>1, ServeFacts
  <2>3. Around /\ SessionKept /\ Lost
    BY <1>1, <1>6, <2>2, OutcomeFacts, SameServer, AroundFacts
  <2>4. Excused
    BY <1>1, <2>3 DEF Excused
  <2> QED  BY <1>1, <1>2, <2>1, <2>3, <2>4, FailInv
<1> QED  BY <1>5, <1>6 DEF DelugeRequest

\* A request that carries the credentials.
LEMMA PlainRequestInv ==
    ASSUME IInv, NEW out \in Outcomes, NEW overlooked \in BOOLEAN, PlainRequest(out, overlooked),
           app \in {"RTorrent", "NZBGet", "SABnzbd"}, overlooked <=> Overlooked(app, Call)
    PROVE  Good
<1>1. TypeOK /\ pass.on /\ Kept /\ srv' = srv /\ Serve(out # "lost" /\ Authorized)
  BY DEF IInv, PlainRequest, At
<1>2. Same(pass) /\ Same(Hurt)
  BY <1>1, SamePass
<1>3. /\ conf' \in {conf, Applied}
      /\ (out # "lost" /\ Authorized) /\ ~Refused => conf' = Applied
  <2>1. (out # "lost" /\ Authorized) \in BOOLEAN
    BY DEF Authorized
  <2> QED  BY <1>1, <2>1, ServeFacts
<1>4. Around /\ SessionKept
  BY <1>1, <1>3, OutcomeFacts, SameServer, AroundFacts DEF PlainRequest
<1>5. CASE Answered(out) /\ ((Authorized /\ ~Refused) \/ overlooked)
  <2>1. Succeed(pass) /\ out # "lost"
    BY <1>5 DEF PlainRequest, Answered, Unanswered
  <2>2. Served
    BY <1>3, <1>5, <2>1 DEF Served, Overlooked, Ignored
  <2> QED  BY <1>1, <1>2, <1>4, <2>1, <2>2, SucceedInv
<1>6. CASE Answered(out) /\ ~((Authorized /\ ~Refused) \/ overlooked)
  <2>1. Fail(pass)
    BY <1>6 DEF PlainRequest, Answered, Unanswered
  <2>2. Excused
    BY <1>6 DEF Excused, CallRefused
  <2> QED  BY <1>1, <1>2, <1>4, <2>1, <2>2, FailInv
<1>7. CASE Unanswered(out)
  <2>1. Fail(Hurt) /\ Lost
    BY <1>1, <1>7, OutcomeFacts DEF PlainRequest, Answered, Unanswered
  <2>2. Excused
    BY <2>1 DEF Excused
  <2> QED  BY <1>1, <1>2, <1>4, <2>1, <2>2, FailInv
<1> QED  BY <1>5, <1>6, <1>7 DEF PlainRequest

\* A request changes the settings of the client by the present call, or not.
LEMMA RequestServes ==
    ASSUME IInv, Request
    PROVE  app' = app /\ pass.on /\ conf' \in {conf, Applied}
<1>1. PICK out \in Outcomes :
          \/ getSessionID(out) \/ TransmissionRequest(out)
          \/ QBittorrentLogin(out) \/ QBittorrentRequest(out)
          \/ CheckSession(out) \/ DelugeLogin(out) \/ GetHosts(out) \/ Connect(out) \/ DelugeRequest(out)
          \/ RTorrentRequest(out) \/ SABnzbdRequest(out) \/ NZBGetRequest(out)
  BY DEF Request
<1>2. ASSUME NEW serves, Serve(serves)
      PROVE  conf' \in {conf, Applied}
  BY <1>2 DEF Serve
<1>3. CASE getSessionID(out) \/ CheckSession(out) \/ DelugeLogin(out) \/ GetHosts(out) \/ Connect(out)
  BY <1>3 DEF getSessionID, CheckSession, DelugeLogin, GetHosts, Connect, Kept, At
<1>4. CASE QBittorrentLogin(out)
  BY <1>4 DEF QBittorrentLogin, LogIn, Kept, At
<1>5. CASE TransmissionRequest(out)
  BY <1>2, <1>5 DEF TransmissionRequest, Kept, At
<1>6. CASE QBittorrentRequest(out)
  BY <1>2, <1>6 DEF QBittorrentRequest, Kept, At
<1>7. CASE DelugeRequest(out)
  BY <1>2, <1>7 DEF DelugeRequest, Kept, At
<1>8. CASE RTorrentRequest(out) \/ SABnzbdRequest(out) \/ NZBGetRequest(out)
  BY <1>2, <1>8 DEF RTorrentRequest, SABnzbdRequest, NZBGetRequest, PlainRequest, Kept, At
<1> QED  BY <1>1, <1>3, <1>4, <1>5, <1>6, <1>7, <1>8

\* Every request does to the pass what Good says.
LEMMA RequestGood ==
    ASSUME IInv, Request
    PROVE  Good
<1>1. PICK out \in Outcomes :
          \/ getSessionID(out) \/ TransmissionRequest(out)
          \/ QBittorrentLogin(out) \/ QBittorrentRequest(out)
          \/ CheckSession(out) \/ DelugeLogin(out) \/ GetHosts(out) \/ Connect(out) \/ DelugeRequest(out)
          \/ RTorrentRequest(out) \/ SABnzbdRequest(out) \/ NZBGetRequest(out)
  BY DEF Request
<1>2. CASE RTorrentRequest(out) \/ NZBGetRequest(out)
  <2>1. PlainRequest(out, FALSE) /\ app \in {"RTorrent", "NZBGet"} /\ ~Overlooked(app, Call)
    BY <1>2 DEF RTorrentRequest, NZBGetRequest, Overlooked
  <2> QED  BY <2>1, PlainRequestInv
<1>3. CASE SABnzbdRequest(out)
  <2>1. PlainRequest(out, Overlooked(app, Call)) /\ app = "SABnzbd" /\ Overlooked(app, Call) \in BOOLEAN
    BY <1>3 DEF SABnzbdRequest, Overlooked
  <2> QED  BY <2>1, PlainRequestInv
<1> QED  BY <1>1, <1>2, <1>3, getSessionIDInv, TransmissionRequestInv, QBittorrentLoginInv, QBittorrentRequestInv,
            CheckSessionInv, DelugeLoginInv, GetHostsInv, ConnectInv, DelugeRequestInv

\* The settings after a call was carried out.
LEMMA AppliedFacts ==
    /\ DOMAIN Applied = DOMAIN conf \cup DOMAIN Call
    /\ \A k \in DOMAIN Call : Applied[k] = Call[k]
    /\ \A k \in DOMAIN conf \ DOMAIN Call : Applied[k] = conf[k]
BY DEF Applied

\* What is brought stays brought while the pass goes on with its call.
LEMMA BroughtKept ==
    ASSUME IInv, pass.on, app' = app, conf' \in {conf, Applied}, GoesOn
    PROVE  Brought'
<1>1. pass'.on /\ pass'.ops = pass.ops /\ pass'.op = pass.op /\ pass'.calm = pass.calm
  BY DEF GoesOn, SameCalls
<1>2. ASSUME pass.calm, NEW i \in DOMAIN pass.ops, NEW k \in DOMAIN pass.ops[i],
             LastBefore(pass.ops, pass.op, k, i)
      PROVE  k \in DOMAIN conf' /\ (conf'[k] = pass.ops[i][k] \/ (k \in DOMAIN Call /\ conf'[k] = Call[k]))
  <2>1. k \in DOMAIN conf /\ (conf[k] = pass.ops[i][k] \/ (k \in DOMAIN Call /\ conf[k] = Call[k]))
    BY <1>2 DEF IInv, Brought
  <2>2. CASE conf' = conf
    BY <2>1, <2>2
  <2>3. CASE conf' = Applied
    BY <2>1, <2>3, AppliedFacts
  <2> QED  BY <2>2, <2>3
<1>3. Call' = Call /\ Ignored' = Ignored
  BY <1>1 DEF Call, Ignored
<1> QED  BY <1>1, <1>2, <1>3 DEF Brought, LastBefore

\* Once the call is served, what is brought is in the client as it was sent.
LEMMA BroughtServed ==
    ASSUME IInv, pass.on, pass.calm, Served, NEW i \in DOMAIN pass.ops, NEW k \in DOMAIN pass.ops[i],
           LastBefore(pass.ops, pass.op + 1, k, i)
    PROVE  k \in DOMAIN conf' /\ conf'[k] = pass.ops[i][k]
<1>1. pass.op \in Nat /\ i \in Nat /\ i <= pass.op /\ k \notin Ignored /\ pass.op \in DOMAIN pass.ops
  BY PassOps DEF LastBefore
<1>2. CASE i = pass.op
  <2>1. k \in DOMAIN Call /\ Call[k] = pass.ops[i][k]
    BY <1>2 DEF Call
  <2>2. conf' = Applied
    BY <1>1, <2>1 DEF Served
  <2> QED  BY <2>1, <2>2, AppliedFacts
<1>3. CASE i # pass.op
  <2>1. i < pass.op /\ pass.op < pass.op + 1
    BY <1>1, <1>3
  <2>2. k \notin DOMAIN Call
    BY <1>1, <2>1 DEF LastBefore, Call
  <2>3. LastBefore(pass.ops, pass.op, k, i)
    <3>1. \A l \in DOMAIN pass.ops : l < pass.op => l < pass.op + 1
      BY <1>1, PassOps
    <3> QED  BY <2>1, <3>1 DEF LastBefore
  <2>4. k \in DOMAIN conf /\ conf[k] = pass.ops[i][k]
    BY <2>2, <2>3 DEF IInv, Brought
  <2>5. CASE conf' = conf
    BY <2>4, <2>5
  <2>6. CASE conf' = Applied
    BY <2>2, <2>4, <2>6, AppliedFacts
  <2> QED  BY <2>5, <2>6 DEF Served
<1> QED  BY <1>2, <1>3

\* So it is when the pass goes over to the next call.
LEMMA BroughtNext ==
    ASSUME IInv, pass.on, app' = app, Advances
    PROVE  Brought'
<1>1. /\ pass'.on /\ pass'.ops = pass.ops /\ pass'.op = pass.op + 1 /\ pass'.calm = pass.calm /\ Served
  BY DEF Advances, SameCalls
<1>2. ASSUME pass.calm, NEW i \in DOMAIN pass.ops, NEW k \in DOMAIN pass.ops[i],
             LastBefore(pass.ops, pass.op + 1, k, i)
      PROVE  k \in DOMAIN conf' /\ conf'[k] = pass.ops[i][k]
  BY <1>1, <1>2, BroughtServed
<1>3. Ignored' = Ignored
  BY DEF Ignored
<1> QED  BY <1>1, <1>2, <1>3 DEF Brought, LastBefore

\* A request preserves the invariant.
LEMMA RequestInv == IInv /\ Request => IInv'
<1> SUFFICES ASSUME IInv, Request
             PROVE  IInv'
  OBVIOUS
<1>1. Good /\ app' = app /\ pass.on /\ conf' \in {conf, Applied}
  BY RequestGood, RequestServes
<1>2. TypeOK' /\ OpsHeld' /\ Troubles'
  BY <1>1, TypePartsNext DEF Good
<1>3. Brought'
  BY <1>1, BroughtKept, BroughtNext, IdleInv DEF Good, Shape, Succeeds, Fails
<1> QED  BY <1>2, <1>3 DEF IInv

\* A request that ends a pass with an error has a reason.
LEMMA FailureStep == IInv /\ Ends("failed") => Excused
<1> SUFFICES ASSUME IInv, Ends("failed")
             PROVE  Excused
  OBVIOUS
<1>1. Good /\ ~pass'.on /\ last'.result = "failed"
  BY RequestGood DEF Ends
<1>2. ~GoesOn /\ ~Advances /\ ~Succeeds
  BY <1>1 DEF GoesOn, Advances, Succeeds, SameCalls
<1> QED  BY <1>1, <1>2 DEF Good, Shape, Fails

\* A request that ends a pass without one leaves the client with every value.
LEMMA SuccessStep ==
    ASSUME ExpectedIsSent, IInv, Ends("ok"), pass.calm
    PROVE  Holds(last.spec)'
<1>1. Good /\ ~pass'.on /\ last'.result = "ok" /\ app' = app /\ pass.on
  BY RequestGood, RequestServes DEF Ends
<1>2. Succeeds
  <2>1. ~GoesOn /\ ~Advances
    BY <1>1 DEF GoesOn, Advances, SameCalls
  <2>2. ~Fails
    <3>1. [result |-> "failed", spec |-> pass.spec].result # "ok"
      OBVIOUS
    <3> QED  BY <1>1, <3>1 DEF Fails
  <2> QED  BY <1>1, <2>1, <2>2 DEF Good, Shape
<1>3. last'.spec = pass.spec /\ pass.op = Len(pass.ops) /\ Served
  BY <1>2 DEF Succeeds
<1>4. pass.spec \in DOMAIN Specs /\ pass.ops = Ops(pass.spec)
  BY <1>1 DEF IInv, TypeOK, Named, OpsHeld
<1> SUFFICES ASSUME NEW k \in DOMAIN Expected[pass.spec], k \notin Ignored
             PROVE  k \in DOMAIN conf' /\ conf'[k] = Expected[pass.spec][k]
  BY <1>1, <1>3 DEF Holds, Ignored
<1>5. PICK i \in DOMAIN pass.ops :
          /\ k \in DOMAIN pass.ops[i] /\ Expected[pass.spec][k] = pass.ops[i][k]
          /\ \A j \in DOMAIN pass.ops : k \in DOMAIN pass.ops[j] => j <= i
  BY <1>4 DEF ExpectedIsSent
<1>6. i < pass.op + 1 /\ \A l \in DOMAIN pass.ops : ~(i < l /\ l <= i)
  BY <1>1, <1>3, PassOps
<1>7. LastBefore(pass.ops, pass.op + 1, k, i)
  BY <1>5, <1>6 DEF LastBefore
<1> QED  BY <1>1, <1>3, <1>5, <1>7, BroughtServed

-----------------------------------------------------------------------------
(***************************************************************************)
(* The start of a pass, the surroundings, and the theorems.                *)
(***************************************************************************)

\* The first state.
LEMMA InitInv == Init => IInv
<1> SUFFICES ASSUME Init
             PROVE  IInv
  OBVIOUS
<1>1. pass = Idle /\ pass.on = FALSE
  BY DEF Init, Idle
<1>2. PassOK
  <2>1. /\ pass.attempt = 0 /\ pass.troubles = 0
        /\ pass.session = FALSE /\ pass.recheck = FALSE /\ pass.calm = TRUE
    BY <1>1 DEF Idle
  <2>2. DOMAIN pass = DOMAIN Idle
    BY <1>1
  <2>3. pass.attempt \in 0 .. MaxRetries /\ pass.troubles \in 0 .. (MaxRetries + 1)
    BY <2>1 DEF MaxRetries
  <2> QED  BY <1>1, <2>1, <2>2, <2>3 DEF PassOK
<1>3. RestOK
  <2>1. srv \in Servers /\ srv.daemon = FALSE
    BY DEF Init, Servers
  <2>2. last \in [result : {"none", "ok", "failed"}, spec : Named(app)]
    BY DEF Init
  <2> QED  BY <2>1, <2>2 DEF Init, RestOK, Passwords
<1>4. OpsHeld /\ Troubles /\ Brought
  BY <1>1 DEF OpsHeld, Troubles, Brought
<1> QED  BY <1>2, <1>3, <1>4, TypeParts DEF IInv

\* A new pass has met no trouble yet and is at its first query.
LEMMA StartPassInv == IInv /\ StartPass => IInv'
<1> SUFFICES ASSUME IInv, StartPass
             PROVE  IInv'
  OBVIOUS
<1>1. /\ pass' = NewClient /\ app' = app /\ obj' = obj /\ secret' = secret /\ accepted' = accepted
      /\ srv' = srv /\ conf' = conf /\ last' = last /\ events' = events
  BY DEF StartPass
<1>2. /\ DOMAIN pass' = DOMAIN Idle
      /\ pass'.on = TRUE /\ pass'.spec = obj /\ pass'.ops = Ops(obj) /\ pass'.key = secret
      /\ pass'.op = 1 /\ pass'.stage = Begin(FALSE) /\ pass'.session = FALSE
      /\ pass'.attempt = 0 /\ pass'.recheck = TRUE /\ pass'.troubles = 0 /\ pass'.calm = TRUE
  BY <1>1 DEF NewClient, Idle
<1>3. Stages' = Stages /\ Named(app)' = Named(app)
  BY <1>1, NamedNext DEF Stages
<1>4. obj \in Named(app) /\ obj \in DOMAIN Specs /\ secret \in Passwords
  BY DEF IInv, TypeOK, Named
<1>5. pass'.op \in DOMAIN pass'.ops
  BY <1>2, <1>4, OpsFacts
<1>6. pass'.stage \in Stages'
  BY <1>2, <1>3, BeginFacts
<1>7. pass'.attempt \in 0 .. MaxRetries /\ pass'.troubles \in 0 .. (MaxRetries + 1)
  BY <1>2 DEF MaxRetries
<1>8. PassOK'
  BY <1>2, <1>3, <1>4, <1>5, <1>6, <1>7 DEF PassOK
<1>9. RestOK'
  BY <1>1, <1>3, TypeParts DEF IInv, RestOK
<1>10. OpsHeld'
  BY <1>2 DEF OpsHeld, Ops
<1>11. Troubles'
  <2>1. app = "Transmission" => pass'.stage # "send"
    BY <1>2, BeginFacts
  <2>2. app = "QBittorrent" => pass'.stage \notin {"send", "relogin", "resend"}
    BY <1>2, BeginFacts
  <2>3. app = "Deluge" => pass'.stage \notin {"check", "send", "hosts", "connect"}
    BY <1>2, BeginFacts
  <2>4. app' = app /\ pass'.session = FALSE /\ pass'.attempt = 0 /\ pass'.troubles = 0
    BY <1>1, <1>2
  <2>5. CASE app = "Transmission"
    BY <2>1, <2>4, <2>5 DEF Troubles
  <2>6. CASE app = "QBittorrent"
    BY <2>2, <2>4, <2>6 DEF Troubles
  <2>7. CASE app = "Deluge"
    BY <2>3, <2>4, <2>7 DEF Troubles
  <2>8. CASE app \notin {"Transmission", "QBittorrent", "Deluge"}
    BY <2>4, <2>8 DEF Troubles
  <2> QED  BY <2>5, <2>6, <2>7, <2>8
<1>12. Brought'
  <2>1. DOMAIN pass'.ops = 1 .. Len(pass'.ops)
    BY <1>2, <1>4, OpsFacts
  <2>2. \A i \in DOMAIN pass'.ops : ~(i < pass'.op)
    BY <1>2, <1>4, <2>1, OpsFacts
  <2> QED  BY <2>2 DEF Brought, LastBefore
<1> QED  BY <1>8, <1>9, <1>10, <1>11, <1>12, TypePartsNext DEF IInv

\* Somebody interferes: the pass goes on, and is no longer calm.
LEMMA DisturbedInv ==
    ASSUME IInv, Disturbed, app' = app, srv' = srv
    PROVE  PassOK' /\ OpsHeld' /\ Troubles' /\ Brought'
<1>1. CASE ~pass.on
  <2>1. pass' = pass
    BY <1>1 DEF Disturbed
  <2>2. Stages' = Stages /\ Named(app)' = Named(app)
    BY NamedNext DEF Stages
  <2>3. PassOK'
    BY <2>1, <2>2, TypeParts DEF IInv, PassOK
  <2> QED  BY <1>1, <2>1, <2>3 DEF OpsHeld, Troubles, Brought
<1>2. CASE pass.on
  <2>1. pass' = [pass EXCEPT !.calm = FALSE] /\ DOMAIN pass = DOMAIN Idle
    BY <1>2 DEF Disturbed, IInv, TypeOK
  <2>2. /\ DOMAIN pass' = DOMAIN Idle
        /\ pass'.on = pass.on /\ pass'.spec = pass.spec /\ pass'.ops = pass.ops /\ pass'.key = pass.key
        /\ pass'.op = pass.op /\ pass'.stage = pass.stage /\ pass'.session = pass.session
        /\ pass'.attempt = pass.attempt /\ pass'.recheck = pass.recheck /\ pass'.calm = FALSE
        /\ pass'.troubles = pass.troubles
    BY <2>1, PassFields
  <2>3. Stages' = Stages /\ Named(app)' = Named(app)
    BY NamedNext DEF Stages
  <2>4. PassOK'
    BY <2>2, <2>3, TypeParts DEF IInv, PassOK
  <2>5. OpsHeld'
    BY <2>2 DEF IInv, OpsHeld, Ops
  <2>6. Troubles'
    BY <2>2 DEF IInv, Troubles
  <2> QED  BY <2>2, <2>4, <2>5, <2>6 DEF Brought
<1> QED  BY <1>1, <1>2

\* An edit of the specification does not reach the running pass.
LEMMA UserEditsInv == ASSUME IInv, NEW n \in Named(app), UserEdits(n) PROVE IInv'
<1>1. /\ app' = app /\ obj' = n /\ secret' = secret /\ accepted' = accepted /\ srv' = srv /\ conf' = conf
      /\ pass' = pass /\ last' = last /\ events' \in Nat
  BY DEF UserEdits, Event, IInv, TypeOK
<1>2. Stages' = Stages /\ Named(app)' = Named(app)
  BY <1>1, NamedNext DEF Stages
<1>3. PassOK' /\ RestOK'
  BY <1>1, <1>2, TypeParts DEF IInv, PassOK, RestOK
<1>4. OpsHeld' /\ Troubles'
  BY <1>1 DEF IInv, OpsHeld, Troubles, Ops
<1>5. Brought'
  BY <1>1 DEF IInv, Brought, LastBefore, Ignored, Call
<1> QED  BY <1>3, <1>4, <1>5, TypePartsNext DEF IInv

\* A password is changed.
LEMMA PasswordChangesInv == IInv /\ PasswordChanges => IInv'
<1> SUFFICES ASSUME IInv, PasswordChanges
             PROVE  IInv'
  OBVIOUS
<1>1. /\ app' = app /\ obj' = obj /\ srv' = srv /\ last' = last /\ Disturbed /\ events' \in Nat
      /\ secret' \in Passwords /\ accepted' \in Passwords
  BY DEF PasswordChanges, Event, IInv, TypeOK
<1>2. Named(app)' = Named(app)
  BY <1>1, NamedNext
<1>3. RestOK'
  BY <1>1, <1>2, TypeParts DEF IInv, RestOK
<1> QED  BY <1>1, <1>3, DisturbedInv, TypePartsNext DEF IInv

\* Somebody changes a setting of the client.
LEMMA UserSetsInv == ASSUME IInv, NEW k, UserSets(k) PROVE IInv'
<1>1. /\ app' = app /\ obj' = obj /\ srv' = srv /\ last' = last /\ Disturbed /\ events' \in Nat
      /\ secret' = secret /\ accepted' = accepted
  BY DEF UserSets, Event, IInv, TypeOK
<1>2. Named(app)' = Named(app)
  BY <1>1, NamedNext
<1>3. RestOK'
  BY <1>1, <1>2, TypeParts DEF IInv, RestOK
<1> QED  BY <1>1, <1>3, DisturbedInv, TypePartsNext DEF IInv

\* A session expires, which the running pass counts.
LEMMA ExpireInv == IInv /\ Expire => IInv'
<1> SUFFICES ASSUME IInv, Expire
             PROVE  IInv'
  OBVIOUS
<1>1. /\ app' = app /\ obj' = obj /\ secret' = secret /\ accepted' = accepted /\ conf' = conf
      /\ last' = last /\ events' = events /\ pass' = IF pass.on THEN Hurt ELSE pass
  BY DEF Expire
<1>2. srv' \in Servers /\ srv'.valid = FALSE /\ (srv'.daemon => srv.daemon) /\ srv'.hosts = srv.hosts
  <2>1. srv \in Servers
    BY DEF IInv, TypeOK, Servers
  <2>2. PICK d \in {srv.daemon, FALSE} : srv' = [srv EXCEPT !.valid = FALSE, !.daemon = d]
    BY DEF Expire
  <2> QED  BY <2>1, <2>2 DEF Servers
<1>3. Stages' = Stages /\ Named(app)' = Named(app)
  BY <1>1, NamedNext DEF Stages
<1>4. RestOK'
  BY <1>1, <1>2, <1>3, TypeParts DEF IInv, RestOK
<1>5. TypeOK /\ Troubles /\ Same(pass) /\ Same(Hurt)
  BY SamePass DEF IInv
<1>6. CASE ~pass.on
  <2>1. pass' = pass
    BY <1>1, <1>6
  <2>2. PassOK'
    BY <1>3, <2>1, TypeParts DEF IInv, PassOK
  <2> QED  BY <1>4, <1>6, <2>1, <2>2, TypePartsNext DEF IInv, OpsHeld, Troubles, Brought
<1>7. CASE pass.on
  <2>1. pass' = Hurt
    BY <1>1, <1>7
  <2>2. /\ DOMAIN pass' = DOMAIN Idle
        /\ pass'.on = pass.on /\ pass'.spec = pass.spec /\ pass'.ops = pass.ops /\ pass'.key = pass.key
        /\ pass'.op = pass.op /\ pass'.stage = pass.stage /\ pass'.session = pass.session
        /\ pass'.attempt = pass.attempt /\ pass'.recheck = pass.recheck /\ pass'.calm = pass.calm
        /\ pass'.troubles \in 0 .. (MaxRetries + 1)
    BY <1>5, <2>1 DEF Same
  <2>3. /\ pass.attempt \in Nat /\ pass.troubles \in Nat /\ pass'.troubles \in Nat /\ pass.attempt <= 3
        /\ 1 <= pass'.troubles
        /\ pass'.troubles = pass.troubles + 1 \/ (pass'.troubles = 4 /\ pass.troubles = 4)
    BY <1>5, <2>1, HurtCounts
  <2>4. PassOK'
    BY <1>3, <2>2, TypeParts DEF IInv, PassOK
  <2>5. OpsHeld'
    BY <2>2 DEF IInv, OpsHeld, Ops
  <2>6. Troubles'
    <3>1. CASE app = "Transmission"
      <4>1. (pass.stage = "send" => pass.session) /\ pass.attempt <= pass.troubles
        BY <1>5, <1>7, <3>1 DEF Troubles
      <4>2. pass'.attempt + 1 <= pass'.troubles /\ pass'.attempt <= pass'.troubles
        BY <2>2, <2>3, <4>1
      <4> QED  BY <1>1, <2>2, <3>1, <4>1, <4>2 DEF Troubles
    <3>2. CASE app = "QBittorrent"
      <4>1. /\ pass.stage \in {"send", "resend"} => pass.session
            /\ pass.stage = "resend" => 1 <= pass.troubles
        BY <1>5, <1>7, <3>2 DEF Troubles
      <4>2. pass'.stage = "resend" => 2 <= pass'.troubles
        BY <2>2, <2>3, <4>1
      <4> QED  BY <1>1, <2>2, <2>3, <3>2, <4>1, <4>2 DEF Troubles
    <3>3. CASE app = "Deluge"
      <4>1. pass.stage \in {"check", "send"} => pass.session
        BY <1>5, <1>7, <3>3 DEF Troubles
      <4> QED  BY <1>1, <2>2, <2>3, <3>3, <4>1 DEF Troubles
    <3>4. CASE app \notin {"Transmission", "QBittorrent", "Deluge"}
      BY <1>1, <3>4 DEF Troubles
    <3> QED  BY <3>1, <3>2, <3>3, <3>4
  <2>7. Brought'
    <3>1. Call' = Call /\ Ignored' = Ignored
      BY <1>1, <2>2 DEF Call, Ignored
    <3> QED  BY <1>1, <2>2, <3>1 DEF IInv, Brought, LastBefore
  <2> QED  BY <1>4, <2>4, <2>5, <2>6, <2>7, TypePartsNext DEF IInv
<1> QED  BY <1>6, <1>7

\* What does not touch the pass nor what it is about.
LEMMA StutterInv ==
    ASSUME IInv, UNCHANGED <<app, obj, secret, accepted, srv, conf, pass, last, events>>
    PROVE  IInv'
<1>1. Stages' = Stages /\ Named(app)' = Named(app)
  BY NamedNext DEF Stages
<1>2. PassOK' /\ RestOK'
  BY <1>1, TypeParts DEF IInv, PassOK, RestOK
<1>3. OpsHeld' /\ Troubles'
  BY DEF IInv, OpsHeld, Troubles, Ops
<1>4. Brought'
  BY DEF IInv, Brought, LastBefore, Ignored, Call
<1> QED  BY <1>2, <1>3, <1>4, TypePartsNext DEF IInv

\* A restart forgets the pass.
LEMMA RestartInv == IInv /\ Restart => IInv'
<1> SUFFICES ASSUME IInv, Restart
             PROVE  IInv'
  OBVIOUS
<1>1. /\ app' = app /\ obj' = obj /\ secret' = secret /\ accepted' = accepted /\ srv' = srv
      /\ last' = last /\ events' \in Nat /\ pass' = Idle
  BY DEF Restart, Event, IInv, TypeOK
<1>2. RestOK'
  BY <1>1, NamedNext, TypeParts DEF IInv, RestOK
<1> QED  BY <1>1, <1>2, IdleInv, TypePartsNext DEF IInv

\* Every step preserves the invariant.
LEMMA StepInv == IInv /\ [Next]_vars => IInv'
<1> SUFFICES ASSUME IInv, [Next]_vars
             PROVE  IInv'
  OBVIOUS
<1>1. CASE PassStep
  BY <1>1, StartPassInv, RequestInv DEF PassStep
<1>2. CASE Environment
  <2>1. CASE \E n \in Named(app) : UserEdits(n)
    BY <2>1, UserEditsInv
  <2>2. CASE \E k \in DOMAIN conf \cap Touchable : UserSets(k)
    BY <2>2, UserSetsInv
  <2>3. CASE StormEnds
    BY <2>3, StutterInv DEF StormEnds
  <2> QED  BY <1>2, <2>1, <2>2, <2>3, PasswordChangesInv, ExpireInv, RestartInv DEF Environment
<1>3. CASE UNCHANGED vars
  BY <1>3, StutterInv DEF vars
<1> QED  BY <1>1, <1>2, <1>3 DEF Next

\* The invariant holds in every reachable state: what a pass believes of its
\* session, its attempts and its troubles is right, and the values of the calls
\* behind it are in the client.
THEOREM Invariant == Spec => []IInv
<1>1. Init => IInv
  BY InitInv
<1>2. IInv /\ [Next]_vars => IInv'
  BY StepInv
<1> QED  BY <1>1, <1>2, PTL DEF Spec

\* Type correctness: a pass of the controller over a download client is always at
\* a call of its specification and in a stage of that client's protocol, and
\* request of TransmissionClient makes at most MaxRetries more attempts.
THEOREM TypeCorrect == Spec => []TypeOK
<1>1. IInv => TypeOK
  BY DEF IInv
<1> QED  BY <1>1, Invariant, PTL

\* A pass does not fail without a reason, with any client and however sessions
\* expire: the retries in request of Transmission and qBittorrent, and
\* ensureLoggedIn of Deluge, cover what they are there for.
THEOREM FailuresAreExcused == Spec => FailureIsExcused
<1>1. IInv /\ [Next]_vars => [Ends("failed") => Excused]_vars
  BY FailureStep
<1> QED  BY <1>1, Invariant, PTL DEF Spec, FailureIsExcused

\* A pass that ends without an error has brought every declared value to the
\* client, whatever expired, got lost or was repeated in it, if what is expected
\* of the client is what the last call with each key sends.
THEOREM SuccessIsApplied ==
    ASSUME ExpectedIsSent
    PROVE  Spec => SuccessMeansApplied
<1>1. IInv /\ [Next]_vars => [Ends("ok") /\ pass.calm => Holds(last.spec)']_vars
  BY SuccessStep
<1> QED  BY <1>1, Invariant, PTL DEF Spec, SuccessMeansApplied

=============================================================================
