---------------------------- MODULE ClientSession ----------------------------
(***************************************************************************)
(* Passes of the DownloadStack controller over one download client,        *)
(* request by request: connection test, version, then the calls that write *)
(* the settings, each inside the session protocol of that client.          *)
(*                                                                         *)
(*   Transmission  a session id that the client hands out with status 409; *)
(*                 up to MaxRetries more attempts per call                 *)
(*   qBittorrent   a login; one more login and attempt after status 403    *)
(*   Deluge        a login at the Web UI and its connection to a daemon;   *)
(*                 the session is checked before every call                *)
(*   rTorrent, SABnzbd, NZBGet  every request carries the credentials      *)
(*                                                                         *)
(* A pass makes a new client object and runs until a call fails; the error *)
(* of the version request is ignored.  DownloadStack models what the       *)
(* controller does around it.                                              *)
(***************************************************************************)
EXTENDS DownloadSettings

CONSTANTS
    Specs,      \* name -> [app, sections, refused]: the specifications, and the keys
                \* whose values the client refuses
    Expected,   \* name -> what the settings of the client are to be
    Touchable,  \* keys of settings that somebody else may change
    EventBound  \* bound on edits, changes of passwords and settings, lost requests
                \* and restarts

VARIABLES
    app,       \* the client; it does not change
    obj,       \* name of the stored specification
    secret,    \* the password in the Secret
    accepted,  \* the password that the client accepts
    srv,       \* [valid, daemon, hosts]: the session given out last is valid; Deluge's Web
               \* UI is connected to a daemon, and knows one
    conf,      \* the settings of the client; a setting that somebody changed is not in it
    pass,      \* the running pass
    last,      \* how the last pass ended
    storm,     \* sessions may expire
    events

vars == <<app, obj, secret, accepted, srv, conf, pass, last, storm, events>>

\* More attempts at a request of Transmission.
MaxRetries == 3

Passwords == {1, 2}

\* The operations of a pass: TestConnection, GetVersion, and the writing calls.
Query    == [k \in {} |-> 0]
Ops(n)   == <<Query, Query>> \o Calls(Specs[n].app, Specs[n].sections)
Named(a) == {n \in DOMAIN Specs : Specs[n].app = a}

ASSUME CallsAreLists ==
    \A n \in DOMAIN Specs : \A calls \in {Calls(Specs[n].app, Specs[n].sections)} :
        calls \in Seq({calls[i] : i \in DOMAIN calls})

\* ops: the operations, for its specification.  session: the client object has a
\* session id or is logged in.  recheck: the login is that of Deluge's
\* TestConnection.  troubles: expired sessions and
\* lost requests that the pass met, up to a cap; calm: nobody interfered.
Idle ==
    [on |-> FALSE, spec |-> "", ops |-> <<>>, key |-> 0, op |-> 0, stage |-> "", session |-> FALSE,
     attempt |-> 0, recheck |-> FALSE, troubles |-> 0, calm |-> TRUE]

Init ==
    /\ app \in {Specs[n].app : n \in DOMAIN Specs}
    /\ obj \in Named(app)
    /\ secret = 1 /\ accepted \in Passwords
    /\ srv \in [valid : {FALSE}, daemon : {FALSE}, hosts : IF app = "Deluge" THEN BOOLEAN ELSE {TRUE}]
    /\ conf = Query
    /\ pass = Idle
    /\ last = [result |-> "none", spec |-> obj]
    /\ storm = TRUE
    /\ events = 0

(***************************************************************************)
(* Users, client and process.                                              *)
(***************************************************************************)
Event == events < EventBound /\ events' = events + 1

Disturbed == pass' = IF pass.on THEN [pass EXCEPT !.calm = FALSE] ELSE pass

\* One more trouble for the pass.
Hurt == IF pass.troubles <= MaxRetries THEN [pass EXCEPT !.troubles = @ + 1] ELSE pass

UserEdits(n) ==
    /\ n # obj /\ obj' = n /\ Event
    /\ UNCHANGED <<app, secret, accepted, srv, conf, pass, last, storm>>

\* The password is changed in the Secret, or in the client.
PasswordChanges ==
    /\ \/ \E p \in Passwords \ {secret} : secret' = p /\ UNCHANGED accepted
       \/ \E p \in Passwords \ {accepted} : accepted' = p /\ UNCHANGED secret
    /\ Event
    /\ Disturbed
    /\ UNCHANGED <<app, obj, srv, conf, last, storm>>

UserSets(k) ==
    /\ conf' = [x \in DOMAIN conf \ {k} |-> conf[x]] /\ Event
    /\ Disturbed
    /\ UNCHANGED <<app, obj, secret, accepted, srv, last, storm>>

\* Sessions expire as often as the client likes, until it stops; the Web UI of
\* Deluge may lose its daemon with them.
Expire ==
    /\ storm /\ srv.valid
    /\ \E d \in {srv.daemon, FALSE} : srv' = [srv EXCEPT !.valid = FALSE, !.daemon = d]
    /\ pass' = IF pass.on THEN Hurt ELSE pass
    /\ UNCHANGED <<app, obj, secret, accepted, conf, last, storm, events>>

StormEnds ==
    /\ storm /\ storm' = FALSE
    /\ UNCHANGED <<app, obj, secret, accepted, srv, conf, pass, last, events>>

Restart ==
    /\ pass.on /\ Event
    /\ pass' = Idle
    /\ UNCHANGED <<app, obj, secret, accepted, srv, conf, last, storm>>

(***************************************************************************)
(* Requests.  A request is answered, or lost, or carried out and its       *)
(* answer lost.                                                            *)
(***************************************************************************)
Outcomes == {"ok", "lost", "late"}

\* Where a call begins.
Begin(session) ==
    CASE app = "Transmission" -> IF session THEN "send" ELSE "session"
      [] app = "QBittorrent"  -> IF session THEN "send" ELSE "login"
      [] app = "Deluge"       -> IF session THEN "check" ELSE "login"
      [] OTHER                -> "send"

NewClient ==
    [Idle EXCEPT !.on = TRUE, !.spec = obj, !.ops = Ops(obj), !.key = secret, !.op = 1, !.stage = Begin(FALSE),
                 !.recheck = TRUE]

StartPass ==
    /\ ~pass.on
    /\ pass' = NewClient
    /\ UNCHANGED <<app, obj, secret, accepted, srv, conf, last, storm, events>>

Call       == pass.ops[pass.op]
Authorized == pass.key = accepted

\* The pass after a request that left the client object in p.
Sending(p, stage) == pass' = [p EXCEPT !.stage = stage] /\ UNCHANGED last

Finish(p, result) ==
    /\ pass' = Idle
    /\ last' = [result |-> result, spec |-> p.spec]

Succeed(p) ==
    IF p.op = Len(p.ops) THEN Finish(p, "ok")
    ELSE /\ pass' = [p EXCEPT !.op = @ + 1, !.stage = Begin(p.session), !.attempt = 0]
         /\ UNCHANGED last

\* The version is only for the status: its error does not end the pass.
Fail(p) == IF p.op = 2 THEN Succeed(p) ELSE Finish(p, "failed")

\* The client carries a call out.
Refused     == DOMAIN Call \cap Specs[pass.spec].refused # {}
Applied     == [k \in DOMAIN conf \cup DOMAIN Call |-> IF k \in DOMAIN Call THEN Call[k] ELSE conf[k]]
Serve(serves) == conf' = IF serves /\ ~Refused THEN Applied ELSE conf

At(stage) == pass.on /\ pass.stage = stage
Answered(out) == out = "ok" /\ UNCHANGED events
Unanswered(out) == out # "ok" /\ Event
Kept == UNCHANGED <<app, obj, secret, accepted, storm>>

(***************************************************************************)
(* Transmission.                                                           *)
(***************************************************************************)
getSessionID(out) ==
    /\ At("session")
    /\ \/ /\ Answered(out)
          /\ IF Authorized
             THEN srv' = [srv EXCEPT !.valid = TRUE] /\ Sending([pass EXCEPT !.session = TRUE], "send")
             ELSE UNCHANGED srv /\ Fail(pass)
       \/ Unanswered(out) /\ Fail(Hurt) /\ UNCHANGED srv
    /\ UNCHANGED conf /\ Kept

\* A slip: an attempt with an expired session is not counted.
AgainUncounted(p) == Sending(p, "send")

\* A slip: one attempt too many.
AgainOnceMore(p) ==
    IF p.attempt <= MaxRetries THEN Sending([p EXCEPT !.attempt = @ + 1], "send") ELSE Fail(p)

\* The next attempt of the loop, if there is one.
Again(p) ==
    IF p.attempt < MaxRetries THEN Sending([p EXCEPT !.attempt = @ + 1], "send") ELSE Fail(p)

TransmissionRequest(out) ==
    /\ app = "Transmission" /\ At("send")
    /\ \/ /\ Answered(out)
          /\ CASE ~Authorized -> Fail(pass) /\ UNCHANGED <<srv, conf>>
               [] Authorized /\ ~srv.valid ->
                      Again(pass) /\ srv' = [srv EXCEPT !.valid = TRUE] /\ UNCHANGED conf
               [] OTHER -> /\ IF Refused THEN Fail(pass) ELSE Succeed(pass)
                           /\ Serve(TRUE) /\ UNCHANGED srv
       \/ /\ Unanswered(out) /\ Again(Hurt)
          /\ Serve(out = "late" /\ Authorized /\ srv.valid) /\ UNCHANGED srv
    /\ Kept

(***************************************************************************)
(* qBittorrent.                                                            *)
(***************************************************************************)
LogIn(out, next) ==
    /\ \/ /\ Answered(out)
          /\ IF Authorized
             THEN srv' = [srv EXCEPT !.valid = TRUE] /\ Sending([pass EXCEPT !.session = TRUE], next)
             ELSE UNCHANGED srv /\ Fail(pass)
       \/ Unanswered(out) /\ Fail(Hurt) /\ UNCHANGED srv
    /\ UNCHANGED conf /\ Kept

QBittorrentLogin(out) ==
    /\ app = "QBittorrent"
    /\ \/ At("login") /\ LogIn(out, "send")
       \/ At("relogin") /\ LogIn(out, "resend")

\* A slip: status 403 is an error like any other.
ForbiddenFails == Fail(pass)

\* The first 403 of a call leads to another login, the second is an error.
Forbidden ==
    IF At("send") THEN Sending([pass EXCEPT !.session = FALSE], "relogin") ELSE Fail(pass)

QBittorrentRequest(out) ==
    /\ app = "QBittorrent" /\ (At("send") \/ At("resend"))
    /\ \/ /\ Answered(out)
          /\ IF srv.valid THEN IF Refused THEN Fail(pass) ELSE Succeed(pass) ELSE Forbidden
          /\ Serve(srv.valid)
       \/ Unanswered(out) /\ Fail(Hurt) /\ Serve(out = "late" /\ srv.valid)
    /\ UNCHANGED srv /\ Kept

(***************************************************************************)
(* Deluge: auth.check_session, auth.login, web.get_hosts, web.connect.     *)
(***************************************************************************)
CheckSession(out) ==
    /\ app = "Deluge" /\ At("check")
    /\ \/ /\ Answered(out)
          /\ IF srv.valid THEN Sending(pass, "send") ELSE Sending([pass EXCEPT !.session = FALSE], "login")
       \/ Unanswered(out) /\ Sending([Hurt EXCEPT !.session = FALSE], "login")
    /\ UNCHANGED <<srv, conf>> /\ Kept

DelugeLogin(out) ==
    /\ app = "Deluge" /\ At("login")
    /\ \/ /\ Answered(out)
          /\ IF Authorized THEN srv' = [srv EXCEPT !.valid = TRUE] /\ Sending(pass, "hosts")
             ELSE UNCHANGED srv /\ Fail(pass)
       \/ Unanswered(out) /\ Fail(Hurt) /\ UNCHANGED srv
    /\ UNCHANGED conf /\ Kept

\* Login is over; in TestConnection the version is asked for, which checks the
\* session again.
LoggedIn(p) ==
    Sending([p EXCEPT !.session = TRUE, !.recheck = FALSE], IF p.recheck THEN "check" ELSE "send")

\* A slip: the Web UI is not connected to a daemon.
GetHostsOnly(out) ==
    /\ app = "Deluge" /\ At("hosts")
    /\ \/ Answered(out) /\ (IF srv.valid THEN LoggedIn(pass) ELSE Fail(pass))
       \/ Unanswered(out) /\ Fail(Hurt)
    /\ UNCHANGED <<srv, conf>> /\ Kept

GetHosts(out) ==
    /\ app = "Deluge" /\ At("hosts")
    /\ \/ /\ Answered(out)
          /\ CASE ~srv.valid              -> Fail(pass)
               [] srv.valid /\ srv.hosts  -> Sending(pass, "connect")
               [] OTHER                   -> LoggedIn(pass)
       \/ Unanswered(out) /\ Fail(Hurt)
    /\ UNCHANGED <<srv, conf>> /\ Kept

\* An error of web.connect is dropped.
Connect(out) ==
    /\ app = "Deluge" /\ At("connect")
    /\ \/ Answered(out) /\ LoggedIn(pass)
       \/ Unanswered(out) /\ LoggedIn(Hurt)
    /\ srv' = [srv EXCEPT !.daemon = @ \/ (out # "lost" /\ srv.valid)]
    /\ UNCHANGED conf /\ Kept

\* The Web UI passes calls on to its daemon.
DelugeRequest(out) ==
    /\ app = "Deluge" /\ At("send")
    /\ LET serves == srv.valid /\ srv.daemon
       IN  \/ /\ Answered(out) /\ Serve(serves)
              /\ IF serves /\ ~Refused THEN Succeed(pass) ELSE Fail(pass)
           \/ Unanswered(out) /\ Fail(Hurt) /\ Serve(out = "late" /\ serves)
    /\ UNCHANGED srv /\ Kept

(***************************************************************************)
(* rTorrent, SABnzbd, NZBGet.                                              *)
(***************************************************************************)

\* SABnzbd answers a wrong key or value with status 200 and an error in the body,
\* and the body of these requests, and of the version, is not looked at.
Unchecked           == {"speedlimit", "paused"}
Overlooked(a, call) == a = "SABnzbd" /\ DOMAIN call \subseteq Unchecked

\* The answer decides, unless it is overlooked.
PlainRequest(out, overlooked) ==
    /\ At("send")
    /\ \/ /\ Answered(out)
          /\ IF (Authorized /\ ~Refused) \/ overlooked THEN Succeed(pass) ELSE Fail(pass)
       \/ Unanswered(out) /\ Fail(Hurt)
    /\ Serve(out # "lost" /\ Authorized)
    /\ UNCHANGED srv /\ Kept

\* A slip: what NZBGet answers is not looked at.
NZBGetUnread(out) == app = "NZBGet" /\ PlainRequest(out, TRUE)

RTorrentRequest(out) == app = "RTorrent" /\ PlainRequest(out, FALSE)
NZBGetRequest(out) == app = "NZBGet" /\ PlainRequest(out, FALSE)
SABnzbdRequest(out) == app = "SABnzbd" /\ PlainRequest(out, Overlooked(app, Call))

(***************************************************************************)
(* The specification.                                                      *)
(***************************************************************************)
Request ==
    \E out \in Outcomes :
        \/ getSessionID(out) \/ TransmissionRequest(out)
        \/ QBittorrentLogin(out) \/ QBittorrentRequest(out)
        \/ CheckSession(out) \/ DelugeLogin(out) \/ GetHosts(out) \/ Connect(out) \/ DelugeRequest(out)
        \/ RTorrentRequest(out) \/ SABnzbdRequest(out) \/ NZBGetRequest(out)

PassStep == StartPass \/ Request

Environment ==
    \/ \E n \in Named(app) : UserEdits(n)
    \/ PasswordChanges
    \/ \E k \in DOMAIN conf \cap Touchable : UserSets(k)
    \/ Expire \/ StormEnds \/ Restart

Next == PassStep \/ Environment

\* Every pass is followed by another one (RequeueAfter).
Spec == Init /\ [][Next]_vars /\ WF_vars(PassStep)

(***************************************************************************)
(* Properties.                                                             *)
(***************************************************************************)

\* The stages of a client's protocol.
Stages ==
    CASE app = "Transmission" -> {"session", "send"}
      [] app = "QBittorrent"  -> {"login", "send", "relogin", "resend"}
      [] app = "Deluge"       -> {"check", "login", "hosts", "connect", "send"}
      [] OTHER                -> {"send"}

\* Type correctness: the pass is at a call of its specification and in a stage
\* of its client's protocol, and the loop of Transmission has not run further
\* than MaxRetries.
TypeOK ==
    /\ obj \in Named(app) /\ last \in [result : {"none", "ok", "failed"}, spec : Named(app)]
    /\ secret \in Passwords /\ accepted \in Passwords
    /\ srv \in [valid : BOOLEAN, daemon : BOOLEAN, hosts : BOOLEAN] /\ (srv.daemon => app = "Deluge")
    /\ DOMAIN pass = DOMAIN Idle
    /\ pass.on =>
           /\ pass.spec \in Named(app) /\ pass.key \in Passwords
           /\ pass.op \in DOMAIN pass.ops /\ pass.stage \in Stages
    /\ pass.attempt \in 0 .. MaxRetries /\ pass.troubles \in 0 .. (MaxRetries + 1)
    /\ \A f \in {"on", "session", "recheck", "calm"} : pass[f] \in BOOLEAN
    /\ events \in Nat

\* The client holds what it is to hold for a specification, as far as its answers
\* tell.
Holds(n) ==
    \A k \in DOMAIN Expected[n] \ (IF app = "SABnzbd" THEN Unchecked ELSE {}) :
        k \in DOMAIN conf /\ conf[k] = Expected[n][k]

\* What the client is to hold is what the calls leave: for each key the value of
\* the last call that has it.
ExpectedIsSent ==
    \A n \in DOMAIN Specs : \A ops \in {Ops(n)} : \A k \in DOMAIN Expected[n] :
        \E i \in DOMAIN ops :
            /\ k \in DOMAIN ops[i] /\ Expected[n][k] = ops[i][k]
            /\ \A j \in DOMAIN ops : k \in DOMAIN ops[j] => j <= i

\* A step, not a restart, ends the pass with this result.
Ends(result) == Request /\ ~pass'.on /\ last'.result = result

\* A pass that ends without an error has brought every declared value to the
\* client, under the client's name for it and in the client's unit, whatever
\* expired, got lost or was repeated in it, unless somebody changed the settings
\* or the password meanwhile.
SuccessMeansApplied ==
    [][Ends("ok") /\ pass.calm => Holds(last.spec)']_vars

\* A value is refused in an answer that the code looks at: by a specification,
\* and by the call that is made.
HasRefused(n) == Specs[n].refused \ (IF app = "SABnzbd" THEN Unchecked ELSE {}) # {}
CallRefused   == Refused /\ ~Overlooked(app, Call)

Lost == events' # events

\* What a pass may fail from: a wrong password, a value of this very call that the
\* client refuses, a lost request that the code does not repeat, more expired
\* sessions than it puts up with, and a Web UI of Deluge without a daemon.
Excused ==
    \/ ~Authorized \/ ~pass.calm \/ CallRefused
    \/ CASE app = "Transmission" ->
               (Lost /\ At("session")) \/ pass.troubles + (IF Lost THEN 1 ELSE 0) > MaxRetries
         [] app = "QBittorrent"  -> Lost \/ pass.troubles >= 2
         [] app = "Deluge"       -> Lost \/ pass.troubles >= 1 \/ ~srv.hosts
         [] OTHER                -> Lost

\* A pass does not fail without a reason: a session that expires once is renewed
\* in the middle of a call, MaxRetries troubles in one call of Transmission are
\* survived, and the version request never matters.
FailureIsExcused == [][Ends("failed") => Excused]_vars

\* Every pass ends, even if the client lets every session expire at once.
PassEnds == pass.on ~> ~pass.on

\* Once sessions stop expiring, the password is right, no value is refused and
\* Deluge's Web UI knows a daemon, the client comes to hold the specification and
\* the passes succeed, from then on, whatever was lost or changed before.
SpecReached ==
    <>[](~storm /\ secret = accepted /\ ~HasRefused(obj) /\ srv.hosts) =>
        <>[](last = [result |-> "ok", spec |-> obj] /\ Holds(obj))

\* A password that stays wrong and a value that stays refused show in the result
\* of the passes, with SABnzbd only if the answer of some call is looked at.
FailureShows ==
    <>[](\/ HasRefused(obj)
         \/ secret # accepted /\ (app = "SABnzbd" => DOMAIN Expected[obj] \ Unchecked # {})) =>
        <>[](last = [result |-> "failed", spec |-> obj])

\* Once the surroundings keep still, the passes come to the specification or
\* keep saying that they do not.
Settles == SpecReached /\ FailureShows

=============================================================================
