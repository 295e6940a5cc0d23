------------------------------ MODULE TradeClient ------------------------------
(***************************************************************************)
(* Client.java with the activities that listen to it: key exchange, login   *)
(* by password and by session, requests, kick and logout, over connections  *)
(* that break and are made again.  The connection manager appears as its    *)
(* application sees it (ListenerPromise): a connection is announced, then   *)
(* its packets in order, then its loss.  Everything of Client runs on the   *)
(* main thread, one posted callback at a time.                              *)
(***************************************************************************)
EXTENDS Naturals, Sequences

CONSTANTS
  Gestures,   \* what the user does: subset of GestureKinds
  MaxClicks,  \* bound on the number of those gestures
  MaxFaults,  \* bound on failed connects, breaks, rejected logins and kicks
  Rejects,    \* TRUE: the server may reject a login
  Kicks,      \* TRUE: the server may kick a session out
  LateReads   \* TRUE: a packet may be posted after the loss of its connection

GestureKinds == {"enter", "login", "code", "logout", "biz", "back"}

ASSUME TradeClientAssumption ==
  /\ Gestures \subseteq GestureKinds
  /\ MaxClicks \in Nat /\ MaxFaults \in Nat
  /\ Rejects \in BOOLEAN /\ Kicks \in BOOLEAN /\ LateReads \in BOOLEAN

VARIABLES
  client,   \* Client: state, sessionId, connection of aesKey, loginCallback, mRequestTable
  ui,       \* activity in front, the menu behind it, activities finishing, pending jumps to
            \* the login screen, verification code asked for and shown
  link,     \* the connection: phase, number, exception of disconnect(e), reconnect armed
  up, down, \* packets on their way to the server, to the reader
  held,     \* packet a reader has read and not yet posted
  inbox,    \* callbacks posted to the main looper
  server,   \* the session the server knows; of this connection: key exchanged, logged in
  clicks, faults

vars == <<client, ui, link, up, down, held, inbox, server, clicks, faults>>
-----------------------------------------------------------------------------
NoSession == 0
Pkt(kind, val) == [kind |-> kind, val |-> val]
NoPkt == Pkt("NONE", 0)
Event(type, n, pkt) == [type |-> type, n |-> n, pkt |-> pkt]

Activities == {"Main", "Menu"}

Init ==
  /\ client = [state |-> "DISCONNECT", session |-> NoSession, key |-> 0,
               callback |-> FALSE, table |-> {}, sn |-> 0]
  /\ ui = [front |-> "Splash", behind |-> FALSE, gone |-> {}, jumps |-> 0,
           asked |-> 0, code |-> FALSE]
  /\ link = [phase |-> "down", n |-> 0, exc |-> "none", auto |-> FALSE]
  /\ up = <<>> /\ down = <<>> /\ held = Event("NONE", 0, NoPkt) /\ inbox = <<>>
  /\ server = [session |-> NoSession, issued |-> 0, keyed |-> FALSE, accepted |-> FALSE]
  /\ clicks = 0 /\ faults = 0
-----------------------------------------------------------------------------
(* A handler of the main thread calls several methods in a row; each is a   *)
(* function on the state s the handler can change.                          *)

Now == [client |-> client, ui |-> ui, link |-> link, up |-> up]
Become(s) ==
  client' = s.client /\ ui' = s.ui /\ link' = s.link /\ up' = s.up

\* manager.send(): queued on the writer of the current connection, or lost
Send(s, pkt) ==
  IF s.link.phase = "up" /\ s.link.exc # "IO" THEN [s EXCEPT !.up = Append(@, pkt)] ELSE s

\* Mutant of Request: registered before the number is drawn.
RequestBeforeNumber(s, kind) ==
  LET sn == s.client.sn IN
  Send([s EXCEPT !.client.sn = sn + 1, !.client.table = @ \cup {sn}], Pkt(kind, sn + 1))

\* send(sendable, callback)
Request(s, kind) ==
  LET sn == s.client.sn + 1 IN
  Send([s EXCEPT !.client.sn = sn, !.client.table = @ \cup {sn}], Pkt(kind, sn))

\* manager.disconnect(e): ignored while another one is at work
Disconnect(s, e) == IF s.link.exc = "none" THEN [s EXCEPT !.link.exc = e] ELSE s

\* throwException(e)
ThrowException(s, e) == Disconnect([s EXCEPT !.client.session = NoSession], e)

Logout(s) == ThrowException(s, "Logout")

\* connect(): a new reconnect manager; refused while connected or connecting
Connect(s) ==
  IF s.link.phase = "down" THEN [s EXCEPT !.link.phase = "connecting", !.link.auto = FALSE]
  ELSE s

SetState(s, state) == [s EXCEPT !.client.state = state]

Shown(s, a) == s.ui.front = a \/ (a = "Menu" /\ s.ui.behind)
Registered(s, a) == Shown(s, a) \/ a \in s.ui.gone

\* finish(): the activity stays registered until it is destroyed.
Finish(s, a) ==
  LET next == IF s.ui.front # a THEN s.ui.front ELSE IF s.ui.behind THEN "Menu" ELSE "Splash"
  IN IF ~Shown(s, a) THEN s
     ELSE [s EXCEPT !.ui.front = next, !.ui.behind = FALSE, !.ui.gone = @ \cup {a}]

JumpToLogin(s) == [s EXCEPT !.ui.jumps = @ + 1]
-----------------------------------------------------------------------------
(* MySocketActionAdapter, on the main thread.                               *)

OnSuccess(s) ==
  Send([SetState(s, "CONNECTED") EXCEPT !.link.auto = FALSE], Pkt("EXCHANGE", 0))

\* Mutant of OnExchange: a login screen that has a code keeps it.
OnExchangeOnce(s) ==
  LET u == Request(s, "VERIFY")
  IN IF s.ui.front = "Main" /\ s.ui.asked = 0
     THEN [u EXCEPT !.ui.asked = u.client.sn, !.ui.code = FALSE] ELSE s

\* Login accepted: the login screen that asked, if it is still there, gives way to the menu.
OnLoginAccepted(s) ==
  LET t == IF s.client.callback /\ s.ui.front = "Main"
           THEN [s EXCEPT !.ui.front = "Menu", !.ui.behind = FALSE, !.ui.gone = @ \cup {"Main"},
                          !.client.callback = FALSE]
           ELSE s
  IN SetState(t, "LOGIN")

\* getVerificationCode() of the login screens, a finishing one included
OnExchange(s) ==
  LET t == IF "Main" \in s.ui.gone THEN Request(s, "VERIFY") ELSE s
      u == Request(t, "VERIFY")
  IN IF s.ui.front = "Main" THEN [u EXCEPT !.ui.asked = u.client.sn, !.ui.code = FALSE]
     ELSE t

\* Mutant of OnKey: the session is not presented again.
OnKeyWithoutSession(s, n) ==
  LET u == OnExchange(SetState(s, "EXCHANGE"))
  IN [u EXCEPT !.client.key = n]

\* Mutant of OnKey: only the first key is kept.
OnKeyKeepsFirst(s, n) ==
  LET u == OnExchange(SetState(s, "EXCHANGE"))
      v == IF u.client.key = 0 THEN [u EXCEPT !.client.key = n] ELSE u
  IN IF v.client.session # NoSession THEN Send(v, Pkt("SESSION", v.client.session)) ELSE v

\* Key exchange: the login screens ask for a verification code; a known session logs in.
OnKey(s, n) ==
  LET u == OnExchange(SetState(s, "EXCHANGE"))
      v == [u EXCEPT !.client.key = n]
  IN IF v.client.session # NoSession THEN Send(v, Pkt("SESSION", v.client.session)) ELSE v

\* Kicked out: the menu logs out and jumps, a login screen closes.
OnKick(s) ==
  LET t == SetState(s, "KICK")
      u == IF Registered(t, "Menu") THEN JumpToLogin(Finish(Logout(t), "Menu")) ELSE t
  IN Finish(u, "Main")

\* Mutant of OnAnswer: an error leaves its request in the table.
OnAnswerButNotError(s, pkt) ==
  IF pkt.val \notin s.client.table \/ pkt.kind = "ERROR" THEN s
  ELSE [s EXCEPT !.client.table = @ \ {pkt.val},
                 !.ui.code = @ \/ (pkt.kind = "CODE" /\ pkt.val = s.ui.asked)]

OnAnswer(s, pkt) ==
  IF pkt.val \notin s.client.table THEN s
  ELSE [s EXCEPT !.client.table = @ \ {pkt.val},
                 !.ui.code = @ \/ (pkt.kind = "CODE" /\ pkt.val = s.ui.asked)]

OnRead(s, n, pkt) ==
  CASE pkt.kind = "KEY"      -> OnKey(s, n)
    [] pkt.kind = "ACCEPTED" -> OnLoginAccepted(s)
    [] pkt.kind = "REJECTED" -> ThrowException(s, "LoginError")
    [] pkt.kind = "UPDATE"   -> [s EXCEPT !.client.session = pkt.val]
    [] pkt.kind = "KICK"     -> OnKick(s)
    [] OTHER                 -> OnAnswer(s, pkt)

\* The menu's and the login screen's onDisConnect(), finishing ones included; then the
\* reconnect manager arms its loop, unless connect() has just replaced it.
OnLoss(s, e) ==
  LET t == SetState(s, "DISCONNECT")
      u == IF ~Registered(t, "Menu") THEN t
           ELSE IF e = "Logout" THEN JumpToLogin(Finish(t, "Menu"))
           ELSE IF e = "LoginError" THEN JumpToLogin(Finish(Logout(t), "Menu"))
           ELSE t
      v == [u EXCEPT !.link.auto = TRUE]
  IN IF Registered(v, "Main") /\ e \in {"Logout", "LoginError"} THEN Connect(v) ELSE v

Handle(s, ev) ==
  CASE ev.type = "SUCCESS" -> OnSuccess(s)
    [] ev.type = "READ"    -> OnRead(s, ev.n, ev.pkt)
    [] ev.type = "DISC"    -> OnLoss(s, ev.pkt.kind)

Dispatch ==
  /\ inbox # <<>>
  /\ Become(Handle(Now, Head(inbox)))
  /\ inbox' = Tail(inbox)
  /\ UNCHANGED <<down, held, server, clicks, faults>>
-----------------------------------------------------------------------------
(* The activities.                                                          *)

\* MainActivity.onCreate(): FLAG_ACTIVITY_CLEAR_TOP destroys the one that is there.
CreateLogin ==
  /\ ui.jumps > 0
  /\ LET screens == [ui EXCEPT !.front = "Main", !.behind = Shown(Now, "Menu"),
                               !.jumps = @ - 1, !.asked = 0, !.code = FALSE,
                               !.gone = IF ui.front = "Main" THEN @ \cup {"Main"} ELSE @]
     IN Become(Connect([Now EXCEPT !.ui = screens, !.client.callback = FALSE]))
  /\ UNCHANGED <<down, held, inbox, server, clicks, faults>>

\* onDestroy() of a finished activity: its listener is removed.
Destroy ==
  /\ \E a \in ui.gone : ui' = [ui EXCEPT !.gone = @ \ {a}]
  /\ UNCHANGED <<client, link, up, down, held, inbox, server, clicks, faults>>

\* The user, not while a jump to the login screen is on its way.
Gesture(kind, activity, s) ==
  /\ kind \in Gestures /\ clicks < MaxClicks
  /\ ui.front = activity /\ ui.jumps = 0
  /\ clicks' = clicks + 1
  /\ Become(s)
  /\ UNCHANGED <<down, held, inbox, server, faults>>

\* The button of the splash screen
Enter ==
  Gesture("enter", "Splash",
    IF client.state # "LOGIN" /\ client.session = NoSession THEN JumpToLogin(Now)
    ELSE [Now EXCEPT !.ui.front = "Menu"])

\* setLoginPasswordPackage(); before the first connect() there is no manager to send with,
\* but the login screen has called connect()
Login ==
  Gesture("login", "Main",
    Send([Now EXCEPT !.client.callback = TRUE], Pkt("PASSWORD", 0)))

\* resetVerifyCode()
ResetCode ==
  Gesture("code", "Main", ThrowException([Now EXCEPT !.ui.code = FALSE], "Logout"))

MenuLogout == Gesture("logout", "Menu", Logout(Now))

\* Mutant of SendBiz: the state is not tested.
SendBizUntested == Gesture("biz", "Menu", Request(Now, "BIZ"))

\* sendBiz(): answered with an error at once unless logged in
SendBiz ==
  Gesture("biz", "Menu", IF client.state = "LOGIN" THEN Request(Now, "BIZ") ELSE Now)

Back == \E a \in Activities : Gesture("back", a, Finish(Now, a))

User == Enter \/ Login \/ ResetCode \/ MenuLogout \/ SendBiz \/ Back
-----------------------------------------------------------------------------
(* The connection.                                                          *)

Fault == faults < MaxFaults /\ faults' = faults + 1

\* Timing assumption: an attempt takes longer than a posted callback or a started activity
\* waits for the main thread, and than the reader of the last connection, a thread of its own,
\* takes to post what it has read.
Prompt == inbox = <<>> /\ ui.jumps = 0 /\ held.type = "NONE"

\* A connect attempt succeeds, or fails and arms the reconnect loop.  A failed attempt
\* tears its socket down itself, unless disconnect(e) is already at work.
LinkUp ==
  /\ link.phase = "connecting" /\ Prompt
  /\ link' = [link EXCEPT !.phase = "up", !.n = @ + 1]
  /\ inbox' = Append(inbox, Event("SUCCESS", link.n + 1, NoPkt))
  /\ server' = [server EXCEPT !.keyed = FALSE, !.accepted = FALSE]
  /\ UNCHANGED <<client, ui, up, down, held, clicks, faults>>

LinkFails ==
  /\ link.phase = "connecting" /\ Fault
  /\ link' = [link EXCEPT !.phase = IF link.exc = "none" THEN "down" ELSE "failed",
                         !.auto = TRUE]
  /\ UNCHANGED <<client, ui, up, down, held, inbox, server, clicks>>

\* What was on its way to the server is lost, what was on its way back may be; nothing
\* more comes.
Break ==
  /\ link.phase = "up" /\ link.exc = "none" /\ Fault
  /\ link' = [link EXCEPT !.exc = "IO"]
  /\ up' = <<>> /\ down' \in {<<>>, down}
  /\ UNCHANGED <<client, ui, held, inbox, server, clicks>>

\* The disconnect thread: it waits for an attempt to end, closes the socket if there is
\* one, and reports it lost.
Close ==
  /\ link.exc # "none" /\ link.phase # "connecting"
  /\ inbox' = IF link.phase = "down" THEN inbox
              ELSE Append(inbox, Event("DISC", link.n, Pkt(link.exc, 0)))
  /\ link' = [link EXCEPT !.phase = "down", !.exc = "none"]
  /\ up' = <<>> /\ down' = <<>>
  /\ UNCHANGED <<client, ui, held, server, clicks, faults>>

AutoReconnect ==
  /\ link.phase = "down" /\ link.auto
  /\ link' = [link EXCEPT !.phase = "connecting"]
  /\ UNCHANGED <<client, ui, up, down, held, inbox, server, clicks, faults>>

\* The reader takes a packet off the stream and posts it; in between the disconnect thread
\* may close the stream and post the loss.
Read ==
  /\ link.phase = "up" /\ down # <<>> /\ held.type = "NONE"
  /\ LET ev == Event("READ", link.n, Head(down)) IN
     IF LateReads THEN held' = ev /\ UNCHANGED inbox
     ELSE inbox' = Append(inbox, ev) /\ UNCHANGED held
  /\ down' = Tail(down)
  /\ UNCHANGED <<client, ui, link, up, server, clicks, faults>>

PostRead ==
  /\ held.type # "NONE"
  /\ inbox' = Append(inbox, held)
  /\ held' = Event("NONE", 0, NoPkt)
  /\ UNCHANGED <<client, ui, link, up, down, server, clicks, faults>>

Connection == LinkUp \/ LinkFails \/ Break \/ Close \/ AutoReconnect \/ Read \/ PostRead
-----------------------------------------------------------------------------
(* The server, as far as Client depends on it.  Before the key exchange it  *)
(* answers nothing.                                                         *)

Take(kind) == up # <<>> /\ Head(up).kind = kind /\ up' = Tail(up)
Serve(kind) == server.keyed /\ Take(kind)
Reply(pkts) == down' = down \o pkts
ServerOthers == UNCHANGED <<client, ui, link, held, inbox, clicks>>

ServerKey ==
  /\ Take("EXCHANGE") /\ Reply(<<Pkt("KEY", 0)>>)
  /\ server' = [server EXCEPT !.keyed = TRUE]
  /\ UNCHANGED faults /\ ServerOthers

ServerIgnores ==
  /\ ~server.keyed /\ \E kind \in {"PASSWORD", "VERIFY", "BIZ"} : Take(kind)
  /\ UNCHANGED <<down, server, faults>> /\ ServerOthers

Accept(session) ==
  /\ server' = [server EXCEPT !.session = session, !.accepted = TRUE,
                             !.issued = IF session > @ THEN session ELSE @]
  /\ Reply(<<Pkt("ACCEPTED", 0), Pkt("UPDATE", session)>>)
  /\ UNCHANGED faults

Reject == Rejects /\ Fault /\ Reply(<<Pkt("REJECTED", 0)>>) /\ UNCHANGED server

ServerPassword ==
  /\ Serve("PASSWORD")
  /\ Accept(server.issued + 1) \/ Reject
  /\ ServerOthers

\* A session the server no longer knows is rejected for certain.
ServerSession ==
  /\ Serve("SESSION")
  /\ \/ Head(up).val = server.session /\ Accept(server.session)
     \/ Reject
     \/ /\ Head(up).val # server.session
        /\ Reply(<<Pkt("REJECTED", 0)>>) /\ UNCHANGED <<server, faults>>
  /\ ServerOthers

ServerVerify ==
  /\ Serve("VERIFY") /\ Reply(<<Pkt("CODE", Head(up).val)>>)
  /\ UNCHANGED <<server, faults>> /\ ServerOthers

ServerBiz ==
  /\ Serve("BIZ") /\ \E kind \in {"RESULT", "ERROR"} : Reply(<<Pkt(kind, Head(up).val)>>)
  /\ UNCHANGED <<server, faults>> /\ ServerOthers

Serves == ServerKey \/ ServerIgnores \/ ServerPassword \/ ServerSession \/ ServerVerify \/ ServerBiz

\* The same account logs in elsewhere.
ServerKicks ==
  /\ Kicks /\ link.phase = "up" /\ link.exc # "IO" /\ Fault
  /\ server.accepted /\ server.session # NoSession
  /\ server' = [server EXCEPT !.session = NoSession]
  /\ Reply(<<Pkt("KICK", 0)>>)
  /\ UNCHANGED up /\ ServerOthers

Next ==
  \/ Dispatch \/ CreateLogin \/ Destroy \/ User \/ Connection \/ Serves \/ ServerKicks

Fairness ==
  /\ WF_vars(Dispatch) /\ WF_vars(CreateLogin) /\ WF_vars(Destroy)
  /\ WF_vars(LinkUp) /\ WF_vars(Close) /\ WF_vars(AutoReconnect)
  /\ WF_vars(Read) /\ WF_vars(PostRead) /\ WF_vars(Serves)

Spec == Init /\ [][Next]_vars /\ Fairness
-----------------------------------------------------------------------------
States == {"CONNECTED", "EXCHANGE", "LOGIN", "KICK", "DISCONNECT"}
ToServer == {"EXCHANGE", "PASSWORD", "SESSION", "VERIFY", "BIZ"}
ToClient == {"KEY", "ACCEPTED", "REJECTED", "UPDATE", "KICK", "CODE", "RESULT", "ERROR"}
Excs == {"IO", "Logout", "LoginError"}
Packets(kinds) == [kind : kinds, val : Nat]
Posted == [type : {"SUCCESS", "READ", "DISC"}, n : Nat,
           pkt : Packets(ToClient \cup Excs \cup {"NONE"})]

TypeOK ==
  /\ client \in [state : States, session : Nat, key : Nat, callback : BOOLEAN,
                 table : SUBSET (1..client.sn), sn : Nat]
  /\ ui \in [front : Activities \cup {"Splash"}, behind : BOOLEAN,
             gone : SUBSET Activities, jumps : Nat, asked : Nat, code : BOOLEAN]
  /\ link \in [phase : {"down", "connecting", "failed", "up"}, n : Nat,
               exc : Excs \cup {"none"}, auto : BOOLEAN]
  /\ up \in Seq(Packets(ToServer)) /\ down \in Seq(Packets(ToClient))
  /\ held \in Posted \cup {Event("NONE", 0, NoPkt)}
  /\ inbox \in Seq(Posted)
  /\ server \in [session : Nat, issued : Nat, keyed : BOOLEAN, accepted : BOOLEAN]
  /\ clicks \in 0..MaxClicks /\ faults \in 0..MaxFaults

LossPosted == \E i \in DOMAIN inbox : inbox[i].type = "DISC"

\* Client.state says LOGIN only while the connection is one whose login the server
\* accepted, or its loss is about to be dispatched.
LoginIsAccepted ==
  client.state = "LOGIN" => (link.phase = "up" /\ server.accepted) \/ LossPosted

\* A business request travels only on a connection whose login was accepted, although
\* the test of Client.state and the loss of a connection are not synchronized.
BizOnlyWhenAccepted ==
  \A i \in DOMAIN up : up[i].kind = "BIZ" => server.accepted

\* The client acts as logged in only on a connection whose login was accepted.
LoginIsTruthful == LoginIsAccepted /\ BizOnlyWhenAccepted

\* An answer is decoded with the key of the connection it came from.
KeyIsOfConnection ==
  inbox # <<>> /\ Head(inbox).type = "READ" /\ Head(inbox).pkt.kind # "KEY"
    => client.key = Head(inbox).n

\* A login screen gets its verification code, or is left.
LoginScreenIsServed == ui.front = "Main" /\ ~ui.code ~> ui.code \/ ui.front # "Main"

\* A lost session is resumed, unless it is given up.
SessionIsResumed ==
  client.session # NoSession ~> client.state = "LOGIN" \/ client.session = NoSession

\* A request queued after the key exchange is answered, or the loss of its connection seen.
Queued(i) == \E k \in DOMAIN up : up[k].kind \in {"VERIFY", "BIZ"} /\ up[k].val = i
RequestIsAnswered ==
  \A i \in 1..MaxClicks : server.keyed /\ Queued(i)
     ~> i \notin client.table \/ client.state = "DISCONNECT"
=============================================================================
