-------------------------- MODULE TradeClient_proofs --------------------------
(***************************************************************************)
(* Types of the trade client, for any number of gestures, faults and       *)
(* connections.  First come the calls of the main thread, each as a step   *)
(* from a state to a state, then the connection and the server.            *)
(***************************************************************************)
EXTENDS TradeClient, SequenceTheorems, TLAPS

ClientStates == [state : States, session : Nat, key : Nat, callback : BOOLEAN,
                 table : SUBSET Nat, sn : Nat]
UiStates == [front : Activities \cup {"Splash"}, behind : BOOLEAN,
             gone : SUBSET Activities, jumps : Nat, asked : Nat, code : BOOLEAN]
LinkStates == [phase : {"down", "connecting", "failed", "up"}, n : Nat,
               exc : Excs \cup {"none"}, auto : BOOLEAN]

\* The states a handler starts from and leaves.
StateOK(s) ==
  /\ s \in [client : ClientStates, ui : UiStates, link : LinkStates,
            up : Seq(Packets(ToServer))]
  /\ \A i \in s.client.table : 1 <= i /\ i <= s.client.sn

\* send() queues a packet, or loses it.
LEMMA SendTyped ==
  ASSUME NEW s, StateOK(s), NEW kind \in ToServer, NEW val \in Nat
  PROVE  StateOK(Send(s, Pkt(kind, val)))
  <1> DEFINE q == Append(s.up, Pkt(kind, val))
  <1>1. q \in Seq(Packets(ToServer))
    BY DEF StateOK, Packets, Pkt
  <1>2. Send(s, Pkt(kind, val)) = s \/ Send(s, Pkt(kind, val)) = [s EXCEPT !.up = q]
    BY DEF Send
  <1> HIDE DEF q
  <1> QED
    BY <1>1, <1>2 DEF StateOK

\* A numbered request is a packet of its kind and an entry of the table.
LEMMA RequestTyped ==
  ASSUME NEW s, StateOK(s), NEW kind \in ToServer
  PROVE  StateOK(Request(s, kind))
  <1> DEFINE sn == s.client.sn + 1
             c == [s.client EXCEPT !.sn = sn, !.table = @ \cup {sn}]
             t == [s EXCEPT !.client = c]
  <1>1. sn \in Nat /\ c \in ClientStates /\ \A i \in c.table : 1 <= i /\ i <= c.sn
    <2>1. s.client \in ClientStates /\ \A i \in s.client.table : 1 <= i /\ i <= s.client.sn
      BY DEF StateOK
    <2>2. /\ sn \in Nat /\ s.client.table \cup {sn} \in SUBSET Nat
      BY <2>1 DEF ClientStates
    <2>3. \A i \in s.client.table : i \in Nat
      BY <2>1 DEF ClientStates
    <2>4. c \in ClientStates /\ c.sn = sn /\ c.table = s.client.table \cup {sn}
      <3> HIDE DEF sn
      <3> QED
        BY <2>1, <2>2 DEF ClientStates
    <2> QED
      BY <2>1, <2>2, <2>3, <2>4 DEF ClientStates
  <1>2. t = [s EXCEPT !.client.sn = sn, !.client.table = @ \cup {sn}]
    BY DEF StateOK
  <1>3. Request(s, kind) = Send(t, Pkt(kind, sn))
    BY <1>2 DEF Request
  <1>4. StateOK(t)
    BY <1>1 DEF StateOK
  <1> HIDE DEF t, sn, c
  <1> QED
    BY <1>1, <1>3, <1>4, SendTyped

\* throwException(e) forgets the session and disconnects.
LEMMA ThrowTyped ==
  ASSUME NEW s, StateOK(s), NEW e \in {"Logout", "LoginError"}
  PROVE  StateOK(ThrowException(s, e))
  <1> DEFINE t == [s EXCEPT !.client.session = NoSession]
  <1>1. StateOK(t)
    BY DEF StateOK, ClientStates, NoSession
  <1>2. ThrowException(s, e) = Disconnect(t, e)
    BY DEF ThrowException
  <1> HIDE DEF t
  <1>3. StateOK(Disconnect(t, e))
    BY <1>1 DEF Disconnect, StateOK, LinkStates, Excs
  <1> QED
    BY <1>2, <1>3

\* connect() starts an attempt when there is no connection.
LEMMA ConnectTyped == ASSUME NEW s, StateOK(s) PROVE StateOK(Connect(s))
  BY DEF Connect, StateOK, LinkStates

LEMMA SetStateTyped ==
  ASSUME NEW s, StateOK(s), NEW state \in States PROVE StateOK(SetState(s, state))
  BY DEF SetState, StateOK, ClientStates

\* finish() concerns the activities only.
LEMMA FinishTyped ==
  ASSUME NEW s, StateOK(s), NEW a \in Activities
  PROVE  StateOK(Finish(s, a))
  <1> DEFINE next == IF s.ui.front # a THEN s.ui.front ELSE IF s.ui.behind THEN "Menu" ELSE "Splash"
             v == [s.ui EXCEPT !.front = next, !.behind = FALSE, !.gone = @ \cup {a}]
  <1>1. next \in Activities \cup {"Splash"}
    BY DEF StateOK, UiStates, Activities
  <1>2. Finish(s, a) = s \/
        Finish(s, a) = [s EXCEPT !.ui.front = next, !.ui.behind = FALSE, !.ui.gone = @ \cup {a}]
    BY DEF Finish
  <1>3. v \in UiStates
    BY <1>1 DEF StateOK, UiStates
  <1>4. [s EXCEPT !.ui.front = next, !.ui.behind = FALSE, !.ui.gone = @ \cup {a}]
          = [s EXCEPT !.ui = v]
    BY DEF StateOK
  <1> HIDE DEF next, v
  <1> QED
    BY <1>2, <1>3, <1>4 DEF StateOK

\* So does a jump to the login screen.
LEMMA JumpTyped == ASSUME NEW s, StateOK(s) PROVE StateOK(JumpToLogin(s))
  BY DEF JumpToLogin, StateOK, UiStates

\* The menu gives way to the login screen.
LEMMA LeaveTyped == ASSUME NEW s, StateOK(s) PROVE StateOK(JumpToLogin(Finish(s, "Menu")))
  BY FinishTyped, JumpTyped DEF Activities

\* A connection that is announced.
LEMMA SuccessTyped == ASSUME NEW s, StateOK(s) PROVE StateOK(OnSuccess(s))
  <1> DEFINE t == SetState(s, "CONNECTED")
             u == [t EXCEPT !.link.auto = FALSE]
  <1>1. StateOK(t)
    BY SetStateTyped DEF States
  <1>2. OnSuccess(s) = Send(u, Pkt("EXCHANGE", 0))
    BY DEF OnSuccess
  <1> HIDE DEF t
  <1>3. StateOK(u)
    BY <1>1 DEF StateOK, LinkStates
  <1> HIDE DEF u
  <1> QED
    BY <1>2, <1>3, SendTyped DEF ToServer

\* The login screens ask for verification codes.
LEMMA ExchangeTyped == ASSUME NEW s, StateOK(s) PROVE StateOK(OnExchange(s))
  <1> DEFINE t == IF "Main" \in s.ui.gone THEN Request(s, "VERIFY") ELSE s
             u == Request(t, "VERIFY")
             w == [u.ui EXCEPT !.asked = u.client.sn, !.code = FALSE]
             v == [u EXCEPT !.ui.asked = u.client.sn, !.ui.code = FALSE]
  <1>1. OnExchange(s) = IF s.ui.front = "Main" THEN v ELSE t
    BY DEF OnExchange
  <1>2. StateOK(t)
    BY RequestTyped DEF ToServer
  <1> HIDE DEF t
  <1>3. StateOK(u)
    BY <1>2, RequestTyped DEF ToServer
  <1> HIDE DEF u
  <1>4. w \in UiStates
    BY <1>3 DEF StateOK, UiStates, ClientStates
  <1>5. v = [u EXCEPT !.ui = w]
    BY <1>3 DEF StateOK
  <1> HIDE DEF v, w
  <1> QED
    BY <1>1, <1>2, <1>3, <1>4, <1>5 DEF StateOK

\* A key exchange.
LEMMA KeyTyped == ASSUME NEW s, StateOK(s), NEW n \in Nat PROVE StateOK(OnKey(s, n))
  <1> DEFINE u == OnExchange(SetState(s, "EXCHANGE"))
             v == [u EXCEPT !.client.key = n]
  <1>1. StateOK(u)
    BY SetStateTyped, ExchangeTyped DEF States
  <1>2. OnKey(s, n) = IF v.client.session # NoSession THEN Send(v, Pkt("SESSION", v.client.session))
                      ELSE v
    BY DEF OnKey
  <1> HIDE DEF u
  <1>3. StateOK(v) /\ v.client.session \in Nat
    BY <1>1 DEF StateOK, ClientStates
  <1> HIDE DEF v
  <1> QED
    BY <1>2, <1>3, SendTyped DEF ToServer

\* An accepted login.
LEMMA AcceptedTyped == ASSUME NEW s, StateOK(s) PROVE StateOK(OnLoginAccepted(s))
  <1> DEFINE y == [s.ui EXCEPT !.front = "Menu", !.behind = FALSE, !.gone = @ \cup {"Main"}]
             c == [s.client EXCEPT !.callback = FALSE]
             u == [s EXCEPT !.ui = y, !.client = c]
             t == IF s.client.callback /\ s.ui.front = "Main" THEN u ELSE s
  <1>1. y \in UiStates /\ c \in ClientStates /\ c.table = s.client.table /\ c.sn = s.client.sn
    BY DEF StateOK, UiStates, Activities, ClientStates
  <1>2. u = [s EXCEPT !.ui.front = "Menu", !.ui.behind = FALSE, !.ui.gone = @ \cup {"Main"},
                      !.client.callback = FALSE]
    BY DEF StateOK
  <1>3. OnLoginAccepted(s) = SetState(t, "LOGIN")
    BY <1>2 DEF OnLoginAccepted
  <1> HIDE DEF y, c
  <1>4. StateOK(t)
    BY <1>1 DEF StateOK
  <1> HIDE DEF t
  <1> QED
    BY <1>3, <1>4, SetStateTyped DEF States

\* A kick.
LEMMA KickHandled == ASSUME NEW s, StateOK(s) PROVE StateOK(OnKick(s))
  <1> DEFINE t == SetState(s, "KICK")
             u == IF Registered(t, "Menu") THEN JumpToLogin(Finish(Logout(t), "Menu")) ELSE t
  <1>1. StateOK(t)
    BY SetStateTyped DEF States
  <1>2. OnKick(s) = Finish(u, "Main")
    BY DEF OnKick
  <1> HIDE DEF t
  <1>3. StateOK(u)
    BY <1>1, ThrowTyped, LeaveTyped DEF Logout
  <1> HIDE DEF u
  <1> QED
    BY <1>2, <1>3, FinishTyped DEF Activities

\* An answer to a request, or to nothing.
LEMMA AnswerTyped == ASSUME NEW s, StateOK(s), NEW pkt PROVE StateOK(OnAnswer(s, pkt))
  <1> DEFINE code == s.ui.code \/ (pkt.kind = "CODE" /\ pkt.val = s.ui.asked)
             c == [s.client EXCEPT !.table = @ \ {pkt.val}]
             y == [s.ui EXCEPT !.code = code]
             t == [s EXCEPT !.client = c, !.ui = y]
  <1>1. c \in ClientStates /\ c.table \subseteq s.client.table /\ c.sn = s.client.sn
    BY DEF StateOK, ClientStates
  <1>2. code \in BOOLEAN
    BY DEF StateOK, UiStates
  <1>3. OnAnswer(s, pkt) = s \/ OnAnswer(s, pkt) = t
    BY DEF OnAnswer, StateOK
  <1> HIDE DEF code, c
  <1>4. y \in UiStates
    BY <1>2 DEF StateOK, UiStates
  <1> HIDE DEF y
  <1> QED
    BY <1>1, <1>3, <1>4 DEF StateOK

\* The loss of a connection.
LEMMA LossTyped == ASSUME NEW s, StateOK(s), NEW e PROVE StateOK(OnLoss(s, e))
  <1> DEFINE t == SetState(s, "DISCONNECT")
             u == IF ~Registered(t, "Menu") THEN t
                  ELSE IF e = "Logout" THEN JumpToLogin(Finish(t, "Menu"))
                  ELSE IF e = "LoginError" THEN JumpToLogin(Finish(Logout(t), "Menu"))
                  ELSE t
             v == [u EXCEPT !.link.auto = TRUE]
  <1>1. OnLoss(s, e) = v \/ OnLoss(s, e) = Connect(v)
    BY DEF OnLoss
  <1>2. StateOK(t)
    BY SetStateTyped DEF States
  <1> HIDE DEF t
  <1>3. StateOK(u)
    BY <1>2, ThrowTyped, LeaveTyped DEF Logout
  <1> HIDE DEF u
  <1>4. StateOK(v)
    BY <1>3 DEF StateOK, LinkStates
  <1> HIDE DEF v
  <1> QED
    BY <1>1, <1>4, ConnectTyped

\* The dispatch of one callback.
LEMMA HandleTyped ==
  ASSUME NEW s, StateOK(s), NEW ev \in Posted
  PROVE  StateOK(Handle(s, ev))
  <1>1. CASE ev.type = "SUCCESS"
    BY <1>1, SuccessTyped DEF Handle
  <1>2. CASE ev.type = "DISC"
    BY <1>2, LossTyped DEF Handle
  <1>3. CASE ev.type = "READ"
    <2>1. Handle(s, ev) = OnRead(s, ev.n, ev.pkt)
      BY <1>3 DEF Handle
    <2>2. CASE ev.pkt.kind = "KEY"
      BY <2>1, <2>2, KeyTyped DEF OnRead, Posted
    <2>3. CASE ev.pkt.kind = "ACCEPTED"
      BY <2>1, <2>3, AcceptedTyped DEF OnRead
    <2>4. CASE ev.pkt.kind = "REJECTED"
      BY <2>1, <2>4, ThrowTyped DEF OnRead
    <2>5. CASE ev.pkt.kind = "UPDATE"
      <3>1. Handle(s, ev) = [s EXCEPT !.client.session = ev.pkt.val] /\ ev.pkt.val \in Nat
        BY <2>1, <2>5 DEF OnRead, Posted, Packets
      <3> QED
        BY <3>1 DEF StateOK, ClientStates
    <2>6. CASE ev.pkt.kind = "KICK"
      BY <2>1, <2>6, KickHandled DEF OnRead
    <2>7. CASE ev.pkt.kind \notin {"KEY", "ACCEPTED", "REJECTED", "UPDATE", "KICK"}
      BY <2>1, <2>7, AnswerTyped DEF OnRead
    <2> QED
      BY <2>2, <2>3, <2>4, <2>5, <2>6, <2>7
  <1> QED
    BY <1>1, <1>2, <1>3 DEF Posted
-----------------------------------------------------------------------------
(* Types.                                                                   *)

Queues ==
  /\ down \in Seq(Packets(ToClient))
  /\ held \in Posted \cup {Event("NONE", 0, NoPkt)}
  /\ inbox \in Seq(Posted)
  /\ server \in [session : Nat, issued : Nat, keyed : BOOLEAN, accepted : BOOLEAN]
  /\ clicks \in 0..MaxClicks /\ faults \in 0..MaxFaults

\* The type invariant, as the handlers see it.
LEMMA TypedNow == TypeOK => StateOK(Now) /\ Queues
  <1> SUFFICES ASSUME TypeOK PROVE StateOK(Now) /\ Queues
    OBVIOUS
  <1>1. client \in ClientStates /\ \A i \in client.table : 1 <= i /\ i <= client.sn
    <2>1. /\ client \in [state : States, session : Nat, key : Nat, callback : BOOLEAN,
                         table : SUBSET (1..client.sn), sn : Nat]
      BY DEF TypeOK
    <2>2. client.table \subseteq 1..client.sn /\ client.sn \in Nat
      BY <2>1
    <2>3. client.table \in SUBSET Nat /\ \A i \in client.table : 1 <= i /\ i <= client.sn
      BY <2>2
    <2> QED
      BY <2>1, <2>3 DEF ClientStates
  <1>2. ui \in UiStates /\ link \in LinkStates /\ up \in Seq(Packets(ToServer))
    BY DEF TypeOK, UiStates, LinkStates
  <1> QED
    BY <1>1, <1>2 DEF Now, StateOK, Queues, TypeOK

\* What a handler leaves is typed if the queues are.
LEMMA BecomeTyped ==
  ASSUME NEW t, StateOK(t), Become(t), Queues'
  PROVE  TypeOK'
  <1>1. /\ client' = t.client /\ ui' = t.ui /\ link' = t.link /\ up' = t.up
    BY DEF Become
  <1>2. /\ t.client \in ClientStates /\ t.ui \in UiStates /\ t.link \in LinkStates
        /\ t.up \in Seq(Packets(ToServer))
        /\ \A i \in t.client.table : 1 <= i /\ i <= t.client.sn
    BY DEF StateOK
  <1>3. client' \in [state : States, session : Nat, key : Nat, callback : BOOLEAN,
                     table : SUBSET (1..client'.sn), sn : Nat]
    <2>1. t.client.table \subseteq 1..t.client.sn
      BY <1>2 DEF ClientStates
    <2> QED
      BY <1>1, <1>2, <2>1 DEF ClientStates
  <1> QED
    BY <1>1, <1>2, <1>3 DEF Queues, TypeOK, UiStates, LinkStates

\* A gesture.
LEMMA UserTyped ==
  ASSUME StateOK(Now), Queues, User
  PROVE  (\E t : StateOK(t) /\ Become(t)) /\ Queues'
  <1>1. ASSUME NEW kind, NEW a, NEW t, Gesture(kind, a, t)
        PROVE  Become(t) /\ Queues'
    BY <1>1, TradeClientAssumption DEF Gesture, Queues
  <1>2. \E kind, a, t : Gesture(kind, a, t) /\ StateOK(t)
    <2>1. CASE Enter
      <3> DEFINE front == [Now EXCEPT !.ui.front = "Menu"]
      <3>1. StateOK(front) /\ StateOK(JumpToLogin(Now))
        BY JumpTyped DEF StateOK, UiStates, Activities
      <3> QED
        BY <2>1, <3>1 DEF Enter
    <2>2. CASE Login
      <3> DEFINE u == [Now EXCEPT !.client.callback = TRUE]
      <3>1. StateOK(u)
        BY DEF StateOK, ClientStates
      <3>2. StateOK(Send(u, Pkt("PASSWORD", 0)))
        <4> HIDE DEF u
        <4> QED
          BY <3>1, SendTyped DEF ToServer
      <3> QED
        BY <2>2, <3>2 DEF Login
    <2>3. CASE ResetCode
      <3> DEFINE u == [Now EXCEPT !.ui.code = FALSE]
      <3>1. StateOK(u)
        BY DEF StateOK, UiStates
      <3>2. StateOK(ThrowException(u, "Logout"))
        <4> HIDE DEF u
        <4> QED
          BY <3>1, ThrowTyped
      <3> QED
        BY <2>3, <3>2 DEF ResetCode
    <2>4. CASE MenuLogout
      BY <2>4, ThrowTyped DEF MenuLogout, Logout
    <2>5. CASE SendBiz
      BY <2>5, RequestTyped DEF SendBiz, ToServer
    <2>6. CASE Back
      BY <2>6, FinishTyped DEF Back
    <2> QED
      BY <2>1, <2>2, <2>3, <2>4, <2>5, <2>6 DEF User
  <1> QED
    BY <1>1, <1>2

\* A login screen is created, and connects.
LEMMA CreateLoginTyped ==
  ASSUME StateOK(Now), CreateLogin
  PROVE  \E t : StateOK(t) /\ Become(t)
  <1> DEFINE y == [ui EXCEPT !.front = "Main", !.behind = Shown(Now, "Menu"),
                             !.jumps = @ - 1, !.asked = 0, !.code = FALSE,
                             !.gone = IF ui.front = "Main" THEN @ \cup {"Main"} ELSE @]
             c == [client EXCEPT !.callback = FALSE]
             s == [Now EXCEPT !.ui = y, !.client = c]
             r == [Now EXCEPT !.ui = y, !.client.callback = FALSE]
  <1>0. Become(Connect(r))
    BY DEF CreateLogin
  <1>1. Now.ui = ui /\ Now.client = client
    BY DEF Now
  <1>2. r = s
    <2> HIDE DEF y
    <2> QED
      BY <1>1 DEF StateOK
  <1>3. y \in UiStates
    <2>1. ui \in UiStates /\ ui.jumps > 0
      BY DEF Now, StateOK, CreateLogin
    <2>2. Shown(Now, "Menu") \in BOOLEAN
      BY <2>1 DEF Shown, Now, UiStates
    <2>3. ui.jumps - 1 \in Nat
      BY <2>1 DEF UiStates
    <2>4. (IF ui.front = "Main" THEN ui.gone \cup {"Main"} ELSE ui.gone) \in SUBSET Activities
      BY <2>1 DEF UiStates, Activities
    <2> QED
      BY <1>1, <2>1, <2>2, <2>3, <2>4 DEF UiStates, Activities
  <1>4. c \in ClientStates /\ c.table = client.table /\ c.sn = client.sn
    BY <1>1 DEF StateOK, ClientStates
  <1> HIDE DEF y, c, r
  <1>5. StateOK(s)
    BY <1>3, <1>4 DEF StateOK, Now
  <1> HIDE DEF s
  <1> QED
    BY <1>0, <1>2, <1>5, ConnectTyped

\* Every packet of the server and every posted callback is of its type.
LEMMA EventsTyped ==
  /\ \A kind \in ToServer \cup ToClient, val \in Nat :
       /\ kind \in ToServer => Pkt(kind, val) \in Packets(ToServer)
       /\ kind \in ToClient => Pkt(kind, val) \in Packets(ToClient)
  /\ \A n \in Nat : Event("SUCCESS", n, NoPkt) \in Posted
  /\ \A n \in Nat, pkt \in Packets(ToClient) : Event("READ", n, pkt) \in Posted
  /\ \A n \in Nat, e \in Excs : Event("DISC", n, Pkt(e, 0)) \in Posted
  BY DEF Pkt, Packets, Event, NoPkt, Posted

\* Sequences, as far as the queues need them.
LEMMA Queued1 == ASSUME NEW S, NEW x \in S PROVE <<x>> \in Seq(S)
  OBVIOUS

LEMMA Queued2 == ASSUME NEW S, NEW x \in S, NEW y \in S PROVE <<x, y>> \in Seq(S)
  OBVIOUS

\* Queues may be empty.
LEMMA EmptyTyped == <<>> \in Seq(Packets(ToServer)) /\ <<>> \in Seq(Packets(ToClient))
  OBVIOUS

\* An answer of one packet.
LEMMA AnswersTyped ==
  ASSUME NEW kind \in ToClient, NEW val \in Nat
  PROVE  <<Pkt(kind, val)>> \in Seq(Packets(ToClient))
  <1> DEFINE pkt == Pkt(kind, val)
  <1>1. pkt \in Packets(ToClient)
    BY EventsTyped
  <1> HIDE DEF pkt
  <1> QED
    BY <1>1, Queued1 DEF pkt

\* The steps of the connection keep the types.
LEMMA ConnectionTyped == ASSUME TypeOK, Connection PROVE TypeOK'
  <1> USE TradeClientAssumption, EventsTyped
  <1>1. CASE LinkUp
    <2>1. link' \in LinkStates
      <3>1. link \in LinkStates /\ link' = [link EXCEPT !.phase = "up", !.n = link.n + 1]
        BY <1>1 DEF LinkUp, TypeOK, LinkStates
      <3>2. link.n + 1 \in Nat
        BY <3>1 DEF LinkStates
      <3> QED
        BY <3>1, <3>2 DEF LinkStates
    <2>3. inbox' \in Seq(Posted)
      <3>1. Event("SUCCESS", link.n + 1, NoPkt) \in Posted
        BY DEF TypeOK
      <3> QED
        BY <1>1, <3>1 DEF LinkUp, TypeOK
    <2>2. server' \in [session : Nat, issued : Nat, keyed : BOOLEAN, accepted : BOOLEAN]
      BY <1>1 DEF LinkUp, TypeOK
    <2> QED
      BY <1>1, <2>1, <2>2, <2>3 DEF LinkUp, TypeOK, LinkStates
  <1>2. CASE LinkFails
    <2>1. link' \in LinkStates
      BY <1>2 DEF LinkFails, TypeOK, LinkStates
    <2>2. faults' \in 0..MaxFaults
      BY <1>2 DEF LinkFails, TypeOK, Fault
    <2> QED
      BY <1>2, <2>1, <2>2 DEF LinkFails, TypeOK, LinkStates
  <1>3. CASE Break
    <2>1. link' \in LinkStates
      BY <1>3 DEF Break, TypeOK, LinkStates, Excs
    <2>3. up' \in Seq(Packets(ToServer)) /\ down' \in Seq(Packets(ToClient))
      BY <1>3, EmptyTyped DEF Break, TypeOK
    <2>2. faults' \in 0..MaxFaults
      BY <1>3 DEF Break, TypeOK, Fault
    <2> QED
      BY <1>3, <2>1, <2>2, <2>3 DEF Break, TypeOK, LinkStates
  <1>4. CASE Close
    <2>1. link' \in LinkStates
      BY <1>4 DEF Close, TypeOK, LinkStates
    <2>4. up' \in Seq(Packets(ToServer)) /\ down' \in Seq(Packets(ToClient))
      BY <1>4, EmptyTyped DEF Close
    <2>2. link.n \in Nat /\ link.exc \in Excs
      BY <1>4 DEF Close, TypeOK
    <2>3. inbox' \in Seq(Posted)
      BY <1>4, <2>2 DEF Close, TypeOK
    <2> QED
      BY <1>4, <2>1, <2>3, <2>4 DEF Close, TypeOK, LinkStates
  <1>5. CASE AutoReconnect
    <2>1. link' \in LinkStates
      BY <1>5 DEF AutoReconnect, TypeOK, LinkStates
    <2> QED
      BY <1>5, <2>1 DEF AutoReconnect, TypeOK, LinkStates
  <1>6. CASE Read
    <2>1. Head(down) \in Packets(ToClient) /\ down' \in Seq(Packets(ToClient)) /\ link.n \in Nat
      BY <1>6 DEF Read, TypeOK
    <2> DEFINE ev == Event("READ", link.n, Head(down))
    <2>3. ev \in Posted
      BY <2>1
    <2>2. inbox' \in Seq(Posted) /\ held' \in Posted \cup {Event("NONE", 0, NoPkt)}
      <3>1. \/ held' = ev /\ UNCHANGED inbox
            \/ inbox' = Append(inbox, ev) /\ UNCHANGED held
        BY <1>6 DEF Read
      <3>2. inbox \in Seq(Posted) /\ held \in Posted \cup {Event("NONE", 0, NoPkt)}
        BY DEF TypeOK
      <3> HIDE DEF ev
      <3> QED
        BY <2>3, <3>1, <3>2
    <2> QED
      BY <1>6, <2>1, <2>2 DEF Read, TypeOK
  <1>7. CASE PostRead
    <2>1. held \in Posted
      BY <1>7 DEF PostRead, TypeOK, Event
    <2> QED
      BY <1>7, <2>1 DEF PostRead, TypeOK
  <1> QED
    BY <1>1, <1>2, <1>3, <1>4, <1>5, <1>6, <1>7 DEF Connection

\* What a request of the server's side leaves alone.
LEMMA ServerTyped ==
  ASSUME TypeOK, UNCHANGED <<client, ui, link, held, inbox, clicks>>,
         NEW pkts \in Seq(Packets(ToClient)), down' = down \o pkts,
         up' = up \/ (up # <<>> /\ up' = Tail(up)),
         server' \in [session : Nat, issued : Nat, keyed : BOOLEAN, accepted : BOOLEAN],
         faults' \in 0..MaxFaults
  PROVE  TypeOK'
  <1>1. down' \in Seq(Packets(ToClient))
    BY DEF TypeOK
  <1>2. up' \in Seq(Packets(ToServer))
    <2>1. up \in Seq(Packets(ToServer))
      BY DEF TypeOK
    <2>2. CASE up # <<>> /\ up' = Tail(up)
      BY <2>1, <2>2, HeadTailProperties
    <2> QED
      BY <2>1, <2>2
  <1> QED
    BY <1>1, <1>2 DEF TypeOK

\* The packet the server takes.
LEMMA HeadTyped ==
  ASSUME TypeOK, up # <<>>
  PROVE  Head(up) \in Packets(ToServer) /\ Head(up).val \in Nat
  <1>1. up \in Seq(Packets(ToServer))
    BY DEF TypeOK
  <1>2. Head(up) \in Packets(ToServer)
    BY <1>1
  <1> QED
    BY <1>2 DEF Packets

\* The server accepts a login.
LEMMA AcceptTyped ==
  ASSUME TypeOK, NEW session \in Nat, Accept(session), up # <<>>, up' = Tail(up), ServerOthers
  PROVE  TypeOK'
  <1> DEFINE pkts == <<Pkt("ACCEPTED", 0), Pkt("UPDATE", session)>>
  <1>1. pkts \in Seq(Packets(ToClient)) /\ down' = down \o pkts
    <2> DEFINE p == Pkt("ACCEPTED", 0)
               q == Pkt("UPDATE", session)
    <2>1. p \in Packets(ToClient) /\ q \in Packets(ToClient)
      BY EventsTyped DEF ToClient
    <2>2. down' = down \o pkts
      BY DEF Accept, Reply
    <2> HIDE DEF p, q
    <2> QED
      BY <2>1, <2>2, Queued2 DEF p, q
  <1>2. server' \in [session : Nat, issued : Nat, keyed : BOOLEAN, accepted : BOOLEAN]
    BY DEF Accept, TypeOK
  <1>3. faults' \in 0..MaxFaults
    BY DEF Accept, TypeOK
  <1> HIDE DEF pkts
  <1> QED
    BY <1>1, <1>2, <1>3, ServerTyped DEF ServerOthers

\* The server rejects a login.
LEMMA RejectTyped ==
  ASSUME TypeOK, Reply(<<Pkt("REJECTED", 0)>>), UNCHANGED server,
         UNCHANGED faults \/ Fault, up # <<>>, up' = Tail(up), ServerOthers
  PROVE  TypeOK'
  <1> DEFINE pkts == <<Pkt("REJECTED", 0)>>
  <1>1. pkts \in Seq(Packets(ToClient)) /\ down' = down \o pkts
    BY AnswersTyped DEF ToClient, Reply
  <1>2. server' \in [session : Nat, issued : Nat, keyed : BOOLEAN, accepted : BOOLEAN]
    BY DEF TypeOK
  <1>3. faults' \in 0..MaxFaults
    BY TradeClientAssumption DEF Fault, TypeOK
  <1> HIDE DEF pkts
  <1> QED
    BY <1>1, <1>2, <1>3, ServerTyped DEF ServerOthers

\* The steps of the server keep the types.
LEMMA ServesTyped == ASSUME TypeOK, Serves PROVE TypeOK'
  <1>1. CASE ServerKey
    <2> DEFINE pkts == <<Pkt("KEY", 0)>>
    <2>1. pkts \in Seq(Packets(ToClient)) /\ down' = down \o pkts /\ up # <<>> /\ up' = Tail(up)
      BY <1>1, AnswersTyped DEF ToClient, Reply, ServerKey, Take
    <2>2. /\ server' \in [session : Nat, issued : Nat, keyed : BOOLEAN, accepted : BOOLEAN]
          /\ faults' \in 0..MaxFaults
      BY <1>1 DEF TypeOK, ServerKey
    <2> HIDE DEF pkts
    <2> QED
      BY <1>1, <2>1, <2>2, ServerTyped DEF ServerOthers, ServerKey
  <1>2. CASE ServerIgnores
    <2>1. up # <<>> /\ up' = Tail(up)
      BY <1>2 DEF ServerIgnores, Take
    <2>2. up' \in Seq(Packets(ToServer))
      BY <2>1 DEF TypeOK
    <2> QED
      BY <1>2, <2>2 DEF ServerIgnores, ServerOthers, TypeOK
  <1>3. CASE ServerPassword
    <2>1. up # <<>> /\ up' = Tail(up) /\ ServerOthers
      BY <1>3 DEF ServerPassword, Serve, Take
    <2>2. CASE Accept(server.issued + 1)
      <3>1. server.issued + 1 \in Nat
        BY DEF TypeOK
      <3> QED
        BY <2>1, <2>2, <3>1, AcceptTyped
    <2>3. CASE Reject
      BY <2>1, <2>3, RejectTyped DEF Reject
    <2> QED
      BY <1>3, <2>2, <2>3 DEF ServerPassword
  <1>4. CASE ServerSession
    <2>1. up # <<>> /\ up' = Tail(up) /\ ServerOthers
      BY <1>4 DEF ServerSession, Serve, Take
    <2>2. CASE Accept(server.session)
      <3>1. server.session \in Nat
        BY DEF TypeOK
      <3> QED
        BY <2>1, <2>2, <3>1, AcceptTyped
    <2>3. CASE Reject
      BY <2>1, <2>3, RejectTyped DEF Reject
    <2>4. CASE Reply(<<Pkt("REJECTED", 0)>>) /\ UNCHANGED <<server, faults>>
      BY <2>1, <2>4, RejectTyped
    <2> QED
      BY <1>4, <2>2, <2>3, <2>4 DEF ServerSession
  <1>5. CASE ServerVerify
    <2> DEFINE pkts == <<Pkt("CODE", Head(up).val)>>
    <2>1. up # <<>> /\ up' = Tail(up)
      BY <1>5 DEF ServerVerify, Serve, Take
    <2>2. pkts \in Seq(Packets(ToClient)) /\ down' = down \o pkts
      BY <1>5, <2>1, AnswersTyped, HeadTyped DEF ToClient, Reply, ServerVerify
    <2>3. /\ server' \in [session : Nat, issued : Nat, keyed : BOOLEAN, accepted : BOOLEAN]
          /\ faults' \in 0..MaxFaults
      BY <1>5 DEF TypeOK, ServerVerify
    <2> HIDE DEF pkts
    <2> QED
      BY <1>5, <2>1, <2>2, <2>3, ServerTyped DEF ServerOthers, ServerVerify
  <1>6. CASE ServerBiz
    <2>1. up # <<>> /\ up' = Tail(up)
      BY <1>6 DEF ServerBiz, Serve, Take
    <2>2. PICK kind \in {"RESULT", "ERROR"} : Reply(<<Pkt(kind, Head(up).val)>>)
      BY <1>6 DEF ServerBiz
    <2> DEFINE pkts == <<Pkt(kind, Head(up).val)>>
    <2>3. pkts \in Seq(Packets(ToClient)) /\ down' = down \o pkts
      BY <2>1, <2>2, AnswersTyped, HeadTyped DEF ToClient, Reply
    <2>4. /\ server' \in [session : Nat, issued : Nat, keyed : BOOLEAN, accepted : BOOLEAN]
          /\ faults' \in 0..MaxFaults
      BY <1>6 DEF TypeOK, ServerBiz
    <2> HIDE DEF pkts
    <2> QED
      BY <1>6, <2>1, <2>3, <2>4, ServerTyped DEF ServerOthers, ServerBiz
  <1> QED
    BY <1>1, <1>2, <1>3, <1>4, <1>5, <1>6 DEF Serves

\* So does a kick.
LEMMA KickTyped == ASSUME TypeOK, ServerKicks PROVE TypeOK'
  <1> DEFINE pkts == <<Pkt("KICK", 0)>>
  <1>1. pkts \in Seq(Packets(ToClient)) /\ down' = down \o pkts /\ up' = up
    BY AnswersTyped DEF ToClient, Reply, ServerKicks
  <1>2. server' \in [session : Nat, issued : Nat, keyed : BOOLEAN, accepted : BOOLEAN]
    BY DEF TypeOK, ServerKicks, NoSession
  <1>3. faults' \in 0..MaxFaults
    BY TradeClientAssumption DEF TypeOK, ServerKicks, Fault
  <1> HIDE DEF pkts
  <1> QED
    BY <1>1, <1>2, <1>3, ServerTyped DEF ServerOthers, ServerKicks

\* Every step keeps the types.
LEMMA NextTyped == ASSUME TypeOK, [Next]_vars PROVE TypeOK'
  <1>1. StateOK(Now) /\ Queues
    BY TypedNow
  <1>2. CASE Dispatch
    <2>1. Queues'
      BY <1>1, <1>2 DEF Dispatch, Queues
    <2>2. Become(Handle(Now, Head(inbox))) /\ Head(inbox) \in Posted
      BY <1>2 DEF Dispatch, TypeOK
    <2> QED
      BY <1>1, <2>1, <2>2, HandleTyped, BecomeTyped
  <1>3. CASE CreateLogin
    <2>1. Queues'
      BY <1>1, <1>3 DEF CreateLogin, Queues
    <2> QED
      BY <1>1, <1>3, <2>1, CreateLoginTyped, BecomeTyped
  <1>4. CASE Destroy
    <2>1. PICK a \in ui.gone : ui' = [ui EXCEPT !.gone = @ \ {a}]
      BY <1>4 DEF Destroy
    <2>2. ui' \in UiStates
      BY <2>1 DEF TypeOK, UiStates
    <2> QED
      BY <1>4, <2>2 DEF Destroy, TypeOK, UiStates
  <1>5. CASE User
    BY <1>1, <1>5, UserTyped, BecomeTyped
  <1>6. CASE UNCHANGED vars
    BY <1>6 DEF vars, TypeOK
  <1> QED
    BY <1>2, <1>3, <1>4, <1>5, <1>6, ConnectionTyped, ServesTyped, KickTyped DEF Next

\* Initially nothing is connected and nothing is on its way.
LEMMA InitTyped == Init => TypeOK
  <1> SUFFICES ASSUME Init PROVE TypeOK
    OBVIOUS
  <1>1. client.table \in SUBSET (1..client.sn)
    BY DEF Init
  <1> QED
    BY <1>1, TradeClientAssumption
       DEF Init, TypeOK, States, NoSession, Activities, Excs, Event, NoPkt, Pkt

\* Types hold over any number of connections: in particular every number in the table of
\* requests has been drawn, and every loss that is posted carries the exception of disconnect(e).
THEOREM TradeTypeCorrect == Spec => []TypeOK
  <1>1. Init => TypeOK
    BY InitTyped
  <1>2. TypeOK /\ [Next]_vars => TypeOK'
    BY NextTyped
  <1> QED
    BY <1>1, <1>2, PTL DEF Spec
=============================================================================
