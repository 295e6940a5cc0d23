---------------------------- MODULE ListenerPromise ----------------------------
(***************************************************************************)
(* What ISocketActionListener promises to the application about one         *)
(* connection manager: connections are announced one after the other, and   *)
(* each announced connection is announced lost before the next one.         *)
(***************************************************************************)
EXTENDS Naturals

CONSTANTS Conns, None

VARIABLE heard   \* the last announcement: type, connection, and a bit that every one flips

vars == heard

Announcement(t, k) == [type |-> t, conn |-> k, bit |-> 1 - heard.bit]

Init == heard = [type |-> "DISC", conn |-> None, bit |-> 0]

\* onSocketConnectionSuccess() of connection k
Success(k) == heard.type = "DISC" /\ heard' = Announcement("SUCCESS", k)

\* onSocketDisconnection() of connection k
Disconnection(k) ==
  /\ heard.type = "SUCCESS" /\ heard.conn = k
  /\ heard' = Announcement("DISC", k)

Next == \E k \in Conns : Success(k) \/ Disconnection(k)

Spec == Init /\ [][Next]_vars
=============================================================================
