------------------------------- MODULE Pulse -------------------------------
(***************************************************************************)
(* The heartbeat of a connection: PulseManager and its loop, the methods   *)
(* of the manager that make, use and end it, and the callbacks of Client   *)
(* on the main thread that start and feed it.  A method takes the          *)
(* PulseManager from the manager first and is called on it after that.     *)
(***************************************************************************)
EXTENDS Integers, Sequences, FiniteSets

CONSTANTS
  MaxConns,        \* bound on connections
  Threads,         \* identities of the threads of a loop
  LoseTimes,       \* getPulseFeedLoseTimes()
  MaxUnanswered,   \* bound on the heartbeats of a connection the server has not answered
  MaxPosted        \* bound on the answers the main thread has not taken

ASSUME PulseAssumption ==
  /\ MaxConns \in Nat /\ LoseTimes \in Nat \cup {-1} /\ MaxUnanswered \in Nat /\ MaxPosted \in Nat
  /\ IsFiniteSet(Threads)

Conns == 1..MaxConns
None == 0

VARIABLES
  thread, isStop, isShutdown, ioException, phase,  \* of LoopThread, one loop a PulseManager
  at,             \* [Conns -> [Threads -> line of runInLoopThread()]]
  interrupted,    \* [Conns -> threads with a pending interrupt]
  isDead, mLoseTimes, mSendable,                   \* of each PulseManager
  mPulseManager,  \* of the manager
  isDisconnecting,
  socket,         \* connection whose socket is open
  made,           \* connections made so far
  unanswered,     \* [Conns -> heartbeats the server has got and not answered]
  exchanging,     \* connections whose key exchange the server has not answered
  silent,         \* connections the server answers no more
  looper,         \* callbacks posted to the main thread
  main,           \* what the main thread is in: [call, on]
  pulsed,         \* history: [Conns -> times pulse() has returned, up to 2]
  unfed           \* history: [Conns -> heartbeats since the last feed()]

loopVars == <<thread, isStop, isShutdown, ioException, phase>>
bodyVars == <<at, interrupted>>
managerVars == <<mPulseManager, isDisconnecting, socket, made>>
serverVars == <<unanswered, exchanging, silent>>
mainVars == <<looper, main, pulsed>>
vars == <<loopVars, bodyVars, isDead, mLoseTimes, mSendable, managerVars, serverVars, mainVars,
          unfed>>

Interrupted == "InterruptedException"
L == INSTANCE LoopThread WITH
       Loops <- Conns, Callers <- {}, Errors <- {Interrupted}, decided <- <<>>

Idle == [call |-> "none", on |-> None]

Init ==
  /\ L!Init
  /\ at = [k \in Conns |-> [t \in Threads |-> "top"]]
  /\ interrupted = [k \in Conns |-> {}]
  /\ isDead = [k \in Conns |-> FALSE]
  /\ mLoseTimes = [k \in Conns |-> -1]
  /\ mSendable = [k \in Conns |-> FALSE]
  /\ mPulseManager = None /\ isDisconnecting = FALSE /\ socket = None /\ made = 0
  /\ unanswered = [k \in Conns |-> 0] /\ exchanging = {} /\ silent = {}
  /\ looper = <<>> /\ main = Idle /\ pulsed = [k \in Conns |-> 0]
  /\ unfed = [k \in Conns |-> 0]
-----------------------------------------------------------------------------
(* PulseManager.                                                           *)

\* shutdown() of loop k: the thread it forgets is interrupted.
privateDead(k) ==
  /\ L!StopFlags(k)
  /\ interrupted' = [interrupted EXCEPT ![k] = @ \cup ({thread[k]} \ {L!NoThread})]

setPulseSendable(k) ==
  /\ mSendable' = [mSendable EXCEPT ![k] = TRUE]
  /\ UNCHANGED <<loopVars, bodyVars, isDead, mLoseTimes, unfed>>

feed(k) ==
  /\ mLoseTimes' = [mLoseTimes EXCEPT ![k] = -1]
  /\ unfed' = [unfed EXCEPT ![k] = 0]
  /\ UNCHANGED <<loopVars, bodyVars, isDead, mSendable>>

\* pulse(), up to the test of isShutdown()
PulseStops(k) ==
  /\ privateDead(k)
  /\ UNCHANGED <<isShutdown, ioException, phase, at, isDead, mLoseTimes, mSendable, unfed>>

\* Which dead thread stands for the new one makes no difference.
Fresh(k) == CHOOSE t \in Threads : phase[k][t] \in L!Dead

\* ... and from it on
PulseRestarts(k) ==
  /\ IF isShutdown[k] THEN L!Start(k) /\ thread'[k] \in {thread[k], Fresh(k)}
     ELSE UNCHANGED loopVars
  /\ UNCHANGED <<bodyVars, isDead, mLoseTimes, mSendable, unfed>>

dead(k) ==
  /\ mLoseTimes' = [mLoseTimes EXCEPT ![k] = 0]
  /\ isDead' = [isDead EXCEPT ![k] = TRUE]
  /\ privateDead(k)
  /\ UNCHANGED <<isShutdown, ioException, mSendable, unfed>>
-----------------------------------------------------------------------------
(* The manager.                                                            *)

\* Mutant of GivesUp: the manager keeps its PulseManager.
GivesUpKeeping ==
  /\ isDisconnecting' = TRUE
  /\ UNCHANGED mPulseManager
  /\ IF mPulseManager # None THEN dead(mPulseManager) /\ UNCHANGED phase
     ELSE UNCHANGED <<loopVars, interrupted, isDead, mLoseTimes, mSendable, unfed>>

\* The synchronized part of disconnect(e), once isDisconnecting has been tested
GivesUp ==
  /\ isDisconnecting' = TRUE
  /\ mPulseManager' = None
  /\ IF mPulseManager # None THEN dead(mPulseManager) /\ UNCHANGED phase
     ELSE UNCHANGED <<loopVars, interrupted, isDead, mLoseTimes, mSendable, unfed>>

\* disconnect(e), without the thread it starts: dead() waits for a pulse() of the main thread.
disconnect ==
  /\ main # [call |-> "restart", on |-> mPulseManager]
  /\ IF isDisconnecting
     THEN UNCHANGED <<loopVars, interrupted, isDead, mLoseTimes, mSendable, unfed,
                      mPulseManager, isDisconnecting>>
     ELSE GivesUp
  /\ UNCHANGED <<socket, made>>

\* The user, or an IO thread that has failed.
Disconnect ==
  /\ socket # None /\ ~isDisconnecting
  /\ disconnect
  /\ UNCHANGED <<at, serverVars, mainVars>>

DisconnectThreadEnds ==
  /\ isDisconnecting
  /\ isDisconnecting' = FALSE /\ socket' = None
  /\ UNCHANGED <<loopVars, bodyVars, isDead, mLoseTimes, mSendable, mPulseManager, made,
                 serverVars, mainVars, unfed>>

\* A connect() that succeeds: resolveManager(), and the callback is posted, whatever callbacks of
\* the last connection still wait for the main thread.
Connect ==
  /\ socket = None /\ ~isDisconnecting /\ made < MaxConns
  /\ made' = made + 1 /\ socket' = made' /\ mPulseManager' = made'
  /\ looper' = Append(looper, "success")
  /\ UNCHANGED <<loopVars, bodyVars, isDead, mLoseTimes, mSendable, isDisconnecting,
                 serverVars, main, pulsed, unfed>>
-----------------------------------------------------------------------------
(* runInLoopThread() of thread t.                                          *)

Line(k, t, line) == phase[k][t] = "body" /\ at[k][t] = line
GoTo(k, t, line) == at' = [at EXCEPT ![k][t] = line]

\* Mutant of TestDead: the loop is not shut down.
TestDeadReturns(k, t) ==
  /\ Line(k, t, "top")
  /\ \/ isDead[k] /\ L!To(k, t, "loop") /\ UNCHANGED <<thread, isStop, isShutdown, ioException, at>>
     \/ ~isDead[k] /\ GoTo(k, t, IF mSendable[k] THEN "count" ELSE "sleep") /\ UNCHANGED loopVars
  /\ UNCHANGED interrupted

\* if (isDead) shutdown() and return, and the test of mSendable
TestDead(k, t) ==
  /\ Line(k, t, "top")
  /\ \/ /\ isDead[k]
        /\ privateDead(k)
        /\ L!To(k, t, "loop")
        /\ UNCHANGED <<isShutdown, ioException, at>>
     \/ /\ ~isDead[k]
        /\ GoTo(k, t, IF mSendable[k] THEN "count" ELSE "sleep")
        /\ UNCHANGED <<loopVars, interrupted>>

\* Mutant of Count: one heartbeat less is enough.
CountEarly(k, t) ==
  /\ Line(k, t, "count")
  /\ mLoseTimes' = [mLoseTimes EXCEPT ![k] = @ + 1]
  /\ GoTo(k, t, IF mLoseTimes[k] + 2 >= LoseTimes THEN "die" ELSE "send")

\* mLoseTimes.incrementAndGet() >= getPulseFeedLoseTimes()
Count(k, t) ==
  /\ Line(k, t, "count")
  /\ \/ /\ LoseTimes = -1
        /\ GoTo(k, t, "send")
        /\ UNCHANGED mLoseTimes
     \/ /\ LoseTimes # -1
        /\ mLoseTimes' = [mLoseTimes EXCEPT ![k] = @ + 1]
        /\ GoTo(k, t, IF mLoseTimes'[k] >= LoseTimes THEN "die" ELSE "send")

\* Mutant of Send: what is sent counts as an answer.
SendFeeds(k, t) ==
  /\ Line(k, t, "send")
  /\ mLoseTimes' = [mLoseTimes EXCEPT ![k] = -1]
  /\ GoTo(k, t, "sleep")
  /\ UNCHANGED <<unanswered, unfed>>

\* mManager.send(mSendable): on the socket of the manager, whichever that is now
Send(k, t) ==
  /\ Line(k, t, "send")
  /\ unanswered' = [c \in Conns |->
       IF c = socket /\ unanswered[c] < MaxUnanswered THEN unanswered[c] + 1 ELSE unanswered[c]]
  /\ unfed' = [unfed EXCEPT ![k] = IF @ < LoseTimes THEN @ + 1 ELSE @]
  /\ GoTo(k, t, "sleep")
  /\ UNCHANGED mLoseTimes

\* mManager.disconnect(new DogDeadException(..))
Die(k, t) ==
  /\ Line(k, t, "die")
  /\ disconnect
  /\ GoTo(k, t, "sleep")

\* Thread.sleep() ends, by time or by an interrupt.
Wake(k, t) ==
  /\ Line(k, t, "sleep")
  /\ GoTo(k, t, "top")
  /\ \/ t \notin interrupted[k] /\ L!BodyReturns(k, t)
     \/ t \in interrupted[k] /\ L!BodyThrows(k, t, Interrupted)
  /\ interrupted' = [interrupted EXCEPT ![k] = @ \ {t}]

\* The rest of run(); a thread that is gone has no interrupt.
Loop(k, t) ==
  /\ L!Enter(k, t) \/ L!TestStop(k, t) \/ L!MarkShutdown(k, t) \/ L!Finish(k, t)
  /\ interrupted' = [interrupted EXCEPT ![k] =
                       IF phase[k][t] \in {"closing", "closing_failed"} THEN @ \ {t} ELSE @]
  /\ UNCHANGED at

PulseThread(k, t) ==
  \/ /\ TestDead(k, t) \/ Wake(k, t) \/ Loop(k, t)
     /\ UNCHANGED <<isDead, mLoseTimes, mSendable, managerVars, serverVars, mainVars, unfed>>
  \/ /\ Count(k, t)
     /\ UNCHANGED <<loopVars, interrupted, isDead, mSendable, managerVars, serverVars, mainVars,
                    unfed>>
  \/ /\ Send(k, t)
     /\ UNCHANGED <<loopVars, interrupted, isDead, mSendable, managerVars, exchanging, silent,
                    mainVars>>
  \/ Die(k, t) /\ UNCHANGED <<serverVars, mainVars>>
-----------------------------------------------------------------------------
(* The server, and the main thread.                                        *)

\* It may answer the exchange of a connection and the heartbeats it gets, or go silent.
Server ==
  /\ \E k \in Conns \ silent :
       /\ socket = k /\ Len(looper) < MaxPosted
       /\ \/ /\ k \in exchanging
             /\ exchanging' = exchanging \ {k} /\ looper' = Append(looper, "key")
             /\ UNCHANGED <<unanswered, silent>>
          \/ /\ unanswered[k] > 0
             /\ unanswered' = [unanswered EXCEPT ![k] = @ - 1]
             /\ looper' = Append(looper, "comm_ok")
             /\ UNCHANGED <<exchanging, silent>>
          \/ silent' = silent \cup {k} /\ UNCHANGED <<unanswered, exchanging, looper>>
  /\ UNCHANGED <<loopVars, bodyVars, isDead, mLoseTimes, mSendable, managerVars, main, pulsed,
                 unfed>>

\* onSocketConnectionSuccess: the exchange is sent, the heartbeat gets its packet.
OnSuccess ==
  /\ exchanging' = IF socket # None THEN exchanging \cup {socket} ELSE exchanging
  /\ IF mPulseManager # None THEN setPulseSendable(mPulseManager)
     ELSE UNCHANGED <<loopVars, bodyVars, isDead, mLoseTimes, mSendable, unfed>>
  /\ UNCHANGED main

\* The answer to a heartbeat: a feed() that comes after dead() changes what nobody reads, so it
\* is one step with getPulseManager().
OnCommOK ==
  /\ IF mPulseManager # None THEN feed(mPulseManager)
     ELSE UNCHANGED <<loopVars, bodyVars, isDead, mLoseTimes, mSendable, unfed>>
  /\ UNCHANGED <<main, exchanging>>

\* The answer to the exchange, up to manager.getPulseManager(): null throws, and no more.
OnKey ==
  /\ main' = IF mPulseManager = None THEN Idle ELSE [call |-> "pulse", on |-> mPulseManager]
  /\ UNCHANGED <<loopVars, bodyVars, isDead, mLoseTimes, mSendable, unfed, exchanging>>

Callback ==
  /\ main = Idle /\ looper # <<>>
  /\ looper' = Tail(looper)
  /\ \/ Head(looper) = "success" /\ OnSuccess
     \/ Head(looper) = "comm_ok" /\ OnCommOK
     \/ Head(looper) = "key" /\ OnKey
  /\ UNCHANGED <<managerVars, unanswered, silent, pulsed>>

\* ... .pulse(), on the PulseManager it got
Pulse ==
  /\ \/ main.call = "pulse" /\ PulseStops(main.on) /\ main' = [main EXCEPT !.call = "restart"]
     \/ main.call = "restart" /\ PulseRestarts(main.on) /\ main' = Idle
  /\ pulsed' = IF main.call = "restart" /\ pulsed[main.on] < 2
               THEN [pulsed EXCEPT ![main.on] = @ + 1] ELSE pulsed
  /\ UNCHANGED <<managerVars, serverVars, looper>>

Next ==
  \/ Connect \/ Disconnect \/ DisconnectThreadEnds
  \/ Server \/ Callback \/ Pulse
  \/ \E k \in Conns, t \in Threads : PulseThread(k, t)

\* The JVM runs the threads that can run, sleeps end, and the looper takes what is posted; the
\* server and the user owe nothing.
Spec ==
  /\ Init /\ [][Next]_vars
  /\ WF_vars(DisconnectThreadEnds) /\ WF_vars(Callback) /\ WF_vars(Pulse)
  /\ \A k \in Conns, t \in Threads : WF_vars(PulseThread(k, t))
-----------------------------------------------------------------------------
Alive(k, t) == phase[k][t] \notin L!Dead

PulseTypeOK ==
  /\ at \in [Conns -> [Threads -> {"top", "count", "send", "die", "sleep"}]]
  /\ interrupted \in [Conns -> SUBSET Threads]
  /\ mLoseTimes \in [Conns -> Int] /\ \A k \in Conns : mLoseTimes[k] >= -1
  /\ mPulseManager \in 0..made /\ socket \in 0..made
  /\ mPulseManager # None => ~isDead[mPulseManager]
  /\ unanswered \in [Conns -> 0..MaxUnanswered]
  /\ main.on \in 0..made

\* Threads of the loop that have counted a heartbeat and not yet sent it.
Sending(k) == {t \in Threads : Line(k, t, "send")}

\* The watchdog gives up a connection only after LoseTimes heartbeats in a row that nothing fed,
\* sent or about to be: one answer starts the count again, and two threads of a restarted loop
\* never count the same heartbeat. (A dead heartbeat has no count left to keep.)
DiesOnlyUnfed ==
  [][\A k \in Conns, t \in Threads :
       at'[k][t] = "die" /\ at[k][t] # "die" /\ ~isDead[k]
         => unfed[k] + Cardinality(Sending(k)) >= LoseTimes]_vars

\* A heartbeat that is dead stays dead: its threads end, even when a pulse() the main thread was
\* about to make, on the PulseManager it had got before, starts the loop again.
DeadHeartbeatEnds ==
  \A k \in Conns : <>[]isDead[k] => <>[](\A t \in Threads : ~Alive(k, t))

\* A server that answers no more is noticed: once the heartbeat of a connection has been started,
\* by one pulse(), the connection does not stay up in silence.
SilenceIsNoticed ==
  \A k \in Conns : (pulsed[k] = 1 /\ k \in silent /\ socket = k) ~> (socket # k \/ pulsed[k] > 1)

=============================================================================
