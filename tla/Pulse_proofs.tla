----------------------------- MODULE Pulse_proofs -----------------------------
(***************************************************************************)
(* Safety of the heartbeat for any number of connections and threads, with *)
(* no assumption on the order in which callbacks run: a late one may start *)
(* the heartbeat of the next connection too, and two threads of a          *)
(* restarted loop may count on one counter.  The invariant says what the   *)
(* fields range over, that the manager's own PulseManager is not dead, and *)
(* that no count is ahead of the heartbeats sent or about to be.           *)
(***************************************************************************)
EXTENDS Pulse, FiniteSetTheorems, TLAPS

Lines == {"top", "count", "send", "die", "sleep"}

Typed ==
  /\ thread \in [Conns -> Threads \cup {L!NoThread}]
  /\ phase \in [Conns -> [Threads -> L!Phases]]
  /\ at \in [Conns -> [Threads -> Lines]] /\ interrupted \in [Conns -> SUBSET Threads]
  /\ isDead \in [Conns -> BOOLEAN]
  /\ mLoseTimes \in [Conns -> Int] /\ \A k \in Conns : mLoseTimes[k] >= -1
  /\ unfed \in [Conns -> Nat]
  /\ unanswered \in [Conns -> 0..MaxUnanswered]

\* The manager hands out a PulseManager that is not dead, and dead ones are of connections made.
Owned ==
  /\ made \in 0..MaxConns /\ socket \in 0..made /\ mPulseManager \in 0..made
  /\ \A k \in Conns : isDead[k] => k <= made /\ k # mPulseManager

\* The main thread is inside pulse() of a PulseManager it got.
MainOK ==
  /\ main.on \in 0..made
  /\ main.call # "none" => main.on # None

\* The heartbeats of loop k that nothing fed, sent or about to be.
Behind(k) == unfed[k] + Cardinality(Sending(k))

CountedAt(k) == mLoseTimes[k] < Behind(k) \/ Behind(k) >= LoseTimes

\* Every count has its heartbeat. A dead heartbeat starts again from 0, so it owes none.
Counted == \A k \in Conns : ~isDead[k] => CountedAt(k)

PulseInv == Typed /\ Owned /\ MainOK /\ Counted

\* The type invariant of the model is a part of it.
LEMMA InvTypes == ASSUME PulseInv PROVE PulseTypeOK
  <1>1. mPulseManager # None => mPulseManager \in Conns /\ ~isDead[mPulseManager]
    BY PulseAssumption DEF PulseInv, Typed, Owned, None, Conns
  <1> QED
    BY <1>1 DEF PulseInv, Typed, Owned, MainOK, PulseTypeOK, Lines
-----------------------------------------------------------------------------
(* The count.                                                              *)

LEMMA BehindType ==
  ASSUME Typed, NEW k \in Conns
  PROVE  /\ IsFiniteSet(Sending(k)) /\ Cardinality(Sending(k)) \in Nat
         /\ Behind(k) \in Nat /\ Behind(k) >= unfed[k] /\ unfed[k] \in Nat
         /\ mLoseTimes[k] \in Int /\ LoseTimes \in Int
  <1>1. Sending(k) \subseteq Threads /\ IsFiniteSet(Threads)
    BY PulseAssumption DEF Sending
  <1>2. IsFiniteSet(Sending(k)) /\ Cardinality(Sending(k)) \in Nat
    BY <1>1, FS_Subset, FS_CardinalityType
  <1>3. unfed[k] \in Nat /\ mLoseTimes[k] \in Int /\ LoseTimes \in Int
    BY PulseAssumption DEF Typed
  <1> QED
    BY <1>2, <1>3 DEF Behind

LEMMA BehindTypeNext ==
  ASSUME Typed', NEW k \in Conns
  PROVE  Behind(k)' \in Nat /\ Behind(k)' >= unfed'[k]
  <1>1. Sending(k)' \subseteq Threads /\ IsFiniteSet(Threads)
    BY PulseAssumption DEF Sending
  <1>2. Cardinality(Sending(k)') \in Nat
    BY <1>1, FS_Subset, FS_CardinalityType
  <1>3. unfed'[k] \in Nat
    BY DEF Typed
  <1> QED
    BY <1>2, <1>3 DEF Behind

\* A step that takes nobody from the line before send() keeps the count behind.
LEMMA StillCounted ==
  ASSUME Typed, Typed', NEW k \in Conns, CountedAt(k),
         mLoseTimes'[k] = mLoseTimes[k], unfed'[k] = unfed[k],
         \A t \in Threads : Line(k, t, "send") => Line(k, t, "send")'
  PROVE  CountedAt(k)'
  <1>1. Sending(k) \subseteq Sending(k)' /\ IsFiniteSet(Sending(k)')
    <2>1. Sending(k)' \subseteq Threads /\ IsFiniteSet(Threads)
      BY PulseAssumption DEF Sending
    <2>2. Sending(k) \subseteq Sending(k)'
      BY DEF Sending
    <2> QED
      BY <2>1, <2>2, FS_Subset
  <1>2. /\ Cardinality(Sending(k)) <= Cardinality(Sending(k)')
        /\ Cardinality(Sending(k)) \in Nat /\ Cardinality(Sending(k)') \in Nat
    BY <1>1, FS_Subset, FS_CardinalityType
  <1>3. unfed[k] \in Nat /\ mLoseTimes[k] \in Int /\ LoseTimes \in Int
    BY BehindType
  <1>4. /\ Behind(k) = unfed[k] + Cardinality(Sending(k))
        /\ Behind(k)' = unfed[k] + Cardinality(Sending(k)')
    BY DEF Behind
  <1>5. mLoseTimes[k] < Behind(k) \/ Behind(k) >= LoseTimes
    BY DEF CountedAt
  <1>6. mLoseTimes[k] < Behind(k)' \/ Behind(k)' >= LoseTimes
    BY <1>2, <1>3, <1>4, <1>5
  <1> QED
    BY <1>6 DEF CountedAt

\* No step but those of the threads moves a thread of the body or ends a heartbeat.
LEMMA StillAllCounted ==
  ASSUME Typed, Typed', Counted, UNCHANGED <<mLoseTimes, unfed>>,
         \A k \in Conns : isDead[k] => isDead'[k],
         \A k \in Conns, t \in Threads : Line(k, t, "send") => Line(k, t, "send")'
  PROVE  Counted'
  <1> SUFFICES ASSUME NEW k \in Conns, ~isDead'[k] PROVE CountedAt(k)'
    BY DEF Counted
  <1>1. CountedAt(k)
    BY DEF Counted
  <1> QED
    BY <1>1, StillCounted
-----------------------------------------------------------------------------
(* The methods.                                                            *)

\* shutdown() of a heartbeat forgets its thread and interrupts it.
LEMMA PrivateDeadEffect ==
  ASSUME Typed, NEW k \in Conns, privateDead(k)
  PROVE  /\ thread' \in [Conns -> Threads \cup {L!NoThread}]
         /\ interrupted' \in [Conns -> SUBSET Threads]
  <1>1. thread[k] \in Threads \cup {L!NoThread} /\ interrupted[k] \in SUBSET Threads
    BY DEF Typed
  <1>2. interrupted[k] \cup ({thread[k]} \ {L!NoThread}) \in SUBSET Threads
    BY <1>1
  <1>3. interrupted' \in [Conns -> SUBSET Threads]
    BY <1>2 DEF privateDead, Typed
  <1>4. thread' \in [Conns -> Threads \cup {L!NoThread}]
    BY DEF privateDead, Typed, L!StopFlags
  <1> QED
    BY <1>3, <1>4

\* disconnect(e) ends the PulseManager the manager has, and touches no other.
LEMMA DisconnectEffect ==
  ASSUME Typed, Owned, disconnect
  PROVE  /\ thread' \in [Conns -> Threads \cup {L!NoThread}]
         /\ interrupted' \in [Conns -> SUBSET Threads]
         /\ UNCHANGED <<phase, made, socket, unfed>>
         /\ isDead' \in [Conns -> BOOLEAN]
         /\ mLoseTimes' \in [Conns -> Int] /\ \A k \in Conns : mLoseTimes'[k] >= -1
         /\ mPulseManager' \in 0..made
         /\ \A k \in Conns : isDead'[k] => k <= made /\ k # mPulseManager'
         /\ \A k \in Conns : (isDead[k] => isDead'[k])
                             /\ (isDead'[k] \/ mLoseTimes'[k] = mLoseTimes[k])
  <1>1. CASE isDisconnecting
    BY <1>1 DEF disconnect, Owned, Typed, loopVars
  <1>2. CASE ~isDisconnecting /\ mPulseManager = None
    <2>1. /\ UNCHANGED <<loopVars, interrupted, isDead, mLoseTimes, unfed, made, socket>>
          /\ mPulseManager' = None
      BY <1>2 DEF disconnect, GivesUp
    <2>2. 0 \in 0..made
      BY PulseAssumption DEF Owned
    <2> QED
      BY <1>2, <2>1, <2>2 DEF Owned, Typed, loopVars, None
  <1>3. CASE ~isDisconnecting /\ mPulseManager # None
    <2> DEFINE m == mPulseManager
    <2>1. m \in Conns /\ m <= made /\ m # 0
      BY <1>3, PulseAssumption DEF Owned, None, Conns
    <2>2. dead(m) /\ UNCHANGED <<phase, made, socket>> /\ mPulseManager' = None
      BY <1>3 DEF disconnect, GivesUp
    <2>3. /\ isDead' = [isDead EXCEPT ![m] = TRUE] /\ mLoseTimes' = [mLoseTimes EXCEPT ![m] = 0]
          /\ privateDead(m) /\ unfed' = unfed
      BY <2>2 DEF dead
    <2>4. /\ isDead \in [Conns -> BOOLEAN] /\ mLoseTimes \in [Conns -> Int]
          /\ \A k \in Conns : mLoseTimes[k] >= -1
          /\ \A k \in Conns : isDead[k] => k <= made
          /\ 0 \in 0..made /\ \A k \in Conns : k # 0
      BY PulseAssumption DEF Typed, Owned, Conns
    <2> HIDE DEF m
    <2>5. /\ isDead' \in [Conns -> BOOLEAN]
          /\ \A k \in Conns : isDead'[k] <=> (k = m \/ isDead[k])
      BY <2>1, <2>3, <2>4
    <2>6. /\ mLoseTimes' \in [Conns -> Int]
          /\ \A k \in Conns : mLoseTimes'[k] = IF k = m THEN 0 ELSE mLoseTimes[k]
      BY <2>1, <2>3, <2>4
    <2>7. /\ thread' \in [Conns -> Threads \cup {L!NoThread}]
          /\ interrupted' \in [Conns -> SUBSET Threads]
      BY <2>1, <2>3, PrivateDeadEffect
    <2>8. \A k \in Conns : mLoseTimes'[k] >= -1
      BY <2>4, <2>6
    <2>9. \A k \in Conns : isDead'[k] => k <= made /\ k # mPulseManager'
      BY <2>1, <2>2, <2>4, <2>5 DEF None
    <2> QED
      BY <2>2, <2>3, <2>4, <2>5, <2>6, <2>7, <2>8, <2>9 DEF None
  <1> QED
    BY <1>1, <1>2, <1>3

\* What disconnect(e) leaves of the invariant, whichever thread is in it.
LEMMA DisconnectCounted ==
  ASSUME Typed, Typed', Owned, Counted, disconnect,
         \A k \in Conns, t \in Threads : Line(k, t, "send") => Line(k, t, "send")'
  PROVE  Counted'
  <1> SUFFICES ASSUME NEW k \in Conns, ~isDead'[k] PROVE CountedAt(k)'
    BY DEF Counted
  <1>1. ~isDead[k] /\ mLoseTimes'[k] = mLoseTimes[k] /\ unfed'[k] = unfed[k]
    BY DisconnectEffect
  <1>2. CountedAt(k)
    BY <1>1 DEF Counted
  <1> QED
    BY <1>1, <1>2, StillCounted
-----------------------------------------------------------------------------
(* The steps of the manager, the server and the main thread.               *)

\* At first there is no connection.
LEMMA InitPulse == Init => PulseInv
  <1> SUFFICES ASSUME Init PROVE PulseInv
    OBVIOUS
  <1>1. Typed
    BY PulseAssumption DEF Init, L!Init, Typed, Lines, L!Phases, L!Dead
  <1>2. Owned /\ MainOK
    BY PulseAssumption DEF Init, Owned, MainOK, Idle, None
  <1>3. Counted
    <2> SUFFICES ASSUME NEW k \in Conns PROVE mLoseTimes[k] < Behind(k)
      BY DEF Counted, CountedAt
    <2>1. Behind(k) \in Nat /\ mLoseTimes[k] = -1
      BY <1>1, BehindType DEF Init
    <2> QED
      BY <2>1
  <1> QED
    BY <1>1, <1>2, <1>3 DEF PulseInv

\* A new connection has a PulseManager of its own.
LEMMA ConnectKeeps == ASSUME PulseInv, Connect PROVE PulseInv'
  <1>1. /\ made < MaxConns /\ made' = made + 1 /\ socket' = made + 1 /\ mPulseManager' = made + 1
        /\ UNCHANGED <<loopVars, bodyVars, isDead, mLoseTimes, serverVars, main, unfed>>
    BY DEF Connect
  <1>2. Typed /\ Owned /\ MainOK /\ Counted
    BY DEF PulseInv
  <1>3. Typed'
    BY <1>1, <1>2 DEF Typed, loopVars, bodyVars, serverVars
  <1>4. Owned' /\ MainOK'
    BY <1>1, <1>2, PulseAssumption DEF Owned, MainOK, Conns
  <1>5. Counted'
    BY <1>1, <1>2, <1>3, StillAllCounted DEF Line, loopVars, bodyVars
  <1> QED
    BY <1>3, <1>4, <1>5 DEF PulseInv

LEMMA DisconnectKeeps == ASSUME PulseInv, Disconnect PROVE PulseInv'
  <1>1. disconnect /\ UNCHANGED <<at, serverVars, mainVars>>
    BY DEF Disconnect
  <1>2. Typed /\ Owned /\ MainOK /\ Counted
    BY DEF PulseInv
  <1>3. Typed'
    BY <1>1, <1>2, DisconnectEffect DEF Typed, serverVars
  <1>4. Owned' /\ MainOK'
    BY <1>1, <1>2, DisconnectEffect DEF Owned, MainOK, mainVars
  <1>5. \A k \in Conns, t \in Threads : Line(k, t, "send") => Line(k, t, "send")'
    BY <1>1, <1>2, DisconnectEffect DEF Line
  <1>6. Counted'
    BY <1>1, <1>2, <1>3, <1>5, DisconnectCounted
  <1> QED
    BY <1>3, <1>4, <1>6 DEF PulseInv

LEMMA DisconnectEndsKeeps == ASSUME PulseInv, DisconnectThreadEnds PROVE PulseInv'
  <1>1. /\ socket' = None
        /\ UNCHANGED <<loopVars, bodyVars, isDead, mLoseTimes, mPulseManager, made, serverVars,
                       mainVars, unfed>>
    BY DEF DisconnectThreadEnds
  <1>2. Typed /\ Owned /\ MainOK /\ Counted
    BY DEF PulseInv
  <1>3. Typed'
    BY <1>1, <1>2 DEF Typed, loopVars, bodyVars, serverVars
  <1>4. Owned' /\ MainOK'
    BY <1>1, <1>2, PulseAssumption DEF Owned, MainOK, None, mainVars
  <1>5. Counted'
    BY <1>1, <1>2, <1>3, StillAllCounted DEF Line, loopVars, bodyVars
  <1> QED
    BY <1>3, <1>4, <1>5 DEF PulseInv

LEMMA ServerKeeps == ASSUME PulseInv, Server PROVE PulseInv'
  <1>1. UNCHANGED <<loopVars, bodyVars, isDead, mLoseTimes, managerVars, main, unfed>>
    BY DEF Server
  <1>2. Typed /\ Owned /\ MainOK /\ Counted
    BY DEF PulseInv
  <1>3. unanswered' \in [Conns -> 0..MaxUnanswered]
    <2>1. PICK k \in Conns : \/ unanswered' = unanswered
                             \/ /\ unanswered[k] > 0
                                /\ unanswered' = [unanswered EXCEPT ![k] = @ - 1]
      BY DEF Server
    <2>2. unanswered[k] \in 0..MaxUnanswered
      BY <1>2 DEF Typed
    <2>3. unanswered[k] > 0 => unanswered[k] - 1 \in 0..MaxUnanswered
      BY <2>2, PulseAssumption
    <2> QED
      BY <1>2, <2>1, <2>3 DEF Typed
  <1>4. Typed'
    BY <1>1, <1>2, <1>3 DEF Typed, loopVars, bodyVars
  <1>5. Owned' /\ MainOK'
    BY <1>1, <1>2 DEF Owned, MainOK, managerVars
  <1>6. Counted'
    BY <1>1, <1>2, <1>4, StillAllCounted DEF Line, loopVars, bodyVars
  <1> QED
    BY <1>4, <1>5, <1>6 DEF PulseInv

\* feed() starts both counts again.
LEMMA FeedCounts ==
  ASSUME Typed, Counted, NEW k \in Conns, feed(k)
  PROVE  /\ mLoseTimes' \in [Conns -> Int] /\ \A j \in Conns : mLoseTimes'[j] >= -1
         /\ unfed' \in [Conns -> Nat]
         /\ UNCHANGED <<loopVars, bodyVars, isDead>>
         /\ Typed' => Counted'
  <1>1. /\ mLoseTimes' = [mLoseTimes EXCEPT ![k] = -1] /\ unfed' = [unfed EXCEPT ![k] = 0]
        /\ UNCHANGED <<loopVars, bodyVars, isDead>>
    BY DEF feed
  <1>2. /\ mLoseTimes' \in [Conns -> Int] /\ \A j \in Conns : mLoseTimes'[j] >= -1
        /\ unfed' \in [Conns -> Nat]
    BY <1>1 DEF Typed
  <1>3. ASSUME Typed' PROVE Counted'
    <2> SUFFICES ASSUME NEW j \in Conns, ~isDead[j] PROVE CountedAt(j)'
      BY <1>1 DEF Counted
    <2>1. CASE j = k
      <3>1. mLoseTimes'[j] = -1
        BY <1>1, <2>1 DEF Typed
      <3>2. Behind(j)' \in Nat
        BY <1>3, BehindTypeNext
      <3> QED
        BY <3>1, <3>2 DEF CountedAt
    <2>2. CASE j # k
      <3>1. mLoseTimes'[j] = mLoseTimes[j] /\ unfed'[j] = unfed[j]
        BY <1>1, <2>2 DEF Typed
      <3>2. CountedAt(j)
        BY DEF Counted
      <3> QED
        BY <1>1, <1>3, <3>1, <3>2, StillCounted DEF Line, loopVars, bodyVars
    <2> QED
      BY <2>1, <2>2
  <1> QED
    BY <1>1, <1>2, <1>3

LEMMA CallbackKeeps == ASSUME PulseInv, Callback PROVE PulseInv'
  <1>1. UNCHANGED managerVars /\ unanswered' = unanswered
    BY DEF Callback
  <1>2. Typed /\ Owned /\ MainOK /\ Counted
    BY DEF PulseInv
  <1>3. mPulseManager # None => mPulseManager \in Conns
    BY <1>2, PulseAssumption DEF Owned, None, Conns
  <1>4. CASE OnSuccess \/ OnKey
    <2>1. UNCHANGED <<loopVars, bodyVars, isDead, mLoseTimes, unfed>>
      BY <1>4 DEF OnSuccess, OnKey, setPulseSendable
    <2>2. Typed'
      BY <1>1, <1>2, <2>1 DEF Typed, loopVars, bodyVars
    <2>3. Counted'
      BY <1>2, <2>1, <2>2, StillAllCounted DEF Line, loopVars, bodyVars
    <2>4. Owned'
      BY <1>1, <1>2, <2>1 DEF Owned, managerVars
    <2>5. MainOK'
      <3>1. CASE OnSuccess
        BY <1>1, <1>2, <3>1 DEF OnSuccess, MainOK, managerVars
      <3>2. CASE OnKey
        <4>1. CASE mPulseManager = None
          <5>1. main' = Idle
            BY <3>2, <4>1 DEF OnKey
          <5> QED
            BY <1>1, <1>2, <5>1, PulseAssumption DEF MainOK, Owned, Idle, None, managerVars
        <4>2. CASE mPulseManager # None
          <5>1. main' = [call |-> "pulse", on |-> mPulseManager]
            BY <3>2, <4>2 DEF OnKey
          <5>2. main'.on = mPulseManager
            BY <5>1
          <5> QED
            BY <1>1, <1>2, <4>2, <5>2 DEF MainOK, Owned, managerVars
        <4> QED
          BY <4>1, <4>2
      <3> QED
        BY <1>4, <3>1, <3>2
    <2> QED
      BY <2>2, <2>3, <2>4, <2>5 DEF PulseInv
  <1>5. CASE OnCommOK
    <2>1. main' = main
      BY <1>5 DEF OnCommOK
    <2>2. CASE mPulseManager = None
      <3>1. UNCHANGED <<loopVars, bodyVars, isDead, mLoseTimes, unfed>>
        BY <1>5, <2>2 DEF OnCommOK
      <3>2. Typed' /\ Owned' /\ MainOK'
        BY <1>1, <1>2, <2>1, <3>1 DEF Typed, Owned, MainOK, loopVars, bodyVars, managerVars
      <3>3. Counted'
        BY <1>2, <3>1, <3>2, StillAllCounted DEF Line, loopVars, bodyVars
      <3> QED
        BY <3>2, <3>3 DEF PulseInv
    <2>3. CASE mPulseManager # None
      <3>1. feed(mPulseManager) /\ mPulseManager \in Conns
        BY <1>3, <1>5, <2>3 DEF OnCommOK
      <3>2. /\ mLoseTimes' \in [Conns -> Int] /\ \A j \in Conns : mLoseTimes'[j] >= -1
            /\ unfed' \in [Conns -> Nat]
            /\ UNCHANGED <<loopVars, bodyVars, isDead>> /\ (Typed' => Counted')
        BY <1>2, <3>1, FeedCounts
      <3>3. Typed' /\ Owned' /\ MainOK'
        BY <1>1, <1>2, <2>1, <3>2 DEF Typed, Owned, MainOK, loopVars, bodyVars, managerVars
      <3> QED
        BY <3>2, <3>3 DEF PulseInv
    <2> QED
      BY <2>2, <2>3
  <1> QED
    BY <1>4, <1>5 DEF Callback

\* pulse() makes a thread, or lets the one there is go on.
LEMMA PulseKeeps == ASSUME PulseInv, Pulse PROVE PulseInv'
  <1>1. UNCHANGED <<managerVars, serverVars>>
    BY DEF Pulse
  <1>2. Typed /\ Owned /\ MainOK /\ Counted
    BY DEF PulseInv
  <1> DEFINE k == main.on
  <1>3. k \in Conns
    BY <1>2, PulseAssumption DEF Pulse, MainOK, Owned, Conns, None
  <1>4. CASE main.call = "pulse" /\ PulseStops(k) /\ main' = [main EXCEPT !.call = "restart"]
    <2>1. privateDead(k) /\ UNCHANGED <<phase, at, isDead, mLoseTimes, unfed>>
      BY <1>4 DEF PulseStops
    <2>2. Typed'
      BY <1>1, <1>2, <1>3, <2>1, PrivateDeadEffect DEF Typed, serverVars
    <2>3. Owned'
      BY <1>1, <1>2, <2>1 DEF Owned, managerVars
    <2>4. MainOK'
      <3>1. main'.on = main.on
        BY <1>4
      <3> QED
        BY <1>1, <1>2, <1>4, <3>1 DEF MainOK, managerVars
    <2>5. Counted'
      BY <1>2, <2>1, <2>2, StillAllCounted DEF Line
    <2> QED
      BY <2>2, <2>3, <2>4, <2>5 DEF PulseInv
  <1>5. CASE PulseRestarts(k) /\ main' = Idle
    <2>1. UNCHANGED <<bodyVars, isDead, mLoseTimes, unfed>>
      BY <1>5 DEF PulseRestarts
    <2>2. \/ UNCHANGED <<thread, phase>>
          \/ \E u \in Threads : /\ phase[k][u] \in L!Dead
                                /\ thread' = [thread EXCEPT ![k] = u]
                                /\ phase' = [phase EXCEPT ![k][u] = "started"]
      BY <1>5 DEF PulseRestarts, loopVars, L!Start, L!To
    <2>3. /\ thread' \in [Conns -> Threads \cup {L!NoThread}]
          /\ phase' \in [Conns -> [Threads -> L!Phases]]
          /\ \A j \in Conns, u \in Threads : phase[j][u] = "body" => phase'[j][u] = "body"
      <3>1. CASE UNCHANGED <<thread, phase>>
        BY <1>2, <3>1 DEF Typed
      <3>2. ASSUME NEW u \in Threads, phase[k][u] \in L!Dead, thread' = [thread EXCEPT ![k] = u],
                   phase' = [phase EXCEPT ![k][u] = "started"]
            PROVE  /\ thread' \in [Conns -> Threads \cup {L!NoThread}]
                   /\ phase' \in [Conns -> [Threads -> L!Phases]]
                   /\ \A j \in Conns, w \in Threads : phase[j][w] = "body" => phase'[j][w] = "body"
        <4> HIDE DEF k
        <4>1. "started" \in L!Phases /\ phase[k][u] # "body"
          BY <3>2 DEF L!Phases, L!Dead
        <4> QED
          BY <1>2, <1>3, <3>2, <4>1 DEF Typed
      <3> QED
        BY <2>2, <3>1, <3>2
    <2>4. Typed'
      BY <1>1, <1>2, <2>1, <2>3 DEF Typed, serverVars, bodyVars
    <2>5. Owned'
      BY <1>1, <1>2, <2>1 DEF Owned, managerVars
    <2>6. MainOK'
      BY <1>1, <1>2, <1>5, PulseAssumption DEF MainOK, Owned, Idle, None, managerVars
    <2>7. \A j \in Conns, u \in Threads : Line(j, u, "send") => Line(j, u, "send")'
      BY <2>1, <2>3 DEF Line, bodyVars
    <2>8. Counted'
      BY <1>2, <2>1, <2>4, <2>7, StillAllCounted
    <2> QED
      BY <2>4, <2>5, <2>6, <2>8 DEF PulseInv
  <1> QED
    BY <1>4, <1>5 DEF Pulse
-----------------------------------------------------------------------------
(* The threads of a heartbeat.                                             *)

\* What a step of a thread leaves to be shown: it changes neither the manager nor the main thread.
LEMMA ThreadFrame ==
  ASSUME PulseInv, UNCHANGED <<isDead, managerVars, mainVars>>
  PROVE  Owned' /\ MainOK'
  BY DEF PulseInv, Owned, MainOK, managerVars, mainVars

\* A step that is not at the line before send() takes nobody else from it.
LEMMA OthersSend ==
  ASSUME Typed, NEW k \in Conns, NEW t \in Threads, ~Line(k, t, "send"),
         \A j \in Conns, u \in Threads :
           j # k \/ u # t => phase'[j][u] = phase[j][u] /\ at'[j][u] = at[j][u]
  PROVE  \A j \in Conns, u \in Threads : Line(j, u, "send") => Line(j, u, "send")'
  BY DEF Line

LEMMA TestDeadKeeps ==
  ASSUME PulseInv, NEW k \in Conns, NEW t \in Threads, TestDead(k, t),
         UNCHANGED <<isDead, mLoseTimes, mSendable, managerVars, serverVars, mainVars, unfed>>
  PROVE  PulseInv'
  <1>1. phase[k][t] = "body" /\ at[k][t] = "top" /\ ~Line(k, t, "send")
    BY DEF TestDead, Line
  <1>2. Typed /\ Counted
    BY DEF PulseInv
  <1>3. CASE privateDead(k) /\ L!To(k, t, "loop") /\ UNCHANGED at
    <2>1. phase' = [phase EXCEPT ![k][t] = "loop"]
      BY <1>3 DEF L!To
    <2>2. /\ phase' \in [Conns -> [Threads -> L!Phases]]
          /\ \A j \in Conns, u \in Threads : j # k \/ u # t => phase'[j][u] = phase[j][u]
      BY <1>2, <2>1 DEF Typed, L!Phases, L!Running
    <2>3. Typed'
      BY <1>2, <1>3, <2>2, PrivateDeadEffect DEF Typed, serverVars
    <2>4. \A j \in Conns, u \in Threads : Line(j, u, "send") => Line(j, u, "send")'
      BY <1>1, <1>2, <1>3, <2>2, OthersSend
    <2> QED
      BY <1>2, <2>3, <2>4, StillAllCounted, ThreadFrame DEF PulseInv
  <1>4. CASE /\ GoTo(k, t, IF mSendable[k] THEN "count" ELSE "sleep")
             /\ UNCHANGED <<loopVars, interrupted>>
    <2>1. PICK line \in {"count", "sleep"} : at' = [at EXCEPT ![k][t] = line]
      BY <1>4 DEF GoTo
    <2>2. /\ at' \in [Conns -> [Threads -> Lines]]
          /\ \A j \in Conns, u \in Threads : j # k \/ u # t => at'[j][u] = at[j][u]
      BY <1>2, <2>1 DEF Typed, Lines
    <2>3. Typed'
      BY <1>2, <1>4, <2>2 DEF Typed, serverVars, loopVars
    <2>4. \A j \in Conns, u \in Threads : Line(j, u, "send") => Line(j, u, "send")'
      BY <1>1, <1>2, <1>4, <2>2, OthersSend DEF loopVars
    <2> QED
      BY <1>2, <2>3, <2>4, StillAllCounted, ThreadFrame DEF PulseInv
  <1> QED
    BY <1>3, <1>4 DEF TestDead

LEMMA WakeKeeps ==
  ASSUME PulseInv, NEW k \in Conns, NEW t \in Threads, Wake(k, t),
         UNCHANGED <<isDead, mLoseTimes, mSendable, managerVars, serverVars, mainVars, unfed>>
  PROVE  PulseInv'
  <1>1. /\ ~Line(k, t, "send") /\ at' = [at EXCEPT ![k][t] = "top"]
        /\ interrupted' = [interrupted EXCEPT ![k] = @ \ {t}]
    BY DEF Wake, Line, GoTo
  <1>2. /\ UNCHANGED thread
        /\ \E p \in {"loop", "failing"} : phase' = [phase EXCEPT ![k][t] = p]
    BY DEF Wake, L!BodyReturns, L!BodyThrows, L!To
  <1>3. Typed /\ Counted
    BY DEF PulseInv
  <1>4. /\ phase' \in [Conns -> [Threads -> L!Phases]]
        /\ \A j \in Conns, u \in Threads : j # k \/ u # t => phase'[j][u] = phase[j][u]
    BY <1>2, <1>3 DEF Typed, L!Phases, L!Running
  <1>5. /\ at' \in [Conns -> [Threads -> Lines]]
        /\ \A j \in Conns, u \in Threads : j # k \/ u # t => at'[j][u] = at[j][u]
    BY <1>1, <1>3 DEF Typed, Lines
  <1>6. interrupted' \in [Conns -> SUBSET Threads]
    <2>1. interrupted[k] \ {t} \in SUBSET Threads
      BY <1>3 DEF Typed
    <2> QED
      BY <1>1, <1>3, <2>1 DEF Typed
  <1>7. Typed'
    BY <1>2, <1>3, <1>4, <1>5, <1>6 DEF Typed, serverVars
  <1>8. \A j \in Conns, u \in Threads : Line(j, u, "send") => Line(j, u, "send")'
    BY <1>1, <1>3, <1>4, <1>5, OthersSend
  <1> QED
    BY <1>3, <1>7, <1>8, StillAllCounted, ThreadFrame DEF PulseInv

LEMMA LoopKeeps ==
  ASSUME PulseInv, NEW k \in Conns, NEW t \in Threads, Loop(k, t),
         UNCHANGED <<isDead, mLoseTimes, mSendable, managerVars, serverVars, mainVars, unfed>>
  PROVE  PulseInv'
  <1>1. /\ at' = at /\ thread' = thread
        /\ interrupted' = [interrupted EXCEPT ![k] =
                             IF phase[k][t] \in {"closing", "closing_failed"} THEN @ \ {t} ELSE @]
    BY DEF Loop, L!Enter, L!TestStop, L!MarkShutdown, L!Finish
  <1>2. phase[k][t] # "body" /\ \E p \in L!Phases : phase' = [phase EXCEPT ![k][t] = p]
    BY DEF Loop, L!Enter, L!TestStop, L!MarkShutdown, L!Finish, L!To, L!Phases, L!Running, L!Dead
  <1>3. Typed /\ Counted
    BY DEF PulseInv
  <1>4. /\ phase' \in [Conns -> [Threads -> L!Phases]]
        /\ \A j \in Conns, u \in Threads : j # k \/ u # t => phase'[j][u] = phase[j][u]
    BY <1>2, <1>3 DEF Typed
  <1>5. interrupted' \in [Conns -> SUBSET Threads]
    <2>1. interrupted[k] \ {t} \in SUBSET Threads /\ interrupted[k] \in SUBSET Threads
      BY <1>3 DEF Typed
    <2> QED
      BY <1>1, <1>3, <2>1 DEF Typed
  <1>6. Typed'
    BY <1>1, <1>3, <1>4, <1>5 DEF Typed, serverVars
  <1>7. ~Line(k, t, "send")
    BY <1>2 DEF Line
  <1>8. \A j \in Conns, u \in Threads : Line(j, u, "send") => Line(j, u, "send")'
    BY <1>1, <1>3, <1>4, <1>7, OthersSend
  <1> QED
    BY <1>3, <1>6, <1>8, StillAllCounted, ThreadFrame DEF PulseInv

\* A thread that counts goes on to send what it has counted, or gives up.
LEMMA CountKeeps ==
  ASSUME PulseInv, NEW k \in Conns, NEW t \in Threads, Count(k, t),
         UNCHANGED <<loopVars, interrupted, isDead, mSendable, managerVars, serverVars, mainVars,
                     unfed>>
  PROVE  PulseInv'
  <1>1. Typed /\ Counted
    BY DEF PulseInv
  <1>2. phase[k][t] = "body" /\ at[k][t] = "count"
    BY DEF Count, Line
  <1>3. mLoseTimes \in [Conns -> Int] /\ mLoseTimes[k] \in Int /\ mLoseTimes[k] >= -1
        /\ LoseTimes \in Int /\ at \in [Conns -> [Threads -> Lines]]
    BY <1>1, PulseAssumption DEF Typed
  <1>4. PICK m \in Int, line \in {"send", "die"} :
          /\ mLoseTimes' = [mLoseTimes EXCEPT ![k] = m]
          /\ at' = [at EXCEPT ![k][t] = line]
          /\ m = mLoseTimes[k] \/ m = mLoseTimes[k] + 1
          /\ line = "die" => m = mLoseTimes[k] + 1 /\ m >= LoseTimes
    <2>1. CASE LoseTimes = -1
      <3>1. mLoseTimes' = mLoseTimes /\ at' = [at EXCEPT ![k][t] = "send"]
        BY <2>1 DEF Count, GoTo
      <3>2. mLoseTimes' = [mLoseTimes EXCEPT ![k] = mLoseTimes[k]]
        BY <1>3, <3>1
      <3> QED
        BY <1>3, <3>1, <3>2
    <2>2. CASE LoseTimes # -1
      <3>1. /\ mLoseTimes' = [mLoseTimes EXCEPT ![k] = mLoseTimes[k] + 1]
            /\ at' = [at EXCEPT ![k][t] = IF mLoseTimes'[k] >= LoseTimes THEN "die" ELSE "send"]
        BY <2>2 DEF Count, GoTo
      <3>2. mLoseTimes'[k] = mLoseTimes[k] + 1
        BY <1>3, <3>1
      <3> DEFINE n == mLoseTimes[k] + 1
      <3>3. n \in Int /\ mLoseTimes' = [mLoseTimes EXCEPT ![k] = n]
        BY <1>3, <3>1
      <3>4. CASE n >= LoseTimes
        <4>1. at' = [at EXCEPT ![k][t] = "die"]
          BY <3>1, <3>2, <3>4
        <4> QED
          BY <3>3, <3>4, <4>1
      <3>5. CASE ~(n >= LoseTimes)
        <4>1. at' = [at EXCEPT ![k][t] = "send"]
          BY <3>1, <3>2, <3>5
        <4> QED
          BY <3>3, <4>1
      <3> QED
        BY <3>4, <3>5
    <2> QED
      BY <2>1, <2>2
  <1>5. /\ mLoseTimes' \in [Conns -> Int] /\ mLoseTimes'[k] = m /\ m >= -1
        /\ \A j \in Conns : j # k => mLoseTimes'[j] = mLoseTimes[j]
    BY <1>3, <1>4
  <1>6. /\ at' \in [Conns -> [Threads -> Lines]] /\ at'[k][t] = line
        /\ \A j \in Conns, u \in Threads : j # k \/ u # t => at'[j][u] = at[j][u]
    BY <1>3, <1>4 DEF Lines
  <1>7. \A j \in Conns : mLoseTimes'[j] >= -1
    BY <1>1, <1>5 DEF Typed
  <1>8. Typed'
    BY <1>1, <1>5, <1>6, <1>7 DEF Typed, serverVars, loopVars
  <1>9. Counted'
    <2> SUFFICES ASSUME NEW j \in Conns, ~isDead[j] PROVE CountedAt(j)'
      BY DEF Counted
    <2>1. CountedAt(j)
      BY <1>1 DEF Counted
    <2>2. CASE j # k
      BY <1>1, <1>5, <1>6, <1>8, <2>1, <2>2, StillCounted DEF Line, loopVars
    <2>3. CASE j = k /\ line = "send"
      <3>1. Sending(k)' = Sending(k) \cup {t} /\ t \notin Sending(k)
        BY <1>2, <1>6, <2>3 DEF Sending, Line, loopVars
      <3>2. /\ Behind(k) \in Nat /\ IsFiniteSet(Sending(k)) /\ Cardinality(Sending(k)) \in Nat
            /\ unfed[k] \in Nat
        BY <1>1, BehindType
      <3>3. Cardinality(Sending(k)') = Cardinality(Sending(k)) + 1
        BY <3>1, <3>2, FS_AddElement
      <3>4. Behind(k)' = Behind(k) + 1
        BY <3>2, <3>3 DEF Behind
      <3>5. mLoseTimes[k] < Behind(k) \/ Behind(k) >= LoseTimes
        BY <2>1, <2>3 DEF CountedAt
      <3>6. mLoseTimes'[k] < Behind(k)' \/ Behind(k)' >= LoseTimes
        BY <1>3, <1>4, <1>5, <3>2, <3>4, <3>5
      <3> QED
        BY <2>3, <3>6 DEF CountedAt
    <2>4. CASE j = k /\ line = "die"
      <3>1. Sending(k)' = Sending(k)
        BY <1>2, <1>6, <2>4 DEF Sending, Line, loopVars
      <3>2. Behind(k)' = Behind(k) /\ Behind(k) \in Nat
        BY <1>1, <3>1, BehindType DEF Behind
      <3>3. mLoseTimes[k] < Behind(k) \/ Behind(k) >= LoseTimes
        BY <2>1, <2>4 DEF CountedAt
      <3>4. Behind(k)' >= LoseTimes
        BY <1>3, <1>4, <2>4, <3>2, <3>3
      <3> QED
        BY <2>4, <3>4 DEF CountedAt
    <2> QED
      BY <2>2, <2>3, <2>4
  <1> QED
    BY <1>8, <1>9, ThreadFrame DEF PulseInv

\* What was about to be sent is sent.
LEMMA SendKeeps ==
  ASSUME PulseInv, NEW k \in Conns, NEW t \in Threads, Send(k, t),
         UNCHANGED <<loopVars, interrupted, isDead, mSendable, managerVars, exchanging, silent,
                     mainVars>>
  PROVE  PulseInv'
  <1> DEFINE f == unfed[k]
             g == IF f < LoseTimes THEN f + 1 ELSE f
  <1>1. Typed /\ Counted
    BY DEF PulseInv
  <1>2. /\ phase[k][t] = "body" /\ at[k][t] = "send" /\ at' = [at EXCEPT ![k][t] = "sleep"]
        /\ unfed' = [unfed EXCEPT ![k] = g] /\ mLoseTimes' = mLoseTimes
        /\ unanswered' = [c \in Conns |-> IF c = socket /\ unanswered[c] < MaxUnanswered
                                          THEN unanswered[c] + 1 ELSE unanswered[c]]
    BY <1>1 DEF Send, Line, GoTo, Typed
  <1>3. /\ at' \in [Conns -> [Threads -> Lines]] /\ at'[k][t] = "sleep"
        /\ \A j \in Conns, u \in Threads : j # k \/ u # t => at'[j][u] = at[j][u]
    BY <1>1, <1>2 DEF Typed, Lines
  <1>4. f \in Nat /\ LoseTimes \in Int /\ g \in Nat /\ unfed \in [Conns -> Nat]
    BY <1>1, PulseAssumption DEF Typed
  <1>5. /\ unfed' \in [Conns -> Nat] /\ unfed'[k] = g
        /\ \A j \in Conns : j # k => unfed'[j] = unfed[j]
    <2> HIDE DEF f, g
    <2> QED
      BY <1>2, <1>4
  <1>6. unanswered' \in [Conns -> 0..MaxUnanswered]
    <2>1. \A c \in Conns : unanswered[c] \in 0..MaxUnanswered
      BY <1>1 DEF Typed
    <2>2. \A c \in Conns : (IF c = socket /\ unanswered[c] < MaxUnanswered
                            THEN unanswered[c] + 1 ELSE unanswered[c]) \in 0..MaxUnanswered
      BY <2>1, PulseAssumption
    <2> QED
      BY <1>2, <2>2
  <1>7. Typed'
    BY <1>1, <1>2, <1>3, <1>5, <1>6 DEF Typed, loopVars
  <1>8. Counted'
    <2> SUFFICES ASSUME NEW j \in Conns, ~isDead[j] PROVE CountedAt(j)'
      BY DEF Counted
    <2>1. CountedAt(j)
      BY <1>1 DEF Counted
    <2>2. CASE j # k
      BY <1>1, <1>2, <1>3, <1>5, <1>7, <2>1, <2>2, StillCounted DEF Line, loopVars
    <2>3. CASE j = k
      <3>1. Sending(k)' = Sending(k) \ {t} /\ t \in Sending(k)
        BY <1>2, <1>3 DEF Sending, Line, loopVars
      <3>2. /\ Behind(k) \in Nat /\ IsFiniteSet(Sending(k)) /\ Cardinality(Sending(k)) \in Nat
        BY <1>1, BehindType
      <3>3. Cardinality(Sending(k)') = Cardinality(Sending(k)) - 1
        BY <3>1, <3>2, FS_RemoveElement
      <3>4. Behind(k)' = g + Cardinality(Sending(k)) - 1 /\ Behind(k)' \in Nat
            /\ Behind(k) = f + Cardinality(Sending(k)) /\ Behind(k)' >= g
        <4>1. Behind(k)' = unfed'[k] + Cardinality(Sending(k)') /\ Behind(k) = f + Cardinality(Sending(k))
          BY DEF Behind
        <4>2. Behind(k)' \in Nat /\ Behind(k)' >= unfed'[k]
          BY <1>7, BehindTypeNext
        <4> HIDE DEF f, g
        <4> QED
          BY <1>4, <1>5, <3>2, <3>3, <4>1, <4>2
      <3>5. (f < LoseTimes /\ Behind(k)' = Behind(k)) \/ Behind(k)' >= LoseTimes
        BY <1>4, <3>2, <3>4
      <3>6. mLoseTimes[k] < Behind(k) \/ Behind(k) >= LoseTimes
        BY <2>1, <2>3 DEF CountedAt
      <3>7. mLoseTimes'[k] < Behind(k)' \/ Behind(k)' >= LoseTimes
        BY <1>2, <3>5, <3>6
      <3> QED
        BY <2>3, <3>7 DEF CountedAt
    <2> QED
      BY <2>2, <2>3
  <1> QED
    BY <1>7, <1>8, ThreadFrame DEF PulseInv

\* A thread that gives up ends the heartbeat the manager has, its own or a later one.
LEMMA DieKeeps ==
  ASSUME PulseInv, NEW k \in Conns, NEW t \in Threads, Die(k, t),
         UNCHANGED <<serverVars, mainVars>>
  PROVE  PulseInv'
  <1>1. Typed /\ Owned /\ MainOK /\ Counted
    BY DEF PulseInv
  <1>2. disconnect /\ ~Line(k, t, "send") /\ at' = [at EXCEPT ![k][t] = "sleep"]
    BY DEF Die, Line, GoTo
  <1>3. /\ at' \in [Conns -> [Threads -> Lines]]
        /\ \A j \in Conns, u \in Threads : j # k \/ u # t => at'[j][u] = at[j][u]
    BY <1>1, <1>2 DEF Typed, Lines
  <1>4. Typed'
    BY <1>1, <1>2, <1>3, DisconnectEffect DEF Typed, serverVars
  <1>5. Owned' /\ MainOK'
    BY <1>1, <1>2, DisconnectEffect DEF Owned, MainOK, mainVars
  <1>6. phase' = phase
    BY <1>1, <1>2, DisconnectEffect
  <1>7. \A j \in Conns, u \in Threads : Line(j, u, "send") => Line(j, u, "send")'
    BY <1>1, <1>2, <1>3, <1>6, OthersSend
  <1>8. Counted'
    BY <1>1, <1>2, <1>4, <1>7, DisconnectCounted
  <1> QED
    BY <1>4, <1>5, <1>8 DEF PulseInv

LEMMA ThreadKeeps ==
  ASSUME PulseInv, NEW k \in Conns, NEW t \in Threads, PulseThread(k, t)
  PROVE  PulseInv'
  <1>1. CASE /\ TestDead(k, t) \/ Wake(k, t) \/ Loop(k, t)
             /\ UNCHANGED <<isDead, mLoseTimes, mSendable, managerVars, serverVars, mainVars, unfed>>
    BY <1>1, TestDeadKeeps, WakeKeeps, LoopKeeps
  <1>2. CASE /\ Count(k, t)
             /\ UNCHANGED <<loopVars, interrupted, isDead, mSendable, managerVars, serverVars,
                            mainVars, unfed>>
    BY <1>2, CountKeeps
  <1>3. CASE /\ Send(k, t)
             /\ UNCHANGED <<loopVars, interrupted, isDead, mSendable, managerVars, exchanging,
                            silent, mainVars>>
    BY <1>3, SendKeeps
  <1>4. CASE Die(k, t) /\ UNCHANGED <<serverVars, mainVars>>
    BY <1>4, DieKeeps
  <1> QED
    BY <1>1, <1>2, <1>3, <1>4 DEF PulseThread
-----------------------------------------------------------------------------
(* Every step, and the theorems.                                           *)

LEMMA NextKeeps == ASSUME PulseInv, [Next]_vars PROVE PulseInv'
  <1>1. CASE UNCHANGED vars
    <2>1. UNCHANGED <<thread, phase, at, interrupted, isDead, mLoseTimes, managerVars, serverVars,
                      looper, main, unfed>>
      BY <1>1 DEF vars, mainVars, loopVars, bodyVars
    <2>2. Typed /\ Owned /\ MainOK /\ Counted
      BY DEF PulseInv
    <2>3. Typed' /\ Owned' /\ MainOK'
      BY <2>1, <2>2 DEF Typed, Owned, MainOK, managerVars, serverVars
    <2>4. Counted'
      BY <2>1, <2>2, <2>3, StillAllCounted DEF Line
    <2> QED
      BY <2>3, <2>4 DEF PulseInv
  <1>2. CASE \E k \in Conns, t \in Threads : PulseThread(k, t)
    BY <1>2, ThreadKeeps
  <1> QED
    BY <1>1, <1>2, ConnectKeeps, DisconnectKeeps, DisconnectEndsKeeps, ServerKeeps, CallbackKeeps,
       PulseKeeps DEF Next

\* Only a count leads to the end of a connection, and it has as many heartbeats behind it.
LEMMA DeathIsCounted ==
  ASSUME PulseInv, [Next]_vars, NEW k \in Conns, NEW t \in Threads,
         at'[k][t] = "die", at[k][t] # "die", ~isDead[k]
  PROVE  unfed[k] + Cardinality(Sending(k)) >= LoseTimes
  <1>1. /\ at \in [Conns -> [Threads -> Lines]] /\ mLoseTimes \in [Conns -> Int]
        /\ mLoseTimes[k] \in Int /\ Behind(k) \in Nat /\ LoseTimes \in Int
    BY BehindType DEF PulseInv, Typed
  <1>2. at' # at
    OBVIOUS
  <1>3. ASSUME NEW j \in Conns, NEW u \in Threads, NEW line \in Lines \ {"die"}, GoTo(j, u, line)
        PROVE  FALSE
    BY <1>1, <1>3 DEF GoTo
  <1>4. PICK j \in Conns, u \in Threads : PulseThread(j, u)
    BY <1>2 DEF Next, vars, Connect, Disconnect, DisconnectThreadEnds, Server, Callback, OnSuccess,
                OnCommOK, OnKey, setPulseSendable, feed, Pulse, PulseStops, PulseRestarts, bodyVars
  <1>5. Count(j, u)
    <2>1. ~TestDead(j, u)
      <3>1. TestDead(j, u) => at' = at \/ GoTo(j, u, "count") \/ GoTo(j, u, "sleep")
        BY DEF TestDead
      <3> QED
        BY <1>2, <1>3, <3>1 DEF Lines
    <2>2. ~Wake(j, u) /\ ~Send(j, u) /\ ~Die(j, u)
      BY <1>3 DEF Wake, Send, Die, Lines
    <2>3. ~Loop(j, u)
      BY <1>2 DEF Loop
    <2> QED
      BY <1>4, <2>1, <2>2, <2>3 DEF PulseThread
  <1>6. /\ mLoseTimes' = [mLoseTimes EXCEPT ![j] = @ + 1]
        /\ GoTo(j, u, IF mLoseTimes'[j] >= LoseTimes THEN "die" ELSE "send")
    <2>1. ~GoTo(j, u, "send")
      BY <1>3 DEF Lines
    <2> QED
      BY <1>5, <2>1 DEF Count
  <1>7. j = k /\ u = t
    BY <1>1, <1>6 DEF GoTo
  <1>8. mLoseTimes[k] + 1 >= LoseTimes
    <2>1. mLoseTimes'[k] = mLoseTimes[k] + 1
      BY <1>1, <1>6, <1>7
    <2>2. mLoseTimes'[k] >= LoseTimes
      BY <1>3, <1>6, <1>7 DEF Lines
    <2> QED
      BY <2>1, <2>2
  <1>9. mLoseTimes[k] < Behind(k) \/ Behind(k) >= LoseTimes
    BY DEF PulseInv, Counted, CountedAt
  <1>10. Behind(k) >= LoseTimes
    BY <1>1, <1>8, <1>9
  <1> QED
    BY <1>10 DEF Behind

\* The fields of every heartbeat and of the manager stay in range, over any number of
\* connections, threads and restarts, in whatever order the callbacks run, and the PulseManager
\* that getPulseManager() returns is never a dead one.
THEOREM PulseTypeCorrect == Spec => []PulseTypeOK
  <1>1. Init => PulseInv
    BY InitPulse
  <1>2. PulseInv /\ [Next]_vars => PulseInv'
    BY NextKeeps
  <1>3. PulseInv => PulseTypeOK
    BY InvTypes
  <1> QED
    BY <1>1, <1>2, <1>3, PTL DEF Spec

\* A heartbeat gives its connection up only after as many heartbeats in a row without a feed() as
\* the options allow, sent or about to be, although a second pulse() may make two threads that
\* count on one counter: for any number of connections and threads and any LoseTimes.
THEOREM GivesUpOnlyUnfed == Spec => DiesOnlyUnfed
  <1>1. Init => PulseInv
    BY InitPulse
  <1>2. PulseInv /\ [Next]_vars => PulseInv'
    BY NextKeeps
  <1>3. PulseInv /\ [Next]_vars =>
          [\A k \in Conns, t \in Threads :
             at'[k][t] = "die" /\ at[k][t] # "die" /\ ~isDead[k]
               => unfed[k] + Cardinality(Sending(k)) >= LoseTimes]_vars
    BY DeathIsCounted
  <1> QED
    BY <1>1, <1>2, <1>3, PTL DEF Spec, DiesOnlyUnfed
=============================================================================
