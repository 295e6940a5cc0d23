-------------------------- MODULE LoopThread_proofs --------------------------
(***************************************************************************)
(* Safety of AbsLoopThread for any number of loop objects, threads and     *)
(* callers.  The inductive invariant is the conjunction of the type        *)
(* invariant and three facts that need each other: a thread may leave its  *)
(* loop only when isStop is set, and isStop agrees with the thread field.  *)
(***************************************************************************)
EXTENDS LoopThread, TLAPS

LoopInv ==
  /\ TypeOK
  /\ ThreadIffNotStopped
  /\ CurrentThreadKeepsLooping
  /\ ShutdownFlagRecovers

\* The initial state: no thread, every loop stopped and shut down.
LEMMA LoopInit == Init => LoopInv
  BY LoopAssumption
     DEF Init, LoopInv, TypeOK, ThreadIffNotStopped, CurrentThreadKeepsLooping,
         ShutdownFlagRecovers, Phases, Dead, Running, NoThread, NoError

\* start() keeps the invariant: it only ever takes a dead thread, and only when the
\* field is empty.
LEMMA StartKeeps ==
  ASSUME NEW l \in Loops, LoopInv, Start(l), decided' \in [Callers -> SUBSET Loops]
  PROVE  LoopInv'
<1> USE LoopAssumption DEF LoopInv
<1>1. TypeOK'
  <2>1. CASE ~isStop[l]
    BY <2>1 DEF TypeOK, Start
  <2>2. CASE isStop[l]
    <3>1. PICK t \in Threads : /\ thread' = [thread EXCEPT ![l] = t]
                              /\ isStop' = [isStop EXCEPT ![l] = FALSE]
                              /\ To(l, t, "started")
      BY <2>2 DEF Start
    <3>2. phase' \in [Loops -> [Threads -> Phases]]
      BY <3>1 DEF TypeOK, To, Phases
    <3> QED
      BY <3>1, <3>2 DEF TypeOK, Start
  <2> QED
    BY <2>1, <2>2
<1>2. ThreadIffNotStopped'
  BY DEF TypeOK, ThreadIffNotStopped, Start
<1>3. CurrentThreadKeepsLooping'
  BY DEF TypeOK, ThreadIffNotStopped, CurrentThreadKeepsLooping, Start, To
<1>4. ShutdownFlagRecovers'
  <2>1. ASSUME NEW m \in Loops, NEW t \in Threads, phase[m][t] \in Running
        PROVE  phase'[m][t] \in Running
    <3>1. CASE ~isStop[l]
      BY <2>1, <3>1 DEF Start
    <3>2. CASE isStop[l]
      <4>1. PICK u \in Threads : phase[l][u] \in Dead /\ To(l, u, "started")
        BY <3>2 DEF Start
      <4>2. ~(m = l /\ t = u)
        BY <2>1, <4>1 DEF Running, Dead
      <4> QED
        BY <2>1, <4>1, <4>2 DEF To, TypeOK
    <3> QED
      BY <3>1, <3>2
  <2>2. isShutdown' = isShutdown
    BY DEF Start
  <2> QED
    BY <2>1, <2>2 DEF ShutdownFlagRecovers
<1> QED
  BY <1>1, <1>2, <1>3, <1>4

\* shutdown() and shutdown(e) keep the invariant: flag and field change together.
LEMMA ShutdownKeeps ==
  ASSUME NEW l \in Loops, LoopInv,
         Shutdown(l) \/ \E e \in Errors : ShutdownWith(l, e),
         decided' \in [Callers -> SUBSET Loops]
  PROVE  LoopInv'
<1> USE LoopAssumption DEF LoopInv, Shutdown, ShutdownWith, StopFlags
<1>1. TypeOK'
  BY DEF TypeOK
<1>2. ThreadIffNotStopped'
  BY DEF TypeOK, ThreadIffNotStopped
<1>3. CurrentThreadKeepsLooping'
  BY DEF TypeOK, CurrentThreadKeepsLooping
<1>4. ShutdownFlagRecovers'
  BY DEF ShutdownFlagRecovers
<1> QED
  BY <1>1, <1>2, <1>3, <1>4

\* One step of run() keeps the invariant.
LEMMA ThreadStepKeeps ==
  ASSUME NEW l \in Loops, NEW t \in Threads, LoopInv, ThreadStep(l, t),
         UNCHANGED decided
  PROVE  LoopInv'
<1> USE LoopAssumption DEF LoopInv, To
<1>1. CASE Enter(l, t)
  <2>1. TypeOK'
    BY <1>1 DEF Enter, TypeOK, Phases, Running
  <2>2. ThreadIffNotStopped'
    BY <1>1 DEF Enter, ThreadIffNotStopped
  <2>3. CurrentThreadKeepsLooping'
    BY <1>1 DEF Enter, TypeOK, CurrentThreadKeepsLooping
  <2>4. ShutdownFlagRecovers'
    BY <1>1 DEF Enter, TypeOK, ShutdownFlagRecovers, Running
  <2> QED
    BY <2>1, <2>2, <2>3, <2>4
<1>2. CASE TestStop(l, t)
  <2>1. TypeOK'
    BY <1>2 DEF TestStop, TypeOK, Phases, Running
  <2>2. ThreadIffNotStopped'
    BY <1>2 DEF TestStop, ThreadIffNotStopped
  <2>3. isStop[l] => thread[l] # t
    BY DEF ThreadIffNotStopped
  <2>4. CurrentThreadKeepsLooping'
    BY <1>2, <2>3 DEF TestStop, TypeOK, CurrentThreadKeepsLooping
  <2>5. ShutdownFlagRecovers'
    BY <1>2 DEF TestStop, TypeOK, ShutdownFlagRecovers, Running
  <2> QED
    BY <2>1, <2>2, <2>4, <2>5
<1>3. CASE BodyReturns(l, t)
  <2>1. TypeOK'
    BY <1>3 DEF BodyReturns, TypeOK, Phases, Running
  <2>2. ThreadIffNotStopped' /\ CurrentThreadKeepsLooping'
    BY <1>3 DEF BodyReturns, TypeOK, ThreadIffNotStopped, CurrentThreadKeepsLooping
  <2>3. ShutdownFlagRecovers'
    BY <1>3 DEF BodyReturns, TypeOK, ShutdownFlagRecovers, Running
  <2> QED
    BY <2>1, <2>2, <2>3
<1>4. CASE \E e \in Errors : BodyThrows(l, t, e)
  <2>1. TypeOK'
    BY <1>4 DEF BodyThrows, TypeOK, Phases, Running
  <2>2. ThreadIffNotStopped' /\ CurrentThreadKeepsLooping'
    BY <1>4 DEF BodyThrows, TypeOK, ThreadIffNotStopped, CurrentThreadKeepsLooping
  <2>3. ShutdownFlagRecovers'
    BY <1>4 DEF BodyThrows, TypeOK, ShutdownFlagRecovers, Running
  <2> QED
    BY <2>1, <2>2, <2>3
<1>5. CASE MarkShutdown(l, t)
  <2>1. TypeOK'
    BY <1>5 DEF MarkShutdown, TypeOK, Phases
  <2>2. ThreadIffNotStopped' /\ CurrentThreadKeepsLooping'
    BY <1>5 DEF MarkShutdown, TypeOK, ThreadIffNotStopped, CurrentThreadKeepsLooping
  <2>3. ShutdownFlagRecovers'
    BY <1>5 DEF MarkShutdown, TypeOK, ShutdownFlagRecovers, Running
  <2> QED
    BY <2>1, <2>2, <2>3
<1>6. CASE Finish(l, t)
  <2>1. TypeOK'
    BY <1>6 DEF Finish, TypeOK, Phases, Dead
  <2>2. ThreadIffNotStopped' /\ CurrentThreadKeepsLooping'
    BY <1>6 DEF Finish, TypeOK, ThreadIffNotStopped, CurrentThreadKeepsLooping
  <2>3. ShutdownFlagRecovers'
    BY <1>6 DEF Finish, TypeOK, ShutdownFlagRecovers, Running
  <2> QED
    BY <2>1, <2>2, <2>3
<1> QED
  BY <1>1, <1>2, <1>3, <1>4, <1>5, <1>6 DEF ThreadStep

\* Every step of the specification keeps the invariant.
LEMMA LoopStep == LoopInv /\ [Next]_vars => LoopInv'
<1> SUFFICES ASSUME LoopInv, [Next]_vars PROVE LoopInv'
  OBVIOUS
<1>1. CASE UNCHANGED vars
  BY <1>1 DEF vars, LoopInv, TypeOK, ThreadIffNotStopped, CurrentThreadKeepsLooping,
              ShutdownFlagRecovers
<1>2. CASE Next
  <2>1. PICK l \in Loops :
          \/ CallerStep(l)
          \/ \E t \in Threads : \/ SelfShutdown(l, t)
                                \/ ThreadStep(l, t) /\ UNCHANGED decided
    BY <1>2 DEF Next
  <2>2. ASSUME NEW c \in Callers, SeeShutdown(c, l)
        PROVE  LoopInv'
    BY <2>2 DEF SeeShutdown, loopVars, LoopInv, TypeOK, ThreadIffNotStopped,
                CurrentThreadKeepsLooping, ShutdownFlagRecovers
  <2>3. ASSUME NEW c \in Callers, GuardedStart(c, l)
        PROVE  LoopInv'
    <3>1. decided' \in [Callers -> SUBSET Loops]
      BY <2>3 DEF GuardedStart, LoopInv, TypeOK
    <3> QED
      BY <2>3, <3>1, StartKeeps DEF GuardedStart
  <2>4. CASE CallerStep(l)
    <3>1. UNCHANGED decided => decided' \in [Callers -> SUBSET Loops]
      BY DEF LoopInv, TypeOK
    <3> QED
      BY <2>2, <2>3, <2>4, <3>1, ShutdownKeeps DEF CallerStep
  <2>5. ASSUME NEW t \in Threads, SelfShutdown(l, t)
        PROVE  LoopInv'
    <3>1. decided' \in [Callers -> SUBSET Loops]
      BY <2>5 DEF SelfShutdown, LoopInv, TypeOK
    <3> QED
      BY <2>5, <3>1, ShutdownKeeps DEF SelfShutdown
  <2> QED
    BY <2>1, <2>4, <2>5, ThreadStepKeeps
<1> QED
  BY <1>1, <1>2

\* The inductive invariant holds in every reachable state.
LEMMA LoopInvariant == Spec => []LoopInv
  BY LoopInit, LoopStep, PTL DEF Spec

\* Every field of AbsLoopThread and every thread stays in its range.
THEOREM LoopTypeCorrect == Spec => []TypeOK
<1>1. LoopInv => TypeOK
  BY DEF LoopInv
<1> QED
  BY <1>1, LoopInvariant, PTL

\* The thread field and isStop agree in every state, whoever calls start() and shutdown(), and the
\* thread a loop object refers to keeps looping unless its body throws.
THEOREM CurrentThreadLoops == Spec => []ThreadIsKnown
<1>1. LoopInv => ThreadIsKnown
  BY DEF LoopInv, ThreadIsKnown
<1> QED
  BY <1>1, LoopInvariant, PTL

\* isShutdown is true again once every thread of the object has left run().
THEOREM ShutdownFlagIsTruthful == Spec => []ShutdownFlagRecovers
<1>1. LoopInv => ShutdownFlagRecovers
  BY DEF LoopInv
<1> QED
  BY <1>1, LoopInvariant, PTL
=============================================================================
