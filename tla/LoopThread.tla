------------------------------ MODULE LoopThread ------------------------------
(***************************************************************************)
(* AbsLoopThread of socket-common-interface: the restartable loop under    *)
(* the IO threads, the heartbeat and the reconnect thread.                 *)
(*                                                                         *)
(* A loop object owns a `thread' field, the flags isStop and isShutdown    *)
(* and a pending exception.  start() gives it a new java.lang.Thread and   *)
(* shutdown() only sets a flag, so several threads of one object can be    *)
(* alive at once; every one of them runs run() on the SAME fields.  start()*)
(* and shutdown() hold the object's monitor and are single steps; run()    *)
(* holds none and takes one step per shared access.                        *)
(***************************************************************************)
EXTENDS FiniteSets

CONSTANTS
  Loops,      \* the loop objects
  Threads,    \* identities of the java threads an object may have, reused when dead
  Callers,    \* threads that call the guarded restart "if (isShutdown()) start()"
  Errors      \* exceptions a body throws or a caller passes to shutdown(e)

NoThread == "no_thread"
NoError  == "no_error"

ASSUME LoopAssumption ==
  /\ NoThread \notin Threads
  /\ NoError \notin Errors

VARIABLES
  thread,       \* [Loops -> thread], the field: the thread start() made last
  isStop,       \* [Loops -> BOOLEAN]
  isShutdown,   \* [Loops -> BOOLEAN]
  ioException,  \* [Loops -> exception handed to loopFinish]
  phase,        \* [Loops -> [Threads -> where the thread is in run()]]
  decided       \* [Callers -> the loops the caller has seen shut down and will start]

loopVars == <<thread, isStop, isShutdown, ioException, phase>>
vars     == <<thread, isStop, isShutdown, ioException, phase, decided>>

(* "failing" is "ending" after an exception, "failed" is "done" after one.  *)
Dead    == {"unused", "done", "failed"}
Running == {"loop", "body", "ending", "failing"}
Phases  == Dead \cup Running \cup {"started", "closing", "closing_failed"}

To(l, t, p) == phase' = [phase EXCEPT ![l][t] = p]

Init ==
  /\ thread = [l \in Loops |-> NoThread]
  /\ isStop = [l \in Loops |-> TRUE]
  /\ isShutdown = [l \in Loops |-> TRUE]
  /\ ioException = [l \in Loops |-> NoError]
  /\ phase = [l \in Loops |-> [t \in Threads |-> "unused"]]
  /\ decided = [c \in Callers |-> {}]
-----------------------------------------------------------------------------
(* The methods other threads call.                                          *)

\* start(): a second start of an unstopped loop does nothing.
Start(l) ==
  /\ IF isStop[l]
     THEN \E t \in Threads :
            /\ phase[l][t] \in Dead
            /\ thread' = [thread EXCEPT ![l] = t]
            /\ isStop' = [isStop EXCEPT ![l] = FALSE]
            /\ To(l, t, "started")
     ELSE UNCHANGED <<thread, isStop, phase>>
  /\ UNCHANGED <<isShutdown, ioException>>

\* Mutant of StopFlags: the field keeps the stopped thread.
StopFlagsKeepThread(l) ==
  IF thread[l] # NoThread /\ ~isStop[l]
  THEN isStop' = [isStop EXCEPT ![l] = TRUE] /\ UNCHANGED thread
  ELSE UNCHANGED <<isStop, thread>>

StopFlags(l) ==
  IF thread[l] # NoThread /\ ~isStop[l]
  THEN /\ isStop' = [isStop EXCEPT ![l] = TRUE]
       /\ thread' = [thread EXCEPT ![l] = NoThread]
  ELSE UNCHANGED <<isStop, thread>>

\* shutdown(); the interrupt it sends only wakes a blocked body.
Shutdown(l) ==
  /\ StopFlags(l)
  /\ UNCHANGED <<isShutdown, ioException, phase>>

\* shutdown(e): the exception is stored even when the loop is stopped already.
ShutdownWith(l, e) ==
  /\ StopFlags(l)
  /\ ioException' = [ioException EXCEPT ![l] = e]
  /\ UNCHANGED <<isShutdown, phase>>
-----------------------------------------------------------------------------
(* run(), by thread t of loop l.                                            *)

\* run() entry: isShutdown = false, then beforeLoop().
Enter(l, t) ==
  /\ phase[l][t] = "started"
  /\ isShutdown' = [isShutdown EXCEPT ![l] = FALSE]
  /\ To(l, t, "loop")
  /\ UNCHANGED <<thread, isStop, ioException>>

\* Mutant of TestStop: the loop never looks at isStop.
TestStopIgnored(l, t) ==
  /\ phase[l][t] = "loop"
  /\ To(l, t, "body")
  /\ UNCHANGED <<thread, isStop, isShutdown, ioException>>

\* while (!isStop)
TestStop(l, t) ==
  /\ phase[l][t] = "loop"
  /\ To(l, t, IF isStop[l] THEN "ending" ELSE "body")
  /\ UNCHANGED <<thread, isStop, isShutdown, ioException>>

\* runInLoopThread() returns.
BodyReturns(l, t) ==
  /\ phase[l][t] = "body"
  /\ To(l, t, "loop")
  /\ UNCHANGED <<thread, isStop, isShutdown, ioException>>

\* runInLoopThread() throws: an exception stored before is kept.
BodyThrows(l, t, e) ==
  /\ phase[l][t] = "body"
  /\ ioException' = [ioException EXCEPT ![l] = IF @ = NoError THEN e ELSE @]
  /\ To(l, t, "failing")
  /\ UNCHANGED <<thread, isStop, isShutdown>>

\* Mutant of MarkShutdown: only the normal exit sets the flag.
MarkShutdownUnlessFailed(l, t) ==
  /\ phase[l][t] \in {"ending", "failing"}
  /\ isShutdown' = [isShutdown EXCEPT ![l] = (phase[l][t] = "ending")]
  /\ To(l, t, IF phase[l][t] = "ending" THEN "closing" ELSE "closing_failed")
  /\ UNCHANGED <<thread, isStop, ioException>>

\* finally: isShutdown = true ...
MarkShutdown(l, t) ==
  /\ phase[l][t] \in {"ending", "failing"}
  /\ isShutdown' = [isShutdown EXCEPT ![l] = TRUE]
  /\ To(l, t, IF phase[l][t] = "ending" THEN "closing" ELSE "closing_failed")
  /\ UNCHANGED <<thread, isStop, ioException>>

\* ... loopFinish(ioException); ioException = null, and the thread is gone.
Finish(l, t) ==
  /\ phase[l][t] \in {"closing", "closing_failed"}
  /\ ioException' = [ioException EXCEPT ![l] = NoError]
  /\ To(l, t, IF phase[l][t] = "closing" THEN "done" ELSE "failed")
  /\ UNCHANGED <<thread, isStop, isShutdown>>

ThreadStep(l, t) ==
  \/ Enter(l, t)
  \/ TestStop(l, t)
  \/ BodyReturns(l, t)
  \/ \E e \in Errors : BodyThrows(l, t, e)
  \/ MarkShutdown(l, t)
  \/ Finish(l, t)
-----------------------------------------------------------------------------
(* The callers.  A guarded restart is two steps: run() is not synchronized, *)
(* so isShutdown may change between the test and the start.                 *)

SeeShutdown(c, l) ==
  /\ isShutdown[l]
  /\ decided' = [decided EXCEPT ![c] = @ \cup {l}]
  /\ UNCHANGED loopVars

GuardedStart(c, l) ==
  /\ l \in decided[c]
  /\ Start(l)
  /\ decided' = [decided EXCEPT ![c] = @ \ {l}]

CallerStep(l) ==
  \/ \E c \in Callers : SeeShutdown(c, l) \/ GuardedStart(c, l)
  \/ /\ \/ Shutdown(l)
        \/ \E e \in Errors : ShutdownWith(l, e)
     /\ UNCHANGED decided

\* shutdown() called by the body itself, as PulseThread and ReconnectTestingThread do.
SelfShutdown(l, t) ==
  /\ phase[l][t] = "body"
  /\ Shutdown(l)
  /\ UNCHANGED decided

Next ==
  \E l \in Loops :
    \/ CallerStep(l)
    \/ \E t \in Threads :
         \/ SelfShutdown(l, t)
         \/ ThreadStep(l, t) /\ UNCHANGED decided

(* The JVM schedules every started thread, and every body returns or throws:*)
(* reads and queue waits end by close() or interrupt, sleeps by time.       *)
Fairness ==
  \A l \in Loops, t \in Threads : WF_vars(ThreadStep(l, t) /\ UNCHANGED decided)

Spec == Init /\ [][Next]_vars /\ Fairness
-----------------------------------------------------------------------------
TypeOK ==
  /\ thread \in [Loops -> Threads \cup {NoThread}]
  /\ isStop \in [Loops -> BOOLEAN]
  /\ isShutdown \in [Loops -> BOOLEAN]
  /\ ioException \in [Loops -> Errors \cup {NoError}]
  /\ phase \in [Loops -> [Threads -> Phases]]
  /\ decided \in [Callers -> SUBSET Loops]

\* The field `thread' names a thread exactly while the loop is not stopped; both
\* shutdown() and the restart guards rely on the two agreeing.
ThreadIffNotStopped ==
  \A l \in Loops : thread[l] # NoThread <=> ~isStop[l]

\* A thread the object still refers to leaves its loop only through an exception of
\* its body: a normal exit of run() means some shutdown() came after its start().
CurrentThreadKeepsLooping ==
  \A l \in Loops, t \in Threads :
    thread[l] = t => phase[l][t] \in {"started", "loop", "body", "failing",
                                      "closing_failed", "failed"}

\* The object knows its thread: the one it names runs its loop, and it names one unless stopped.
ThreadIsKnown == ThreadIffNotStopped /\ CurrentThreadKeepsLooping

\* isShutdown is false only while some thread is inside run(): with several threads
\* of one object racing to write it, it cannot stay false once all of them are gone,
\* which would make every later guarded restart a silent no-op.
ShutdownFlagRecovers ==
  \A l \in Loops : ~isShutdown[l] => \E t \in Threads : phase[l][t] \in Running

\* A loop that stays stopped ends all its threads, however many were started.
StopEndsEveryThread ==
  \A l \in Loops :
    <>[]isStop[l] => <>[](\A t \in Threads : phase[l][t] \in Dead)
=============================================================================
