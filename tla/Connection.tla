------------------------------ MODULE Connection ------------------------------
(***************************************************************************)
(* ConnectionManagerImpl of socket-client with the threads that share it:  *)
(*   - the main looper: runs the posted callbacks in FIFO order and makes  *)
(*     the application's connect() and disconnect() calls;                 *)
(*   - a connect thread per attempt, two IO threads per connection, a      *)
(*     disconnect thread per disconnect();                                 *)
(*   - the reconnect loop of each DefaultReconnectManager (LoopThread).    *)
(* One step per access to a shared field.  Two monitors are held across    *)
(* steps: the manager's own, by a running connect(), and the listener      *)
(* list's, by the looper while it dispatches one event.                    *)
(***************************************************************************)
EXTENDS Naturals, Sequences, FiniteSets

CONSTANTS
  Conns,    \* attempts: connect thread, socket, ActionHandler and IO manager of one connect()
  Discs,    \* disconnect threads
  RMs,      \* DefaultReconnectManager objects, one per Client.connect()
  Incs,     \* threads of one reconnect loop
  None,
  AutoReconnect,   \* TRUE: the options hold a DefaultReconnectManager; FALSE: NoneReconnect
  Timely,   \* TRUE: user, network and reconnect delay are slower than the threads
  Fragile,           \* the attempts whose connection the server or the network may break
  UserCalls,         \* the calls the application makes: subset of CallKinds
  MaxOps,            \* bound on the number of those calls
  MaxFailedTimes     \* MAX_CONNECTION_FAILED_TIMES

CallKinds == {"connect", "disconnect", "disconnect_e", "connect_in_callback"}

ASSUME ConnectionAssumption ==
  /\ None \notin Conns \cup Discs \cup RMs \cup Incs
  /\ AutoReconnect \in BOOLEAN /\ Timely \in BOOLEAN
  /\ Fragile \subseteq Conns /\ UserCalls \subseteq CallKinds
  /\ MaxOps \in Nat /\ MaxFailedTimes \in Nat

VARIABLES
  m,        \* the fields of ConnectionManagerImpl
  call,     \* the connect() in progress: who runs it, where it is, its attempt
  conn,     \* [Conns -> connect thread: pc and the socket it called connect() on]
  sock,     \* [Conns -> socket]
  io,       \* [Conns -> IOThreadManager: reader, writer, socket, exception of close(e)]
  disc,     \* [Discs -> disconnect thread: pc, exception, connect thread it joins]
  hd,       \* ActionHandlers: registered, knowing the thread mode, disconnect called
  rm,       \* reconnect managers: registered one, one in the options, detached, failures
  rThread, rIsStop, rIsShutdown, rException, rPhase,  \* their loops, see LoopThread
  rpc,      \* [RMs -> [Incs -> place in runInLoopThread()]]
  queue,    \* callbacks posted to the main looper
  main,     \* the main thread: place, event in dispatch, handlers still to run, exception
  heard,    \* history variable: the last connection or disconnection announced
  ops       \* application calls made so far

mgrVars  == <<m, call, conn, sock, io, disc, hd, rm>>
loopVars == <<rThread, rIsStop, rIsShutdown, rException, rPhase>>
vars     == <<mgrVars, loopVars, rpc, queue, main, heard, ops>>

Promise == INSTANCE ListenerPromise

Loop == INSTANCE LoopThread WITH
  Loops <- RMs, Threads <- Incs, Callers <- {}, Errors <- {"error"}, decided <- <<>>,
  thread <- rThread, isStop <- rIsStop, isShutdown <- rIsShutdown,
  ioException <- rException, phase <- rPhase
-----------------------------------------------------------------------------
Event(t, k, e) == [type |-> t, conn |-> k, exc |-> e]
NoEvent == Event("NONE", None, "null")
Idle == [at |-> "idle", ev |-> NoEvent, todo |-> {}, rm |-> None, exc |-> "null"]
Main == <<None, None>>         \* callers of connect(): Main or <<r, i>>
NoCall == [by |-> Main, at |-> "none", k |-> None]
NoIO == [r |-> "none", w |-> "none", sock |-> None, stop |-> "no"]

Post(ev) == queue' = Append(queue, ev)

(* The exception a listener is given: "Manual" is turned into null.         *)
Shown(e) == IF e = "Manual" THEN "null" ELSE e

SockConnected(s) == s # None /\ sock[s] \in {"open", "broken"}
IsConnect == SockConnected(m.socket)

ConnAlive(k)  == conn[k].pc \notin {"none", "dead"}
DiscAlive(d)  == disc[d].pc \notin {"none", "dead"}
IoEnded(k)    == io[k].r \in {"none", "dead"} /\ io[k].w \in {"none", "dead"}
RSleeping(r, i) == rPhase[r][i] = "body" /\ rpc[r][i] = "sleep"
RDead(r, i)   == rPhase[r][i] \in {"unused", "done", "failed"}

(* The monitors.  A dispatch holds the list's, a connect() the manager's;   *)
(* a connect() inside a reconnect manager's detach()/attach() also its own. *)
ListFree       == main.ev = NoEvent
ListFreeFor(t) == ListFree \/ t = Main
MgrFree        == call = NoCall
Monitored(r)   == \/ call.at = "unlist" /\ m.rm = r
                  \/ call.at = "list" /\ rm.opt = r

(* An attempt's objects can stand for a new attempt once nothing uses them; *)
(* which of the free ones is taken does not matter, so CHOOSE takes one.    *)
Free(k) ==
  /\ ~ConnAlive(k) /\ IoEnded(k) /\ ~SockConnected(k)
  /\ k \notin {m.socket, m.handler} \cup hd.reg /\ (m.io = k => io[k].stop # "no")
  /\ \A j \in Conns \ {k} : conn[j].tgt # k /\ io[j].sock # k
  /\ \A d \in Discs : disc[d].waits # k
  /\ \A n \in DOMAIN queue : queue[n].conn # k
  /\ main.ev.conn # k

(* Timing.  With Timely, whatever takes a network round trip, a person or   *)
(* the reconnect delay happens when the threads have nothing left to do.    *)
LoopsRest == MgrFree /\ \A r \in RMs, i \in Incs : RSleeping(r, i) \/ RDead(r, i)
Quiet     == main = Idle /\ queue = <<>> /\ \A d \in Discs : ~DiscAlive(d)
Settled   == /\ LoopsRest /\ Quiet
             /\ \A k \in Conns : ~ConnAlive(k)
             /\ \A k \in Conns : io[k].r # "started" /\ io[k].w # "started"
             /\ \A k \in Conns : io[k].stop # "no" => IoEnded(k)
             /\ \A k \in Conns : sock[k] # "broken"

Init ==
  /\ m = [socket |-> None, io |-> None, thread |-> None, handler |-> None, rm |-> None,
          pulse |-> None, permitted |-> TRUE, disconnecting |-> FALSE]
  /\ call = NoCall
  /\ conn = [k \in Conns |-> [pc |-> "none", tgt |-> None]]
  /\ sock = [k \in Conns |-> "none"]
  /\ io = [k \in Conns |-> NoIO]
  /\ disc = [d \in Discs |-> [pc |-> "none", exc |-> "null", waits |-> None]]
  /\ hd = [reg |-> {}, known |-> {}, called |-> {}]
  /\ rm = [reg |-> None, opt |-> None, detached |-> {}, fails |-> [r \in RMs |-> 0]]
  /\ Loop!Init
  /\ rpc = [r \in RMs |-> [i \in Incs |-> "top"]]
  /\ queue = <<>> /\ main = Idle /\ Promise!Init /\ ops = 0
-----------------------------------------------------------------------------
(* connect(), run by thread t while it holds the manager's monitor.         *)

CallAt(at) == call' = [call EXCEPT !.at = at]

(* Where the main thread goes on after a connect() or a disconnect().       *)
Resume == IF main.ev = NoEvent THEN Idle
          ELSE [main EXCEPT !.at = "handlers", !.exc = "null"]

Return(t) ==
  IF t = Main THEN main' = Resume /\ UNCHANGED rpc
  ELSE rpc' = [rpc EXCEPT ![t[1]][t[2]] = "ret"] /\ UNCHANGED main

\* The two early returns of connect().
\* Mutant of Refused: a connected manager connects again.
RefusedButNotWhenConnected == ~m.permitted
Refused == ~m.permitted \/ IsConnect

\* connect() up to the first listener-list operation: the early returns leave
\* isConnectionPermitted as the code leaves it.
ConnectEnter(t) ==
  /\ MgrFree
  /\ \/ /\ Refused
        /\ m' = [m EXCEPT !.permitted = FALSE]
        /\ Return(t)
        /\ UNCHANGED <<call, conn, sock, io, hd>>
     \/ /\ ~Refused
        /\ m' = [m EXCEPT !.permitted = FALSE, !.disconnecting = FALSE]
        /\ \E k \in Conns : Free(k)
        /\ LET k == CHOOSE j \in Conns : Free(j) IN
             /\ call' = [by |-> t, at |-> "unhandler", k |-> k]
             /\ conn' = [conn EXCEPT ![k] = [pc |-> "none", tgt |-> None]]
             /\ sock' = [sock EXCEPT ![k] = "none"]
             /\ io' = [io EXCEPT ![k] = NoIO]
             /\ hd' = [hd EXCEPT !.known = @ \ {k}, !.called = @ \ {k}]
        /\ IF t = Main THEN main' = [main EXCEPT !.at = "connecting"] /\ UNCHANGED rpc
           ELSE UNCHANGED <<main, rpc>>
  /\ UNCHANGED <<disc, rm, loopVars, queue, heard, ops>>

\* mActionHandler.detach(this)
ConnectDropHandler ==
  /\ call.at = "unhandler"
  /\ m.handler # None => ListFreeFor(call.by)
  /\ hd' = [hd EXCEPT !.reg = @ \ {m.handler}]
  /\ CallAt("handler")
  /\ UNCHANGED <<m, conn, sock, io, disc, rm, loopVars, rpc, queue, main, heard, ops>>

\* mActionHandler = new ActionHandler()
ConnectNewHandler ==
  /\ call.at = "handler"
  /\ m' = [m EXCEPT !.handler = call.k]
  /\ CallAt("register")
  /\ UNCHANGED <<conn, sock, io, disc, hd, rm, loopVars, rpc, queue, main, heard, ops>>

\* mActionHandler.attach(this, this)
ConnectRegisterHandler ==
  /\ call.at = "register"
  /\ ListFreeFor(call.by)
  /\ hd' = [hd EXCEPT !.reg = @ \cup {call.k}]
  /\ CallAt(IF m.rm = None THEN "attach" ELSE "detach")
  /\ UNCHANGED <<m, conn, sock, io, disc, rm, loopVars, rpc, queue, main, heard, ops>>

\* mReconnectionManager.detach(): mDetach = true, inside the reconnect manager's monitor
ConnectDetach ==
  /\ call.at = "detach"
  /\ rm' = [rm EXCEPT !.detached = @ \cup {m.rm}]
  /\ CallAt("unlist")
  /\ UNCHANGED <<m, conn, sock, io, disc, hd, loopVars, rpc, queue, main, heard, ops>>

\* ... and unRegisterReceiver(this): DefaultReconnectManager objects are all equal,
\* so whichever is registered is removed.
ConnectUnlist ==
  /\ call.at = "unlist"
  /\ ListFreeFor(call.by)
  /\ rm' = [rm EXCEPT !.reg = None]
  /\ CallAt("attach")
  /\ UNCHANGED <<m, conn, sock, io, disc, hd, loopVars, rpc, queue, main, heard, ops>>

\* mReconnectionManager = mOptions.getReconnectionManager(), attach(): mDetach = false.
\* (A detached manager is first detached again, which unregisters nothing more.)
ConnectAttach ==
  /\ call.at = "attach"
  /\ m' = [m EXCEPT !.rm = rm.opt]
  /\ rm' = [rm EXCEPT !.detached = @ \ {rm.opt}]
  /\ CallAt("list")
  /\ UNCHANGED <<conn, sock, io, disc, hd, loopVars, rpc, queue, main, heard, ops>>

\* ... registerReceiver(this); then the connect thread is started.
ConnectSpawn ==
  /\ call.at = "list"
  /\ rm.opt # None => ListFreeFor(call.by)
  /\ rm' = [rm EXCEPT !.reg = IF @ = None THEN rm.opt ELSE @]
  /\ m' = [m EXCEPT !.thread = call.k]
  /\ conn' = [conn EXCEPT ![call.k].pc = "start"]
  /\ call' = NoCall
  /\ Return(call.by)
  /\ UNCHANGED <<sock, io, disc, hd, loopVars, queue, heard, ops>>

ConnectStep ==
  \/ ConnectDropHandler \/ ConnectNewHandler \/ ConnectRegisterHandler
  \/ ConnectDetach \/ ConnectUnlist \/ ConnectAttach \/ ConnectSpawn
-----------------------------------------------------------------------------
(* ConnectionThread.run(), attempt k.                                       *)

ConnAt(k, pc) == conn' = [conn EXCEPT ![k].pc = pc]

\* mSocket = getSocketByConfig(), which waits for the manager's monitor.
CreateSocket(k) ==
  /\ conn[k].pc = "start" /\ MgrFree
  /\ m' = [m EXCEPT !.socket = k]
  /\ sock' = [sock EXCEPT ![k] = "new"]
  /\ ConnAt(k, "call")
  /\ UNCHANGED <<call, io, disc, hd, rm, loopVars, rpc, queue, main, heard, ops>>

\* mSocket.connect(...): the field may have been cleared or closed meanwhile.
CallSocket(k) ==
  /\ conn[k].pc = "call"
  /\ conn' = [conn EXCEPT ![k] =
       IF SockConnected(m.socket) \/ m.socket = None THEN [pc |-> "failed", tgt |-> None]
       ELSE [pc |-> "connecting", tgt |-> m.socket]]
  /\ UNCHANGED <<m, call, sock, io, disc, hd, rm, loopVars, rpc, queue, main, heard, ops>>

\* ... returns: connected, or refused, timed out, or closed by a disconnect thread.
SocketAnswers(k) ==
  /\ conn[k].pc = "connecting"
  /\ Timely => LoopsRest
  /\ \/ /\ sock[conn[k].tgt] = "new"
        /\ sock' = [sock EXCEPT ![conn[k].tgt] = "open"]
        /\ ConnAt(k, "resolve")
     \/ ConnAt(k, "failed") /\ UNCHANGED sock
  /\ UNCHANGED <<m, call, io, disc, hd, rm, loopVars, rpc, queue, main, heard, ops>>

\* setTcpNoDelay() and resolveManager(): new PulseManager and IOThreadManager on mSocket's
\* streams.  A socket that is gone is noticed before the PulseManager is made, or after.
ResolveManager(k) ==
  /\ conn[k].pc = "resolve"
  /\ IF SockConnected(m.socket)
     THEN /\ m' = [m EXCEPT !.pulse = k, !.io = k]
          /\ io' = [io EXCEPT ![k].sock = m.socket]
          /\ ConnAt(k, "engine")
     ELSE /\ \E made \in {m.pulse, k} : m' = [m EXCEPT !.pulse = made]
          /\ ConnAt(k, "failed") /\ UNCHANGED io
  /\ UNCHANGED <<call, sock, disc, hd, rm, loopVars, rpc, queue, main, heard, ops>>

\* Mutant of StartEngine: a socket broken by then makes a failure of the attempt.
StartEngineThenTests(k) ==
  /\ conn[k].pc = "engine"
  /\ io' = [io EXCEPT ![k].r = "started", ![k].w = "started"]
  /\ ConnAt(k, IF sock[io[k].sock] = "open" THEN "success" ELSE "failed")
  /\ UNCHANGED <<m, call, sock, disc, hd, rm, loopVars, rpc, queue, main, heard, ops>>

\* mManager.startEngine(): the writer, then the reader, are started.
StartEngine(k) ==
  /\ conn[k].pc = "engine"
  /\ io' = [io EXCEPT ![k].r = "started", ![k].w = "started"]
  /\ ConnAt(k, "success")
  /\ UNCHANGED <<m, call, sock, disc, hd, rm, loopVars, rpc, queue, main, heard, ops>>

\* Mutant of Report: ACTION_CONNECTION_FAILED is not sent.
ReportSuccessOnly(k) ==
  /\ conn[k].pc \in {"success", "failed"}
  /\ IF conn[k].pc = "success" THEN Post(Event("SUCCESS", k, "null")) ELSE UNCHANGED queue
  /\ ConnAt(k, "finally")
  /\ UNCHANGED <<m, call, sock, io, disc, hd, rm, loopVars, rpc, main, heard, ops>>

\* sendBroadcast(ACTION_CONNECTION_SUCCESS or ACTION_CONNECTION_FAILED)
Report(k) ==
  /\ conn[k].pc \in {"success", "failed"}
  /\ Post(IF conn[k].pc = "success" THEN Event("SUCCESS", k, "null")
          ELSE Event("FAILED", k, "UnConnect"))
  /\ ConnAt(k, "finally")
  /\ UNCHANGED <<m, call, sock, io, disc, hd, rm, loopVars, rpc, main, heard, ops>>

\* finally: isConnectionPermitted = true
ConnectThreadEnds(k) ==
  /\ conn[k].pc = "finally"
  /\ m' = [m EXCEPT !.permitted = TRUE]
  /\ conn' = [conn EXCEPT ![k] = [pc |-> "dead", tgt |-> None]]
  /\ UNCHANGED <<call, sock, io, disc, hd, rm, loopVars, rpc, queue, main, heard, ops>>

ConnThread(k) ==
  \/ CreateSocket(k) \/ CallSocket(k) \/ SocketAnswers(k) \/ ResolveManager(k)
  \/ StartEngine(k) \/ Report(k) \/ ConnectThreadEnds(k)
-----------------------------------------------------------------------------
(* The IO threads of connection k; x is "r" (reader) or "w" (writer).       *)

IoAt(k, x, p) == [io EXCEPT ![k] = IF x = "r" THEN [@ EXCEPT !.r = p] ELSE [@ EXCEPT !.w = p]]

\* beforeLoop(): ACTION_READ_THREAD_START, ACTION_WRITE_THREAD_START
IoEnter(k, x) ==
  /\ io[k][x] = "started"
  /\ io' = IoAt(k, x, "running")
  /\ Post(Event("START", k, "null"))
  /\ UNCHANGED <<m, call, conn, sock, disc, hd, rm, loopVars, rpc, main, heard, ops>>

(* What a thread can die of: the exception of close(e), stored by           *)
(* shutdown(e); or its own, as the stream is closed before shutdown(e)      *)
(* stores e and a broken or closed socket fails every read and write.       *)
DiesOf(k) == {Shown(e) : e \in {io[k].stop} \ {"no"}}
             \cup (IF sock[io[k].sock] = "open" THEN {} ELSE {"IO"})

\* loopFinish(): ACTION_READ_THREAD_SHUTDOWN, ACTION_WRITE_THREAD_SHUTDOWN
IoDies(k, x) ==
  /\ io[k][x] = "running"
  /\ \E e \in DiesOf(k) : Post(Event("SHUTDOWN", k, e))
  /\ io' = IoAt(k, x, "dead")
  /\ UNCHANGED <<m, call, conn, sock, disc, hd, rm, loopVars, rpc, main, heard, ops>>

IoThread(k, x) == IoEnter(k, x) \/ IoDies(k, x)
-----------------------------------------------------------------------------
(* DisconnectThread.run(), thread d.                                        *)

DiscAt(d, pc) == disc' = [disc EXCEPT ![d].pc = pc]

\* Mutant of CloseManager: the streams are closed, the threads not shut down.
CloseManagerStreamsOnly(d) ==
  /\ disc[d].pc = "close"
  /\ sock' = IF m.io # None /\ io[m.io].r # "none"
             THEN [sock EXCEPT ![io[m.io].sock] = "closed"] ELSE sock
  /\ DiscAt(d, "alive")
  /\ UNCHANGED <<m, call, conn, io, hd, rm, loopVars, rpc, queue, main, heard, ops>>

\* Mutant of CloseManager: ACTION_DISCONNECTION is sent first, closing is left to later.
CloseManagerAfterReport(d) ==
  /\ disc[d].pc = "close"
  /\ IF m.socket # None THEN Post(Event("DISC", m.socket, Shown(disc[d].exc)))
     ELSE UNCHANGED queue
  /\ DiscAt(d, "alive")
  /\ UNCHANGED <<m, call, conn, sock, io, hd, rm, loopVars, rpc, main, heard, ops>>

\* mManager.close(mException): closes the streams, and with them the socket; the
\* thread fields are cleared, so a second close does nothing.
CloseManager(d) ==
  /\ disc[d].pc = "close"
  /\ LET k == m.io IN
     IF k # None /\ io[k].r # "none" /\ io[k].stop = "no"
     THEN /\ io' = [io EXCEPT ![k].stop = disc[d].exc]
          /\ sock' = [sock EXCEPT ![io[k].sock] = "closed"]
     ELSE UNCHANGED <<io, sock>>
  /\ DiscAt(d, "alive")
  /\ UNCHANGED <<m, call, conn, hd, rm, loopVars, rpc, queue, main, heard, ops>>

\* mConnectThread.isAlive()
TestConnectThread(d) ==
  /\ disc[d].pc = "alive"
  /\ disc' = [disc EXCEPT ![d] =
       IF m.thread # None /\ ConnAlive(m.thread)
       THEN [@ EXCEPT !.pc = "join", !.waits = m.thread]
       ELSE [@ EXCEPT !.pc = "socket"]]
  /\ UNCHANGED <<m, call, conn, sock, io, hd, rm, loopVars, rpc, queue, main, heard, ops>>

\* mConnectThread.join(); mConnectThread = null.  The interrupt does not end a
\* blocking Socket.connect().
JoinConnectThread(d) ==
  /\ disc[d].pc = "join"
  /\ ~ConnAlive(disc[d].waits)
  /\ m' = [m EXCEPT !.thread = None]
  /\ disc' = [disc EXCEPT ![d] = [@ EXCEPT !.pc = "socket", !.waits = None]]
  /\ UNCHANGED <<call, conn, sock, io, hd, rm, loopVars, rpc, queue, main, heard, ops>>

\* Mutant of CloseSocket: mSocket is set to null as soon as it is closed.
CloseSocketClearsField(d) ==
  /\ disc[d].pc = "socket"
  /\ sock' = IF m.socket = None THEN sock ELSE [sock EXCEPT ![m.socket] = "closed"]
  /\ m' = [m EXCEPT !.socket = None]
  /\ DiscAt(d, IF m.handler = None THEN "flags" ELSE "handler")
  /\ UNCHANGED <<call, conn, io, hd, rm, loopVars, rpc, queue, main, heard, ops>>

\* mSocket.close()
CloseSocket(d) ==
  /\ disc[d].pc = "socket"
  /\ sock' = IF m.socket = None THEN sock ELSE [sock EXCEPT ![m.socket] = "closed"]
  /\ DiscAt(d, IF m.handler = None THEN "flags" ELSE "handler")
  /\ UNCHANGED <<m, call, conn, io, hd, rm, loopVars, rpc, queue, main, heard, ops>>

\* mActionHandler.detach(...)
DropHandler(d) ==
  /\ disc[d].pc = "handler"
  /\ ListFree
  /\ hd' = [hd EXCEPT !.reg = @ \ {m.handler}]
  /\ DiscAt(d, "null")
  /\ UNCHANGED <<m, call, conn, sock, io, rm, loopVars, rpc, queue, main, heard, ops>>

\* mActionHandler = null
ClearHandler(d) ==
  /\ disc[d].pc = "null"
  /\ m' = [m EXCEPT !.handler = None]
  /\ DiscAt(d, "flags")
  /\ UNCHANGED <<call, conn, sock, io, hd, rm, loopVars, rpc, queue, main, heard, ops>>

\* Mutant of ResetFlags: isConnectionPermitted is not set back.
ResetFlagsKeepsPermission(d) ==
  /\ disc[d].pc = "flags"
  /\ m' = [m EXCEPT !.disconnecting = FALSE]
  /\ DiscAt(d, "post")
  /\ UNCHANGED <<call, conn, sock, io, hd, rm, loopVars, rpc, queue, main, heard, ops>>

\* finally: isDisconnecting = false; isConnectionPermitted = true
ResetFlags(d) ==
  /\ disc[d].pc = "flags"
  /\ m' = [m EXCEPT !.disconnecting = FALSE, !.permitted = TRUE]
  /\ DiscAt(d, "post")
  /\ UNCHANGED <<call, conn, sock, io, hd, rm, loopVars, rpc, queue, main, heard, ops>>

\* Mutant of ReportDisconnection: sent whatever the exception and the socket field.
ReportDisconnectionUnchecked(d) ==
  /\ disc[d].pc = "post"
  /\ Post(Event("DISC", m.socket, Shown(disc[d].exc)))
  /\ DiscAt(d, "clear")
  /\ UNCHANGED <<m, call, conn, sock, io, hd, rm, loopVars, rpc, main, heard, ops>>

\* ACTION_DISCONNECTION, unless the exception is an UnConnectException or the socket
\* field is empty
ReportDisconnection(d) ==
  /\ disc[d].pc = "post"
  /\ IF disc[d].exc # "UnConnect" /\ m.socket # None
     THEN Post(Event("DISC", m.socket, Shown(disc[d].exc)))
     ELSE UNCHANGED queue
  /\ DiscAt(d, "clear")
  /\ UNCHANGED <<m, call, conn, sock, io, hd, rm, loopVars, rpc, main, heard, ops>>

\* mSocket = null
ClearSocket(d) ==
  /\ disc[d].pc = "clear"
  /\ m' = [m EXCEPT !.socket = None]
  /\ DiscAt(d, "dead")
  /\ UNCHANGED <<call, conn, sock, io, hd, rm, loopVars, rpc, queue, main, heard, ops>>

DiscThread(d) ==
  \/ CloseManager(d) \/ TestConnectThread(d) \/ JoinConnectThread(d) \/ CloseSocket(d)
  \/ DropHandler(d) \/ ClearHandler(d) \/ ResetFlags(d) \/ ReportDisconnection(d)
  \/ ClearSocket(d)
-----------------------------------------------------------------------------
(* disconnect(e) on the main thread: two short critical sections around the *)
(* detaching of the reconnect manager.                                      *)

\* Mutant of DisconnectFlag: isDisconnecting is not tested.
DisconnectFlagUntested ==
  /\ main.at = "d1" /\ MgrFree
  /\ m' = [m EXCEPT !.disconnecting = TRUE, !.pulse = None]
  /\ main' = [main EXCEPT !.at = "d2"]
  /\ UNCHANGED <<call, conn, sock, io, disc, hd, rm, loopVars, rpc, queue, heard, ops>>

DisconnectFlag ==
  /\ main.at = "d1" /\ MgrFree
  /\ IF m.disconnecting THEN main' = Resume /\ UNCHANGED m
     ELSE /\ m' = [m EXCEPT !.disconnecting = TRUE, !.pulse = None]
          /\ main' = [main EXCEPT !.at = "d2"]
  /\ UNCHANGED <<call, conn, sock, io, disc, hd, rm, loopVars, rpc, queue, heard, ops>>

DisconnectDetach ==
  /\ main.at = "d2"
  /\ IF main.exc = "Manual" /\ m.rm # None
     THEN /\ ~Monitored(m.rm)
          /\ rm' = [rm EXCEPT !.reg = None, !.detached = @ \cup {m.rm}]
     ELSE UNCHANGED rm
  /\ main' = [main EXCEPT !.at = "d3"]
  /\ UNCHANGED <<m, call, conn, sock, io, disc, hd, loopVars, rpc, queue, heard, ops>>

DisconnectSpawn ==
  /\ main.at = "d3" /\ MgrFree
  /\ \E d \in Discs : ~DiscAlive(d)
  /\ LET d == CHOOSE c \in Discs : ~DiscAlive(c) IN
       disc' = [disc EXCEPT ![d] = [pc |-> "close", exc |-> main.exc, waits |-> None]]
  /\ main' = Resume
  /\ UNCHANGED <<m, call, conn, sock, io, hd, rm, loopVars, rpc, queue, heard, ops>>
-----------------------------------------------------------------------------
(* The main looper: one posted ActionRunnable at a time.  It copies the     *)
(* listener list and keeps its monitor until every listener has run: first  *)
(* the application's, then the ActionHandler, then the reconnect manager.   *)

ReconnectCares(t) == t \in {"SUCCESS", "FAILED", "DISC"}

\* ActionHandler.onSocketIOThreadStart()
DispatchStart ==
  /\ main.at = "idle" /\ queue # <<>> /\ Head(queue).type = "START"
  /\ hd' = [hd EXCEPT !.known = @ \cup hd.reg, !.called = @ \ hd.reg]
  /\ queue' = Tail(queue)
  /\ UNCHANGED <<m, call, conn, sock, io, disc, rm, loopVars, rpc, main, heard, ops>>

Announces(ev) == ev.type \in {"SUCCESS", "DISC"}

Dispatch ==
  /\ main.at = "idle" /\ queue # <<>> /\ Head(queue).type # "START"
  /\ main' = [at |-> IF Head(queue).type = "DISC" THEN "app" ELSE "handlers",
              ev |-> Head(queue), todo |-> hd.reg, rm |-> rm.reg, exc |-> "null"]
  /\ heard' = IF Announces(Head(queue))
              THEN Promise!Announcement(Head(queue).type, Head(queue).conn) ELSE heard
  /\ queue' = Tail(queue)
  /\ UNCHANGED <<mgrVars, loopVars, rpc, ops>>

\* The application's onSocketDisconnection() may call Client.connect().
AppHandles ==
  /\ main.at = "app"
  /\ main' = [main EXCEPT !.at = "handlers"]
  /\ UNCHANGED <<mgrVars, loopVars, rpc, queue, heard, ops>>

\* ActionHandler.onSocketIOThreadShutdown() and onSocketConnectionFailed(): a handler
\* that has seen no IO thread start does not know the mode and ignores the shutdown.
HandlerHandles ==
  /\ main.at = "handlers"
  /\ \E k \in main.todo :
       LET ignores == \/ main.ev.type \in {"SUCCESS", "DISC"}
                      \/ main.ev.type = "SHUTDOWN" /\ (k \notin hd.known \/ k \in hd.called)
           shuts   == ~ignores /\ main.ev.type = "SHUTDOWN"
       IN /\ main' = [main EXCEPT !.todo = @ \ {k}, !.exc = main.ev.exc,
                                  !.at = IF ignores THEN "handlers" ELSE "d1"]
          /\ hd' = IF shuts THEN [hd EXCEPT !.called = @ \cup {k}] ELSE hd
  /\ UNCHANGED <<m, call, conn, sock, io, disc, rm, loopVars, rpc, queue, heard, ops>>

HandlersDone ==
  /\ main.at = "handlers" /\ main.todo = {}
  /\ main' = IF main.rm # None /\ ReconnectCares(main.ev.type)
             THEN [main EXCEPT !.at = "reconnect"] ELSE Idle
  /\ UNCHANGED <<mgrVars, loopVars, rpc, queue, heard, ops>>

(* DefaultReconnectManager's callbacks.                                     *)

\* resetThread(), synchronized on the reconnect manager
ResetThread(r) == ~Monitored(r) /\ Loop!Shutdown(r)

\* Mutant of ReconnectDelay: the isShutdown() test is inverted.
ReconnectDelayInverted(r) == IF rIsShutdown[r] THEN UNCHANGED loopVars ELSE Loop!Start(r)

\* reconnectDelay()
ReconnectDelay(r) == IF rIsShutdown[r] THEN Loop!Start(r) ELSE UNCHANGED loopVars

\* onSocketConnectionSuccess(), onSocketDisconnection()
ReconnectHandles ==
  /\ main.at = "reconnect" /\ main.ev.type \in {"SUCCESS", "DISC"}
  /\ IF main.ev.type = "DISC" /\ main.ev.exc # "null"
     THEN ReconnectDelay(main.rm) ELSE ResetThread(main.rm)
  /\ main' = Idle
  /\ UNCHANGED <<mgrVars, rpc, queue, heard, ops>>

\* onSocketConnectionFailed(): past the limit the loop is reset before the delay; the
\* address has no backup line to switch to.
ReconnectHandlesFailure ==
  /\ main.at = "reconnect" /\ main.ev.type = "FAILED"
  /\ LET n == rm.fails[main.rm] + 1 IN
     /\ rm' = [rm EXCEPT !.fails[main.rm] = IF n > MaxFailedTimes THEN MaxFailedTimes ELSE n]
     /\ IF n > MaxFailedTimes
        THEN ResetThread(main.rm) /\ main' = [main EXCEPT !.at = "delay"]
        ELSE ReconnectDelay(main.rm) /\ main' = Idle
  /\ UNCHANGED <<m, call, conn, sock, io, disc, hd, rpc, queue, heard, ops>>

ReconnectAfterReset ==
  /\ main.at = "delay"
  /\ ReconnectDelay(main.rm)
  /\ main' = Idle
  /\ UNCHANGED <<mgrVars, rpc, queue, heard, ops>>

MainEntersConnect == main.at = "connect" /\ ConnectEnter(Main)

MainThread ==
  \/ DispatchStart \/ Dispatch \/ AppHandles \/ HandlerHandles \/ HandlersDone
  \/ ReconnectHandles \/ ReconnectHandlesFailure \/ ReconnectAfterReset
  \/ DisconnectFlag \/ DisconnectDetach \/ DisconnectSpawn \/ MainEntersConnect
-----------------------------------------------------------------------------
(* ReconnectTestingThread: thread i of reconnect manager r.                 *)

ROthers == UNCHANGED <<mgrVars, queue, main, heard, ops>>
RAt(r, i, p) == rpc' = [rpc EXCEPT ![r][i] = p]
InBody(r, i, p) == rPhase[r][i] = "body" /\ rpc[r][i] = p

RRun(r, i) ==
  /\ \/ Loop!Enter(r, i) \/ Loop!TestStop(r, i) \/ Loop!MarkShutdown(r, i) \/ Loop!Finish(r, i)
  /\ UNCHANGED rpc /\ ROthers

\* if (mDetach) shutdown(), else the uninterruptible sleep
RTop(r, i) ==
  /\ InBody(r, i, "top")
  /\ IF r \in rm.detached THEN Loop!Shutdown(r) /\ RAt(r, i, "ret")
     ELSE RAt(r, i, "sleep") /\ UNCHANGED loopVars
  /\ ROthers

\* Mutant of RWake: mDetach is not tested again after the sleep.
RWakeIgnoresDetach(r, i) ==
  /\ InBody(r, i, "sleep")
  /\ Timely => Settled
  /\ RAt(r, i, "awake") /\ UNCHANGED loopVars
  /\ ROthers

\* after the sleep: mDetach is tested once more
RWake(r, i) ==
  /\ InBody(r, i, "sleep")
  /\ Timely => Settled
  /\ IF r \in rm.detached THEN Loop!Shutdown(r) /\ RAt(r, i, "ret")
     ELSE RAt(r, i, "awake") /\ UNCHANGED loopVars
  /\ ROthers

\* ... then isConnect(), both without the manager's monitor
RTestConnect(r, i) ==
  /\ InBody(r, i, "awake")
  /\ IF IsConnect THEN Loop!Shutdown(r) /\ RAt(r, i, "ret")
     ELSE RAt(r, i, "lock") /\ UNCHANGED loopVars
  /\ ROthers

\* synchronized (mConnectionManager) { if (!isConnect()) connect(); else shutdown(); }
RConnect(r, i) ==
  /\ InBody(r, i, "lock") /\ MgrFree
  /\ IF IsConnect THEN Loop!Shutdown(r) /\ RAt(r, i, "ret") /\ ROthers
     ELSE ConnectEnter(<<r, i>>)

RReturn(r, i) ==
  /\ InBody(r, i, "ret")
  /\ Loop!BodyReturns(r, i)
  /\ RAt(r, i, "top") /\ ROthers

ReconnectThread(r, i) ==
  \/ RRun(r, i) \/ RTop(r, i) \/ RWake(r, i) \/ RTestConnect(r, i) \/ RConnect(r, i)
  \/ RReturn(r, i)
-----------------------------------------------------------------------------
(* The application and the network.                                         *)

UserMay(kind) == kind \in UserCalls /\ ops < MaxOps /\ (Timely => Settled)

(* Client.connect(): option() with a new DefaultReconnectManager, connect().*)
NewReconnectManager(r) ==
  /\ r \notin {m.rm, rm.opt, rm.reg, main.rm}
  /\ \A i \in Incs : RDead(r, i)
  /\ rm' = [rm EXCEPT !.opt = r, !.detached = @ \ {r}, !.fails[r] = 0]

ClientConnect ==
  /\ IF AutoReconnect THEN \E r \in RMs : NewReconnectManager(r) ELSE UNCHANGED rm
  /\ main' = [main EXCEPT !.at = "connect"]
  /\ ops' = ops + 1
  /\ UNCHANGED <<m, call, conn, sock, io, disc, hd, loopVars, rpc, queue, heard>>

UserConnect == UserMay("connect") /\ main.at = "idle" /\ ClientConnect

AppReconnects ==
  /\ "connect_in_callback" \in UserCalls /\ ops < MaxOps
  /\ main.at = "app" /\ ClientConnect

\* disconnect() is a ManuallyDisconnectException, disconnect(e) the application's own.
UserDisconnect ==
  /\ main.at = "idle"
  /\ \E e \in {"Manual", "App"} :
       /\ UserMay(IF e = "Manual" THEN "disconnect" ELSE "disconnect_e")
       /\ main' = [main EXCEPT !.at = "d1", !.exc = e]
  /\ ops' = ops + 1
  /\ UNCHANGED <<mgrVars, loopVars, rpc, queue, heard>>

\* The server or the network breaks an established connection.
Break(k) ==
  /\ k \in Fragile /\ sock[k] = "open"
  /\ Timely => LoopsRest
  /\ sock' = [sock EXCEPT ![k] = "broken"]
  /\ UNCHANGED <<m, call, conn, io, disc, hd, rm, loopVars, rpc, queue, main, heard, ops>>

System ==
  \/ ConnectStep
  \/ MainThread
  \/ \E k \in Conns : ConnThread(k) \/ \E x \in {"r", "w"} : IoThread(k, x)
  \/ \E d \in Discs : DiscThread(d)
  \/ \E r \in RMs, i \in Incs : ReconnectThread(r, i)

Environment == UserConnect \/ AppReconnects \/ UserDisconnect \/ \E k \in Conns : Break(k)

Next == System \/ Environment

(* Every thread is scheduled.  A write on a broken connection need not come,*)
(* so a writer is only sure to end once close() has interrupted it.         *)
Fairness ==
  /\ WF_vars(ConnectStep) /\ WF_vars(MainThread)
  /\ \A k \in Conns :
       /\ WF_vars(ConnThread(k))
       /\ WF_vars(IoThread(k, "r"))
       /\ WF_vars(io[k].stop # "no" /\ IoThread(k, "w")) /\ WF_vars(IoEnter(k, "w"))
  /\ \A d \in Discs : WF_vars(DiscThread(d))
  /\ \A r \in RMs, i \in Incs : WF_vars(ReconnectThread(r, i))

Spec == Init /\ [][Next]_vars /\ Fairness
-----------------------------------------------------------------------------
Excs == {"Manual", "App", "IO", "UnConnect", "null"}
Opt(S) == S \cup {None}
Events == [type : {"START", "SHUTDOWN", "SUCCESS", "FAILED", "DISC"}, conn : Conns, exc : Excs]

TypeOK ==
  /\ m \in [socket : Opt(Conns), io : Opt(Conns), thread : Opt(Conns), handler : Opt(Conns),
            rm : Opt(RMs), pulse : Opt(Conns), permitted : BOOLEAN, disconnecting : BOOLEAN]
  /\ call \in [by : Opt(RMs) \X Opt(Incs), k : Opt(Conns),
               at : {"none", "unhandler", "handler", "register", "detach", "unlist",
                     "attach", "list"}]
  /\ conn \in [Conns -> [pc : {"none", "start", "call", "connecting", "resolve", "engine",
                               "success", "failed", "finally", "dead"}, tgt : Opt(Conns)]]
  /\ sock \in [Conns -> {"none", "new", "open", "broken", "closed"}]
  /\ io \in [Conns -> [r : {"none", "started", "running", "dead"}, sock : Opt(Conns),
                       w : {"none", "started", "running", "dead"}, stop : Excs \cup {"no"}]]
  /\ disc \in [Discs -> [pc : {"none", "close", "alive", "join", "socket", "handler", "null",
                               "flags", "post", "clear", "dead"},
                         exc : Excs, waits : Opt(Conns)]]
  /\ hd \in [reg : SUBSET Conns, known : SUBSET Conns, called : SUBSET Conns]
  /\ rm \in [reg : Opt(RMs), opt : Opt(RMs), detached : SUBSET RMs,
             fails : [RMs -> 0..MaxFailedTimes]]
  /\ Loop!TypeOK
  /\ rpc \in [RMs -> [Incs -> {"top", "sleep", "awake", "lock", "ret"}]]
  /\ queue \in Seq(Events)
  /\ main \in [at : {"idle", "app", "handlers", "reconnect", "delay", "connect",
                     "connecting", "d1", "d2", "d3"},
               ev : Events \cup {NoEvent}, todo : SUBSET Conns, rm : Opt(RMs), exc : Excs]
  /\ heard \in [type : {"SUCCESS", "DISC"}, conn : Opt(Conns), bit : 0..1]
  /\ ops \in 0..MaxOps

Pending == {queue[n] : n \in DOMAIN queue} \cup ({main.ev} \ {NoEvent})

Outcome(ev) == ev.type \in {"SUCCESS", "FAILED"}

\* ISocketActionListener.onSocketConnectionFailed(): "when this is called no IO thread
\* was started", whatever the other threads did to the socket field meanwhile.
FailedMeansNoIo ==
  \A ev \in Pending : ev.type = "FAILED" => io[ev.conn].r = "none" /\ io[ev.conn].w = "none"

\* Whatever the timing, what an attempt reports of itself is so until it is told: a success has
\* its IO threads, a failure none; and no attempt is reported twice, as both, or too early.
OutcomesAreTrue ==
  /\ FailedMeansNoIo
  /\ \A ev \in Pending : ev.type = "SUCCESS" => io[ev.conn].r # "none" /\ io[ev.conn].w # "none"
  /\ \A ev \in Pending : Outcome(ev) => conn[ev.conn].pc \in {"finally", "dead"}
  /\ \A i, j \in DOMAIN queue :
       Outcome(queue[i]) /\ Outcome(queue[j]) /\ queue[i].conn = queue[j].conn => i = j
  /\ \A i \in DOMAIN queue :
       Outcome(queue[i]) /\ Outcome(main.ev) => queue[i].conn # main.ev.conn

\* A connected socket is the one the manager holds: otherwise nobody can send on it or
\* close it, and its reader goes on delivering to the application.
NoOrphanSocket == \A k \in Conns : SockConnected(k) => m.socket = k

\* isDisconnecting() tells the truth until the disconnect thread has closed everything.
DisconnectingIsTruthful ==
  \A d \in Discs : DiscAlive(d) /\ disc[d].pc \notin {"post", "clear"} => m.disconnecting

\* Two disconnect threads never run together.
OneDisconnectThread == \A c, d \in Discs : DiscAlive(c) /\ DiscAlive(d) => c = d

\* onSocketDisconnection() is called "once the socket is completely disconnected".
AnnouncedWhenClosed ==
  \A ev \in Pending : ev.type = "DISC" => sock[ev.conn] = "closed"

\* A disconnect has the manager for itself until it has closed everything: isDisconnecting() says
\* so, and no second disconnect thread runs beside it.
DisconnectIsExclusive == DisconnectingIsTruthful /\ OneDisconnectThread

\* isDisconnecting, seen from disconnect(e) to the last line but two of the disconnect thread: one
\* disconnect at a time, and the flag says so.
Working(d) == DiscAlive(d) /\ disc[d].pc \notin {"post", "clear"}
DisconnectHasManager ==
  /\ \A d \in Discs : Working(d) => m.disconnecting
  /\ \A c, d \in Discs : Working(c) /\ Working(d) => c = d
  /\ main.at \in {"d2", "d3"} => m.disconnecting /\ \A d \in Discs : ~Working(d)

\* Whatever the timing, connect() alone can take the manager from a running disconnect (it clears
\* isDisconnecting): no other step of any thread resets the flag early or lets a second one in.
OnlyConnectIntrudes ==
  [][DisconnectHasManager => DisconnectHasManager' \/ (MgrFree /\ call' # NoCall)]_vars

\* A connection is refused for good only while something is left to allow it again:
\* an attempt, a disconnect, or a live connection whose end will run one.
PermissionIsRecoverable ==
  m.permitted \/ IsConnect \/ call # NoCall \/ (\E k \in Conns : ConnAlive(k))
  \/ (\E d \in Discs : DiscAlive(d)) \/ main.at \in {"d2", "d3"}

\* A reconnect manager that was detached gives its mission up: no attempt is its own.
DetachedNeverConnects ==
  [][\A r \in RMs : call = NoCall /\ call' # NoCall /\ call'.by[1] = r
                    => r \notin rm.detached]_vars

\* The application hears of one connection after the other, and each one it heard of is
\* announced lost, once, before the next: the detailed model implements ListenerPromise.
KeepsPromise == Promise!Spec

\* Every connect() that starts a thread is answered by SUCCESS or FAILED, and dispatched.
AttemptIsAnswered ==
  \A k \in Conns :
    conn[k].pc = "start" ~> main.ev.conn = k /\ main.ev.type \in {"SUCCESS", "FAILED"}

\* A broken connection is announced to the application.
BreakIsAnnounced ==
  \A k \in Conns : sock[k] = "broken" ~> main.ev.conn = k /\ main.ev.type = "DISC"

\* Both IO threads of a closed connection end (and so report their shutdown).
IoThreadsEnd == \A k \in Conns : sock[k] = "closed" ~> IoEnded(k)

\* While no disconnect() is asked for, an unconnected client keeps trying.
KeepsTrying ==
  m.rm # None /\ ~IsConnect ~> \/ \E k \in Conns : ConnAlive(k)
                               \/ IsConnect \/ m.rm \in rm.detached
=============================================================================
