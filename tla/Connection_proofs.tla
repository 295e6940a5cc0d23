--------------------------- MODULE Connection_proofs ---------------------------
(***************************************************************************)
(* The connection manager for any number of attempts, disconnect threads,  *)
(* reconnect managers and calls, and whatever the timing: its types, what  *)
(* an attempt reports of itself, who may interfere with a disconnect.      *)
(***************************************************************************)
EXTENDS Connection, SequenceTheorems, TLAPS

MgrStates == [socket : Opt(Conns), io : Opt(Conns), thread : Opt(Conns), handler : Opt(Conns),
              rm : Opt(RMs), pulse : Opt(Conns), permitted : BOOLEAN, disconnecting : BOOLEAN]
CallStates == [by : Opt(RMs) \X Opt(Incs), k : Opt(Conns),
               at : {"none", "unhandler", "handler", "register", "detach", "unlist",
                     "attach", "list"}]
ConnStates == [pc : {"none", "start", "call", "connecting", "resolve", "engine",
                     "success", "failed", "finally", "dead"}, tgt : Opt(Conns)]
SockStates == {"none", "new", "open", "broken", "closed"}
IoStates == [r : {"none", "started", "running", "dead"}, sock : Opt(Conns),
             w : {"none", "started", "running", "dead"}, stop : Excs \cup {"no"}]
DiscStates == [pc : {"none", "close", "alive", "join", "socket", "handler", "null",
                     "flags", "post", "clear", "dead"}, exc : Excs, waits : Opt(Conns)]
HdStates == [reg : SUBSET Conns, known : SUBSET Conns, called : SUBSET Conns]
RmStates == [reg : Opt(RMs), opt : Opt(RMs), detached : SUBSET RMs,
             fails : [RMs -> 0..MaxFailedTimes]]
MainStates == [at : {"idle", "app", "handlers", "reconnect", "delay", "connect",
                     "connecting", "d1", "d2", "d3"},
               ev : Events \cup {NoEvent}, todo : SUBSET Conns, rm : Opt(RMs), exc : Excs]
Places == {"top", "sleep", "awake", "lock", "ret"}

\* The types, one conjunct for the variables that change together; a connect() in progress has its
\* attempt, and detaches the reconnect manager it has found.
ManagerTyped ==
  /\ m \in MgrStates /\ call \in CallStates /\ hd \in HdStates /\ rm \in RmStates
  /\ call.at # "none" => call.k \in Conns
  /\ call.at = "detach" => m.rm # None
AttemptsTyped ==
  /\ conn \in [Conns -> ConnStates] /\ sock \in [Conns -> SockStates]
  /\ io \in [Conns -> IoStates]
DiscsTyped == disc \in [Discs -> DiscStates]
LoopsTyped == Loop!TypeOK /\ rpc \in [RMs -> [Incs -> Places]]
MainTyped == queue \in Seq(Events) /\ main \in MainStates
AppTyped == heard \in [type : {"SUCCESS", "DISC"}, conn : Opt(Conns), bit : 0..1] /\ ops \in 0..MaxOps

TypeInv == ManagerTyped /\ AttemptsTyped /\ DiscsTyped /\ LoopsTyped /\ MainTyped /\ AppTyped

LEMMA TypesAgree == TypeInv => TypeOK
  BY DEF TypeInv, ManagerTyped, AttemptsTyped, DiscsTyped, LoopsTyped, MainTyped, AppTyped, TypeOK,
         MgrStates, CallStates, ConnStates, SockStates, IoStates, DiscStates, HdStates, RmStates,
         MainStates, Places

\* The initial state.
LEMMA InitTyped == Init => TypeInv
  <1> SUFFICES ASSUME Init PROVE TypeInv
    OBVIOUS
  <1>1. ManagerTyped
    <2>1. MaxFailedTimes \in Nat
      BY ConnectionAssumption
    <2>2. rm \in RmStates
      BY <2>1 DEF Init, RmStates, Opt
    <2>3. call \in CallStates
      BY DEF Init, NoCall, Main, CallStates, Opt
    <2>4. m \in MgrStates /\ hd \in HdStates /\ call.at = "none"
      BY DEF Init, MgrStates, HdStates, Opt, NoCall
    <2> QED
      BY <2>2, <2>3, <2>4 DEF ManagerTyped
  <1>2. AttemptsTyped /\ DiscsTyped
    BY DEF Init, AttemptsTyped, DiscsTyped, ConnStates, SockStates, IoStates, NoIO, DiscStates, Opt,
           Excs
  <1>3. LoopsTyped
    BY DEF Init, Loop!Init, LoopsTyped, Loop!TypeOK, Loop!Phases, Loop!Dead, Places
  <1>4. MainTyped
    BY DEF Init, MainTyped, MainStates, Idle, Opt, Excs
  <1>5. AppTyped
    BY ConnectionAssumption DEF Init, Promise!Init, AppTyped, Opt
  <1> QED
    BY <1>1, <1>2, <1>3, <1>4, <1>5 DEF TypeInv
-----------------------------------------------------------------------------
(* What several steps do.                                                  *)

LEMMA PostTyped ==
  ASSUME MainTyped, NEW ev \in Events, Post(ev)
  PROVE  queue' \in Seq(Events)
  BY DEF MainTyped, Post

LEMMA TailTyped ==
  ASSUME MainTyped, queue # <<>>
  PROVE  Head(queue) \in Events /\ Tail(queue) \in Seq(Events)
  BY DEF MainTyped

LEMMA ResumeTyped == ASSUME MainTyped PROVE Resume \in MainStates
  BY DEF MainTyped, Resume, Idle, MainStates, Excs, Opt

LEMMA ShownTyped == ASSUME NEW e \in Excs PROVE Shown(e) \in Excs
  BY DEF Shown, Excs

\* The loop of a reconnect manager is started or stopped.
LEMMA LoopCallTyped ==
  ASSUME Loop!TypeOK, NEW r \in Opt(RMs), Loop!Start(r) \/ Loop!Shutdown(r)
  PROVE  Loop!TypeOK'
  <1>1. CASE Loop!Shutdown(r)
    BY <1>1 DEF Loop!Shutdown, Loop!StopFlags, Loop!TypeOK
  <1>2. CASE Loop!Start(r) /\ ~rIsStop[r]
    BY <1>2 DEF Loop!Start, Loop!TypeOK
  <1>3. CASE Loop!Start(r) /\ rIsStop[r]
    <2>1. PICK t \in Incs : /\ rThread' = [rThread EXCEPT ![r] = t]
                            /\ rIsStop' = [rIsStop EXCEPT ![r] = FALSE]
                            /\ rPhase' = [rPhase EXCEPT ![r][t] = "started"]
                            /\ UNCHANGED <<rIsShutdown, rException>>
      BY <1>3 DEF Loop!Start, Loop!To
    <2>2. rPhase' \in [RMs -> [Incs -> Loop!Phases]]
      BY <2>1 DEF Loop!TypeOK, Loop!Phases
    <2> QED
      BY <2>1, <2>2 DEF Loop!TypeOK
  <1> QED
    BY <1>1, <1>2, <1>3

\* connect() goes back to the main thread or to the reconnect thread that called it.
LEMMA ReturnTyped ==
  ASSUME MainTyped, LoopsTyped, NEW t \in Opt(RMs) \X Opt(Incs), Return(t)
  PROVE  main' \in MainStates /\ rpc' \in [RMs -> [Incs -> Places]]
  <1>1. CASE t = Main
    BY <1>1, ResumeTyped DEF Return, LoopsTyped
  <1>2. CASE t # Main
    BY <1>2 DEF Return, LoopsTyped, MainTyped, Places
  <1> QED
    BY <1>1, <1>2

LEMMA LoopsUnchanged ==
  ASSUME LoopsTyped, UNCHANGED loopVars, rpc' \in [RMs -> [Incs -> Places]]
  PROVE  LoopsTyped'
  BY DEF LoopsTyped, loopVars, Loop!TypeOK

LEMMA ConnectEnterTyped ==
  ASSUME TypeInv, NEW t \in Opt(RMs) \X Opt(Incs), ConnectEnter(t)
  PROVE  TypeInv'
  <1>0. ManagerTyped /\ AttemptsTyped /\ DiscsTyped /\ LoopsTyped /\ MainTyped /\ AppTyped
    BY DEF TypeInv
  <1>1. UNCHANGED <<disc, rm, loopVars, queue, heard, ops>>
    BY DEF ConnectEnter
  <1>2. CASE /\ m' = [m EXCEPT !.permitted = FALSE] /\ Return(t)
             /\ UNCHANGED <<call, conn, sock, io, hd>>
    <2>1. main' \in MainStates /\ rpc' \in [RMs -> [Incs -> Places]]
      BY <1>0, <1>2, ReturnTyped
    <2>2. ManagerTyped' /\ AttemptsTyped' /\ DiscsTyped' /\ AppTyped'
      BY <1>0, <1>1, <1>2 DEF ManagerTyped, AttemptsTyped, DiscsTyped, AppTyped, MgrStates
    <2>3. LoopsTyped' /\ MainTyped'
      BY <1>0, <1>1, <2>1, LoopsUnchanged DEF MainTyped
    <2> QED
      BY <2>2, <2>3 DEF TypeInv
  <1>3. CASE /\ m' = [m EXCEPT !.permitted = FALSE, !.disconnecting = FALSE]
             /\ \E k \in Conns :
                  /\ call' = [by |-> t, at |-> "unhandler", k |-> k]
                  /\ conn' = [conn EXCEPT ![k] = [pc |-> "none", tgt |-> None]]
                  /\ sock' = [sock EXCEPT ![k] = "none"]
                  /\ io' = [io EXCEPT ![k] = NoIO]
                  /\ hd' = [hd EXCEPT !.known = @ \ {k}, !.called = @ \ {k}]
             /\ IF t = Main THEN main' = [main EXCEPT !.at = "connecting"] /\ UNCHANGED rpc
                ELSE UNCHANGED <<main, rpc>>
    <2>1. PICK k \in Conns :
                  /\ call' = [by |-> t, at |-> "unhandler", k |-> k]
                  /\ conn' = [conn EXCEPT ![k] = [pc |-> "none", tgt |-> None]]
                  /\ sock' = [sock EXCEPT ![k] = "none"]
                  /\ io' = [io EXCEPT ![k] = NoIO]
                  /\ hd' = [hd EXCEPT !.known = @ \ {k}, !.called = @ \ {k}]
      BY <1>3
    <2>2. ManagerTyped'
      BY <1>0, <1>1, <1>3, <2>1 DEF ManagerTyped, MgrStates, CallStates, HdStates, Opt
    <2>3. AttemptsTyped'
      <3>1. conn' \in [Conns -> ConnStates]
        BY <1>0, <2>1 DEF AttemptsTyped, ConnStates, Opt
      <3>2. sock' \in [Conns -> SockStates]
        BY <1>0, <2>1 DEF AttemptsTyped, SockStates
      <3>3. io' \in [Conns -> IoStates]
        BY <1>0, <2>1 DEF AttemptsTyped, IoStates, NoIO, Opt
      <3> QED
        BY <3>1, <3>2, <3>3 DEF AttemptsTyped
    <2>4. main' \in MainStates /\ rpc' = rpc
      BY <1>0, <1>3 DEF MainTyped, MainStates
    <2>5. DiscsTyped' /\ AppTyped' /\ MainTyped'
      BY <1>0, <1>1, <2>4 DEF DiscsTyped, AppTyped, MainTyped
    <2>6. LoopsTyped'
      BY <1>0, <1>1, <2>4, LoopsUnchanged DEF LoopsTyped
    <2> QED
      BY <2>2, <2>3, <2>5, <2>6 DEF TypeInv
  <1>4. (\E k \in Conns : Free(k)) => (CHOOSE j \in Conns : Free(j)) \in Conns
    OBVIOUS
  <1> HIDE DEF Free
  <1> QED
    BY <1>2, <1>3, <1>4 DEF ConnectEnter

LEMMA ConnectStepTyped == ASSUME TypeInv, ConnectStep PROVE TypeInv'
  <1>0. ManagerTyped /\ AttemptsTyped /\ DiscsTyped /\ LoopsTyped /\ MainTyped /\ AppTyped
    BY DEF TypeInv
  <1>1. UNCHANGED <<sock, io, disc, loopVars, queue, heard, ops>>
    BY DEF ConnectStep, ConnectDropHandler, ConnectNewHandler, ConnectRegisterHandler,
           ConnectDetach, ConnectUnlist, ConnectAttach, ConnectSpawn
  <1>2. UNCHANGED <<conn, rpc, main>>
        \/ (ConnectSpawn /\ conn' = [conn EXCEPT ![call.k].pc = "start"] /\ Return(call.by))
    BY DEF ConnectStep, ConnectDropHandler, ConnectNewHandler, ConnectRegisterHandler,
           ConnectDetach, ConnectUnlist, ConnectAttach, ConnectSpawn
  <1>3. /\ conn' \in [Conns -> ConnStates]
        /\ main' \in MainStates /\ rpc' \in [RMs -> [Incs -> Places]]
    <2>1. CASE UNCHANGED <<conn, rpc, main>>
      BY <1>0, <2>1 DEF AttemptsTyped, MainTyped, LoopsTyped
    <2>2. CASE conn' = [conn EXCEPT ![call.k].pc = "start"] /\ Return(call.by)
      <3>1. call.by \in Opt(RMs) \X Opt(Incs)
        BY <1>0 DEF ManagerTyped, CallStates
      <3>2. conn' \in [Conns -> ConnStates]
        BY <1>0, <2>2 DEF AttemptsTyped, ConnStates
      <3> QED
        BY <1>0, <2>2, <3>1, <3>2, ReturnTyped
    <2> QED
      BY <1>2, <2>1, <2>2
  <1>4. AttemptsTyped' /\ DiscsTyped' /\ AppTyped' /\ MainTyped' /\ LoopsTyped'
    BY <1>0, <1>1, <1>3, LoopsUnchanged DEF AttemptsTyped, DiscsTyped, AppTyped, MainTyped
  <1>5. ManagerTyped'
    <2>0. /\ m \in MgrStates /\ call \in CallStates /\ hd \in HdStates /\ rm \in RmStates
          /\ call.at # "none" => call.k \in Conns
          /\ call.at = "detach" => m.rm # None
      BY <1>0 DEF ManagerTyped
    <2>1. CASE ConnectDropHandler
      BY <2>0, <2>1 DEF ConnectDropHandler, CallAt, ManagerTyped, CallStates, HdStates
    <2>2. CASE ConnectNewHandler
      BY <2>0, <2>2 DEF ConnectNewHandler, CallAt, ManagerTyped, CallStates, MgrStates
    <2>3. CASE ConnectRegisterHandler
      <3>1. call.k \in Conns
        BY <2>0, <2>3 DEF ConnectRegisterHandler
      <3>2. hd.reg \cup {call.k} \in SUBSET Conns
        BY <2>0, <3>1 DEF HdStates
      <3> QED
        BY <2>0, <2>3, <3>1, <3>2 DEF ConnectRegisterHandler, CallAt, ManagerTyped, CallStates, HdStates
    <2>4. CASE ConnectDetach
      <3>1. rm.detached \cup {m.rm} \in SUBSET RMs
        BY <2>0, <2>4 DEF ConnectDetach, MgrStates, RmStates, Opt
      <3> QED
        BY <2>0, <2>4, <3>1 DEF ConnectDetach, CallAt, ManagerTyped, CallStates, RmStates
    <2>5. CASE ConnectUnlist
      BY <2>0, <2>5 DEF ConnectUnlist, CallAt, ManagerTyped, CallStates, RmStates, Opt
    <2>6. CASE ConnectAttach
      BY <2>0, <2>6 DEF ConnectAttach, CallAt, ManagerTyped, CallStates, RmStates, MgrStates
    <2>7. CASE ConnectSpawn
      BY <2>0, <2>7 DEF ConnectSpawn, ManagerTyped, CallStates, RmStates, MgrStates, NoCall, Main,
                        Opt
    <2> QED
      BY <2>1, <2>2, <2>3, <2>4, <2>5, <2>6, <2>7 DEF ConnectStep
  <1> QED
    BY <1>4, <1>5 DEF TypeInv

\* The connect thread.
LEMMA ConnThreadTyped ==
  ASSUME TypeInv, NEW k \in Conns, ConnThread(k)
  PROVE  TypeInv'
  <1>0. ManagerTyped /\ AttemptsTyped /\ DiscsTyped /\ LoopsTyped /\ MainTyped /\ AppTyped
    BY DEF TypeInv
  <1>1. UNCHANGED <<call, disc, hd, rm, loopVars, rpc, main, heard, ops>>
    BY DEF ConnThread, CreateSocket, CallSocket, SocketAnswers, ResolveManager, StartEngine, Report,
           ConnectThreadEnds
  <1>2. m' \in MgrStates
    BY <1>0 DEF ConnThread, CreateSocket, CallSocket, SocketAnswers, ResolveManager, StartEngine,
                Report, ConnectThreadEnds, ManagerTyped, MgrStates, Opt
  <1>3. conn' \in [Conns -> ConnStates]
    <2>1. conn \in [Conns -> ConnStates] /\ m.socket \in Opt(Conns) /\ None \in Opt(Conns)
      BY <1>0 DEF AttemptsTyped, ManagerTyped, MgrStates, Opt
    <2>2. ASSUME NEW pc \in {"start", "call", "resolve", "engine", "success", "failed", "finally"},
                 ConnAt(k, pc)
          PROVE  conn' \in [Conns -> ConnStates]
      BY <2>1, <2>2 DEF ConnAt, ConnStates
    <2>3. ASSUME CallSocket(k) \/ ConnectThreadEnds(k)
          PROVE  conn' \in [Conns -> ConnStates]
      BY <2>1, <2>3 DEF CallSocket, ConnectThreadEnds, ConnStates
    <2> QED
      BY <2>2, <2>3 DEF ConnThread, CreateSocket, SocketAnswers, ResolveManager, StartEngine, Report
  <1>4. sock' \in [Conns -> SockStates]
    BY <1>0 DEF ConnThread, CreateSocket, CallSocket, SocketAnswers, ResolveManager, StartEngine,
                Report, ConnectThreadEnds, AttemptsTyped, SockStates
  <1>5. io' \in [Conns -> IoStates]
    <2>1. io \in [Conns -> IoStates] /\ m.socket \in Opt(Conns)
      BY <1>0 DEF AttemptsTyped, ManagerTyped, MgrStates
    <2>2. CASE ResolveManager(k)
      BY <2>1, <2>2 DEF ResolveManager, IoStates
    <2>3. CASE StartEngine(k)
      BY <2>1, <2>3 DEF StartEngine, IoStates
    <2>4. CASE io' = io
      BY <2>1, <2>4
    <2> QED
      BY <2>2, <2>3, <2>4 DEF ConnThread, CreateSocket, CallSocket, SocketAnswers, Report,
                              ConnectThreadEnds
  <1>6. queue' \in Seq(Events)
    <2>1. Event("SUCCESS", k, "null") \in Events /\ Event("FAILED", k, "UnConnect") \in Events
      BY DEF Event, Events, Excs
    <2>2. CASE Report(k)
      BY <1>0, <2>1, <2>2, PostTyped DEF Report
    <2>3. CASE queue' = queue
      BY <1>0, <2>3 DEF MainTyped
    <2> QED
      BY <2>2, <2>3 DEF ConnThread, CreateSocket, CallSocket, SocketAnswers, ResolveManager,
                        StartEngine, ConnectThreadEnds
  <1>7. m'.rm = m.rm
    <2>1. m \in MgrStates
      BY <1>0 DEF ManagerTyped
    <2> QED
      BY <2>1 DEF ConnThread, CreateSocket, CallSocket, SocketAnswers, ResolveManager,
                StartEngine, Report, ConnectThreadEnds, MgrStates
  <1> QED
    BY <1>0, <1>1, <1>2, <1>3, <1>4, <1>5, <1>6, <1>7, LoopsUnchanged
       DEF TypeInv, ManagerTyped, AttemptsTyped, DiscsTyped, MainTyped, AppTyped, LoopsTyped

\* The IO threads.
LEMMA IoThreadTyped ==
  ASSUME TypeInv, NEW k \in Conns, NEW x \in {"r", "w"}, IoThread(k, x)
  PROVE  TypeInv'
  <1>0. ManagerTyped /\ AttemptsTyped /\ DiscsTyped /\ LoopsTyped /\ MainTyped /\ AppTyped
    BY DEF TypeInv
  <1>1. UNCHANGED <<m, call, conn, sock, disc, hd, rm, loopVars, rpc, main, heard, ops>>
    BY DEF IoThread, IoEnter, IoDies
  <1>2. PICK p \in {"running", "dead"} : io' = IoAt(k, x, p)
    BY DEF IoThread, IoEnter, IoDies
  <1>3. io' \in [Conns -> IoStates]
    BY <1>0, <1>2 DEF IoAt, AttemptsTyped, IoStates
  <1>4. queue' \in Seq(Events)
    <2>1. ASSUME NEW e \in DiesOf(k) PROVE e \in Excs
      <3>1. io[k].stop \in Excs \cup {"no"}
        BY <1>0 DEF AttemptsTyped, IoStates
      <3>2. "IO" \in Excs
        BY DEF Excs
      <3> QED
        BY <2>1, <3>1, <3>2, ShownTyped DEF DiesOf
    <2>2. Event("START", k, "null") \in Events /\ \A e \in Excs : Event("SHUTDOWN", k, e) \in Events
      BY DEF Event, Events, Excs
    <2>3. PICK ev \in Events : Post(ev)
      BY <2>1, <2>2 DEF IoThread, IoEnter, IoDies
    <2> QED
      BY <1>0, <2>3, PostTyped
  <1> QED
    BY <1>0, <1>1, <1>3, <1>4, LoopsUnchanged
       DEF TypeInv, ManagerTyped, AttemptsTyped, DiscsTyped, MainTyped, AppTyped, LoopsTyped

\* The disconnect thread.
LEMMA DiscThreadTyped ==
  ASSUME TypeInv, NEW d \in Discs, DiscThread(d)
  PROVE  TypeInv'
  <1>0. ManagerTyped /\ AttemptsTyped /\ DiscsTyped /\ LoopsTyped /\ MainTyped /\ AppTyped
    BY DEF TypeInv
  <1>1. UNCHANGED <<call, conn, rm, loopVars, rpc, main, heard, ops>>
    BY DEF DiscThread, CloseManager, TestConnectThread, JoinConnectThread, CloseSocket, DropHandler,
           ClearHandler, ResetFlags, ReportDisconnection, ClearSocket
  <1>2. m \in MgrStates /\ hd \in HdStates /\ disc \in [Discs -> DiscStates] /\ disc[d] \in DiscStates
    BY <1>0 DEF ManagerTyped, DiscsTyped
  <1>3. m' \in MgrStates /\ m'.rm = m.rm
    BY <1>2 DEF DiscThread, CloseManager, TestConnectThread, JoinConnectThread, CloseSocket,
                DropHandler, ClearHandler, ResetFlags, ReportDisconnection, ClearSocket, MgrStates,
                Opt
  <1>4. hd' \in HdStates
    BY <1>2 DEF DiscThread, CloseManager, TestConnectThread, JoinConnectThread, CloseSocket,
                DropHandler, ClearHandler, ResetFlags, ReportDisconnection, ClearSocket, HdStates
  <1>5. disc' \in [Discs -> DiscStates]
    <2>1. ASSUME NEW pc \in {"alive", "socket", "handler", "null", "flags", "post", "clear", "dead"},
                 DiscAt(d, pc)
          PROVE  disc' \in [Discs -> DiscStates]
      BY <1>2, <2>1 DEF DiscAt, DiscStates
    <2>2. m.thread \in Opt(Conns) /\ None \in Opt(Conns)
      BY <1>2 DEF MgrStates, Opt
    <2>3. ASSUME TestConnectThread(d) \/ JoinConnectThread(d)
          PROVE  disc' \in [Discs -> DiscStates]
      <3>1. /\ [disc[d] EXCEPT !.pc = "join", !.waits = m.thread] \in DiscStates
            /\ [disc[d] EXCEPT !.pc = "socket", !.waits = None] \in DiscStates
            /\ [disc[d] EXCEPT !.pc = "socket"] \in DiscStates
        BY <1>2, <2>2 DEF DiscStates
      <3>2. PICK new \in DiscStates : disc' = [disc EXCEPT ![d] = new]
        BY <2>3, <3>1 DEF TestConnectThread, JoinConnectThread
      <3> QED
        BY <1>2, <3>2
    <2> QED
      BY <2>1, <2>3 DEF DiscThread, CloseManager, CloseSocket, DropHandler, ClearHandler,
                        ResetFlags, ReportDisconnection, ClearSocket
  <1>6. sock' \in [Conns -> SockStates] /\ io' \in [Conns -> IoStates]
    <2>1. sock \in [Conns -> SockStates] /\ io \in [Conns -> IoStates]
      BY <1>0 DEF AttemptsTyped
    <2>2. CASE CloseManager(d)
      <3>1. disc[d].exc \in Excs
        BY <1>2 DEF DiscStates
      <3> QED
        BY <2>1, <2>2, <3>1 DEF CloseManager, SockStates, IoStates
    <2>3. CASE CloseSocket(d)
      BY <2>1, <2>3 DEF CloseSocket, SockStates
    <2>4. CASE UNCHANGED <<sock, io>>
      BY <2>1, <2>4
    <2> QED
      BY <2>2, <2>3, <2>4 DEF DiscThread, TestConnectThread, JoinConnectThread, DropHandler,
                              ClearHandler, ResetFlags, ReportDisconnection, ClearSocket
  <1>7. queue' \in Seq(Events)
    <2>1. ASSUME m.socket # None PROVE Event("DISC", m.socket, Shown(disc[d].exc)) \in Events
      <3>1. m.socket \in Conns /\ disc[d].exc \in Excs
        BY <1>2, <2>1 DEF MgrStates, DiscStates, Opt
      <3>2. Shown(disc[d].exc) \in Excs
        BY <3>1, ShownTyped
      <3> QED
        BY <3>1, <3>2 DEF Event, Events
    <2>2. queue' = queue \/ \E ev \in Events : Post(ev)
      BY <2>1 DEF DiscThread, CloseManager, TestConnectThread, JoinConnectThread, CloseSocket,
                  DropHandler, ClearHandler, ResetFlags, ReportDisconnection, ClearSocket
    <2>3. queue \in Seq(Events)
      BY <1>0 DEF MainTyped
    <2> QED
      BY <1>0, <2>2, <2>3, PostTyped
  <1> QED
    BY <1>0, <1>1, <1>3, <1>4, <1>5, <1>6, <1>7, LoopsUnchanged
       DEF TypeInv, ManagerTyped, AttemptsTyped, DiscsTyped, MainTyped, AppTyped, LoopsTyped

\* disconnect(e) on the main thread.
LEMMA DisconnectTyped ==
  ASSUME TypeInv, DisconnectFlag \/ DisconnectDetach \/ DisconnectSpawn
  PROVE  TypeInv'
  <1>0. ManagerTyped /\ AttemptsTyped /\ DiscsTyped /\ LoopsTyped /\ MainTyped /\ AppTyped
    BY DEF TypeInv
  <1>1. UNCHANGED <<call, conn, sock, io, hd, loopVars, rpc, queue, heard, ops>>
    BY DEF DisconnectFlag, DisconnectDetach, DisconnectSpawn
  <1>2. m \in MgrStates /\ rm \in RmStates /\ main \in MainStates /\ disc \in [Discs -> DiscStates]
    BY <1>0 DEF ManagerTyped, MainTyped, DiscsTyped
  <1>3. m' \in MgrStates /\ m'.rm = m.rm
    BY <1>2 DEF DisconnectFlag, DisconnectDetach, DisconnectSpawn, MgrStates, Opt
  <1>4. rm' \in RmStates
    <2>1. m.rm # None => rm.detached \cup {m.rm} \in SUBSET RMs
      BY <1>2 DEF MgrStates, RmStates, Opt
    <2>2. None \in Opt(RMs)
      BY DEF Opt
    <2> QED
      BY <1>2, <2>1, <2>2 DEF DisconnectFlag, DisconnectDetach, DisconnectSpawn, RmStates
  <1>5. main' \in MainStates
    <2>1. Resume \in MainStates
      BY <1>0, ResumeTyped
    <2> HIDE DEF Resume
    <2> QED
      BY <1>2, <2>1 DEF DisconnectFlag, DisconnectDetach, DisconnectSpawn, MainStates
  <1>6. disc' \in [Discs -> DiscStates]
    <2>1. [pc |-> "close", exc |-> main.exc, waits |-> None] \in DiscStates
      BY <1>2 DEF MainStates, DiscStates, Opt
    <2> QED
      BY <1>2, <2>1 DEF DisconnectFlag, DisconnectDetach, DisconnectSpawn
  <1> QED
    BY <1>0, <1>1, <1>3, <1>4, <1>5, <1>6, LoopsUnchanged
       DEF TypeInv, ManagerTyped, AttemptsTyped, DiscsTyped, MainTyped, AppTyped, LoopsTyped

LEMMA LoopCallsTyped ==
  ASSUME LoopsTyped, rpc' = rpc, NEW r \in Opt(RMs),
         ReconnectDelay(r) \/ ResetThread(r) \/ UNCHANGED loopVars
  PROVE  LoopsTyped'
  <1>1. Loop!TypeOK'
    BY LoopCallTyped DEF LoopsTyped, ReconnectDelay, ResetThread, loopVars, Loop!TypeOK
  <1> QED
    BY <1>1 DEF LoopsTyped

\* The main looper.
LEMMA LooperTyped ==
  ASSUME TypeInv,
         \/ DispatchStart \/ Dispatch \/ AppHandles \/ HandlerHandles \/ HandlersDone
         \/ ReconnectHandles \/ ReconnectHandlesFailure \/ ReconnectAfterReset
  PROVE  TypeInv'
  <1>0. ManagerTyped /\ AttemptsTyped /\ DiscsTyped /\ LoopsTyped /\ MainTyped /\ AppTyped
    BY DEF TypeInv
  <1>10. main.ev.exc \in Excs /\ main.todo \in SUBSET Conns
    BY <1>0 DEF MainTyped, MainStates, Events, NoEvent, Event, Excs
  <1>11. \A a \in 0..MaxFailedTimes :
           (IF a + 1 > MaxFailedTimes THEN MaxFailedTimes ELSE a + 1) \in 0..MaxFailedTimes
    BY ConnectionAssumption
  <1>12. 1 - heard.bit \in 0..1
    BY <1>0 DEF AppTyped
  <1> USE DEF DispatchStart, Dispatch, AppHandles, HandlerHandles, HandlersDone, ReconnectHandles,
              ReconnectHandlesFailure, ReconnectAfterReset
  <1>1. UNCHANGED <<m, call, conn, sock, io, disc, rpc, ops>>
    BY DEF mgrVars
  <1>2. hd \in HdStates /\ rm \in RmStates /\ main \in MainStates /\ queue \in Seq(Events)
    BY <1>0 DEF ManagerTyped, MainTyped
  <1>3. queue # <<>> => Head(queue) \in Events /\ Tail(queue) \in Seq(Events)
    BY <1>0, TailTyped
  <1>4. queue' \in Seq(Events)
    BY <1>2, <1>3
  <1>5. hd' \in HdStates
    <2>1. PICK k \in main.todo \cup {None} :
            hd' \in {hd, [hd EXCEPT !.known = @ \cup hd.reg, !.called = @ \ hd.reg]}
            \/ (k \in main.todo /\ hd' = [hd EXCEPT !.called = @ \cup {k}])
      BY DEF mgrVars
    <2>2. k \in main.todo => hd.called \cup {k} \in SUBSET Conns
      BY <1>2, <1>10 DEF HdStates
    <2> QED
      BY <1>2, <2>1, <2>2 DEF HdStates
  <1>6. rm' \in RmStates
    <2>1. CASE rm' = rm
      BY <1>2, <2>1
    <2>2. CASE ReconnectHandlesFailure
      <3> DEFINE n == rm.fails[main.rm] + 1
                 f == IF n > MaxFailedTimes THEN MaxFailedTimes ELSE n
      <3>1. rm' = [rm EXCEPT !.fails[main.rm] = f]
        BY <2>2
      <3>2. main.rm \in RMs => f \in 0..MaxFailedTimes
        <4>1. main.rm \in RMs => rm.fails[main.rm] \in 0..MaxFailedTimes
          BY <1>2 DEF RmStates
        <4> QED
          BY <1>11, <4>1
      <3> HIDE DEF f
      <3>3. rm.fails \in [RMs -> 0..MaxFailedTimes]
        BY <1>2 DEF RmStates
      <3>4. [rm.fails EXCEPT ![main.rm] = f] \in [RMs -> 0..MaxFailedTimes]
        BY <3>2, <3>3
      <3> QED
        BY <1>2, <3>1, <3>4 DEF RmStates
    <2> QED
      BY <2>1, <2>2 DEF mgrVars
  <1>7. main' \in MainStates
    <2>1. Idle \in MainStates
      BY DEF Idle, MainStates, Opt, Excs
    <2>2. CASE DispatchStart
      BY <1>2, <2>2
    <2>3. CASE Dispatch
      <3>1. Head(queue) \in Events /\ hd.reg \in SUBSET Conns /\ rm.reg \in Opt(RMs)
        BY <1>2, <1>3, <2>3 DEF HdStates, RmStates
      <3>2. PICK a \in {"app", "handlers"} :
              main' = [at |-> a, ev |-> Head(queue), todo |-> hd.reg, rm |-> rm.reg,
                       exc |-> "null"]
        BY <2>3
      <3>3. \A ev \in Events, todo \in SUBSET Conns, r \in Opt(RMs) :
              [at |-> a, ev |-> ev, todo |-> todo, rm |-> r, exc |-> "null"] \in MainStates
        BY DEF MainStates, Excs
      <3> QED
        BY <3>1, <3>2, <3>3
    <2>4. CASE HandlerHandles
      <3>2. PICK k \in main.todo, p \in {"handlers", "d1"} :
              main' = [main EXCEPT !.todo = @ \ {k}, !.exc = main.ev.exc, !.at = p]
        BY <2>4
      <3> QED
        BY <1>2, <1>10, <3>2 DEF MainStates
    <2>5. CASE AppHandles \/ HandlersDone \/ ReconnectHandles \/ ReconnectHandlesFailure
               \/ ReconnectAfterReset
      <3> HIDE DEF Idle
      <3> QED
        BY <1>2, <2>1, <2>5 DEF MainStates
    <2> QED
      BY <2>2, <2>3, <2>4, <2>5
  <1>8. LoopsTyped'
    <2>1. main.rm \in Opt(RMs)
      BY <1>2 DEF MainStates
    <2>2. \E r \in Opt(RMs) : ReconnectDelay(r) \/ ResetThread(r) \/ UNCHANGED loopVars
      BY <2>1
    <2> QED
      BY <1>0, <1>1, <2>2, LoopCallsTyped
  <1>9. AppTyped'
    <2>1. CASE heard' = heard
      BY <1>0, <1>1, <2>1 DEF AppTyped
    <2>2. CASE Dispatch /\ Announces(Head(queue))
      <3>1. heard' = Promise!Announcement(Head(queue).type, Head(queue).conn)
        BY <2>2
      <3>2. Head(queue).type \in {"SUCCESS", "DISC"} /\ Head(queue).conn \in Opt(Conns)
        <4>1. Head(queue) \in Events /\ Announces(Head(queue))
          BY <1>3, <2>2
        <4>2. \A ev \in Events : Announces(ev) => ev.type \in {"SUCCESS", "DISC"}
                                                  /\ ev.conn \in Opt(Conns)
          BY DEF Announces, Events, Opt
        <4> QED
          BY <4>1, <4>2
      <3> QED
        BY <1>0, <1>1, <1>12, <3>1, <3>2 DEF AppTyped, Promise!Announcement
    <2> QED
      BY <2>1, <2>2
  <1> QED
    BY <1>0, <1>1, <1>4, <1>5, <1>6, <1>7, <1>8, <1>9
       DEF TypeInv, ManagerTyped, AttemptsTyped, DiscsTyped, MainTyped

\* The reconnect threads.
LEMMA ReconnectThreadTyped ==
  ASSUME TypeInv, NEW r \in RMs, NEW i \in Incs, ReconnectThread(r, i)
  PROVE  TypeInv'
  <1>0. ManagerTyped /\ AttemptsTyped /\ DiscsTyped /\ LoopsTyped /\ MainTyped /\ AppTyped
    BY DEF TypeInv
  <1>1. CASE RConnect(r, i) /\ ConnectEnter(<<r, i>>)
    <2>1. <<r, i>> \in Opt(RMs) \X Opt(Incs)
      BY DEF Opt
    <2> QED
      BY <1>1, <2>1, ConnectEnterTyped
  <1>2. CASE ROthers /\ ~(RConnect(r, i) /\ ConnectEnter(<<r, i>>))
    <2>1. rpc' = rpc \/ \E p \in Places : RAt(r, i, p)
      BY <1>2 DEF ReconnectThread, RRun, RTop, RWake, RTestConnect, RConnect, RReturn, Places
    <2>2. rpc' \in [RMs -> [Incs -> Places]]
      BY <1>0, <2>1 DEF RAt, LoopsTyped
    <2>3. ASSUME Loop!Enter(r, i) \/ Loop!TestStop(r, i) \/ Loop!MarkShutdown(r, i)
                 \/ Loop!Finish(r, i) \/ Loop!BodyReturns(r, i)
          PROVE  Loop!TypeOK'
      <3>1. Loop!TypeOK
        BY <1>0 DEF LoopsTyped
      <3>2. PICK p \in Loop!Phases : rPhase' = [rPhase EXCEPT ![r][i] = p]
        BY <2>3 DEF Loop!Enter, Loop!TestStop, Loop!MarkShutdown, Loop!Finish, Loop!BodyReturns,
                    Loop!To, Loop!Phases, Loop!Dead, Loop!Running
      <3>3. rPhase' \in [RMs -> [Incs -> Loop!Phases]]
        BY <3>1, <3>2 DEF Loop!TypeOK
      <3>4. /\ UNCHANGED <<rThread, rIsStop>>
            /\ rIsShutdown' \in [RMs -> BOOLEAN]
            /\ rException' \in [RMs -> {"error"} \cup {Loop!NoError}]
        BY <2>3, <3>1 DEF Loop!Enter, Loop!TestStop, Loop!MarkShutdown, Loop!Finish,
                          Loop!BodyReturns, Loop!TypeOK
      <3> QED
        BY <3>1, <3>3, <3>4 DEF Loop!TypeOK
    <2>4. ASSUME Loop!Shutdown(r) \/ UNCHANGED loopVars
          PROVE  Loop!TypeOK'
      BY <1>0, <2>4, LoopCallTyped DEF LoopsTyped, Opt, Loop!TypeOK, loopVars
    <2>5. Loop!TypeOK'
      BY <1>2, <2>3, <2>4 DEF ReconnectThread, RRun, RTop, RWake, RTestConnect, RConnect, RReturn
    <2>6. LoopsTyped'
      BY <2>2, <2>5 DEF LoopsTyped
    <2>7. UNCHANGED <<mgrVars, queue, main, heard, ops>>
      BY <1>2 DEF ROthers
    <2> QED
      BY <1>0, <2>6, <2>7
         DEF TypeInv, ManagerTyped, AttemptsTyped, DiscsTyped, MainTyped, AppTyped, mgrVars
  <1>3. ROthers \/ (RConnect(r, i) /\ ConnectEnter(<<r, i>>))
    BY DEF ReconnectThread, RRun, RTop, RWake, RTestConnect, RConnect, RReturn
  <1> QED
    BY <1>1, <1>2, <1>3

\* The application and the network.
LEMMA EnvironmentTyped == ASSUME TypeInv, Environment PROVE TypeInv'
  <1>0. ManagerTyped /\ AttemptsTyped /\ DiscsTyped /\ LoopsTyped /\ MainTyped /\ AppTyped
    BY DEF TypeInv
  <1>1. CASE \E k \in Conns : Break(k)
    BY <1>0, <1>1, LoopsUnchanged
       DEF Break, TypeInv, ManagerTyped, AttemptsTyped, DiscsTyped, MainTyped, AppTyped, SockStates,
           LoopsTyped
  <1>2. CASE UserConnect \/ AppReconnects \/ UserDisconnect
    <2>1. UNCHANGED <<m, call, conn, sock, io, disc, hd, loopVars, rpc, queue, heard>>
      BY <1>2 DEF UserConnect, AppReconnects, UserDisconnect, ClientConnect, mgrVars
    <2>2. main' \in MainStates
      <3>1. main \in MainStates /\ "Manual" \in Excs /\ "App" \in Excs
        BY <1>0 DEF MainTyped, Excs
      <3> QED
        BY <1>2, <3>1 DEF UserConnect, AppReconnects, UserDisconnect, ClientConnect, MainStates
    <2>3. ops' \in 0..MaxOps
      <3>1. ops' = ops + 1 /\ ops < MaxOps
        BY <1>2 DEF UserConnect, AppReconnects, UserDisconnect, ClientConnect, UserMay
      <3> QED
        BY <1>0, <3>1, ConnectionAssumption DEF AppTyped
    <2>4. rm' \in RmStates
      <3>1. rm \in RmStates
        BY <1>0 DEF ManagerTyped
      <3>2. CASE rm' = rm
        BY <3>1, <3>2
      <3>3. ASSUME NEW r \in RMs, NewReconnectManager(r) PROVE rm' \in RmStates
        <4>1. rm' = [rm EXCEPT !.opt = r, !.detached = @ \ {r}, !.fails[r] = 0]
          BY <3>3 DEF NewReconnectManager
        <4>2. 0 \in 0..MaxFailedTimes
          BY ConnectionAssumption
        <4>3. [rm.fails EXCEPT ![r] = 0] \in [RMs -> 0..MaxFailedTimes]
          BY <3>1, <4>2 DEF RmStates
        <4> QED
          BY <3>1, <4>1, <4>3 DEF RmStates, Opt
      <3> QED
        BY <1>2, <3>2, <3>3 DEF UserConnect, AppReconnects, UserDisconnect, ClientConnect, mgrVars
    <2> QED
      BY <1>0, <2>1, <2>2, <2>3, <2>4, LoopsUnchanged
         DEF TypeInv, ManagerTyped, AttemptsTyped, DiscsTyped, MainTyped, AppTyped, LoopsTyped
  <1> QED
    BY <1>1, <1>2 DEF Environment

LEMMA NextTyped == ASSUME TypeInv, [Next]_vars PROVE TypeInv'
  <1>1. CASE MainThread
    <2>1. Main \in Opt(RMs) \X Opt(Incs)
      BY DEF Main, Opt
    <2> QED
      BY <1>1, <2>1, LooperTyped, DisconnectTyped, ConnectEnterTyped DEF MainThread, MainEntersConnect
  <1>2. CASE System
    BY <1>1, <1>2, ConnectStepTyped, ConnThreadTyped, IoThreadTyped, DiscThreadTyped,
       ReconnectThreadTyped DEF System
  <1>3. CASE UNCHANGED vars
    BY <1>3 DEF TypeInv, ManagerTyped, AttemptsTyped, DiscsTyped, LoopsTyped, MainTyped, AppTyped,
                Loop!TypeOK, vars, mgrVars, loopVars
  <1> QED
    BY <1>2, <1>3, EnvironmentTyped DEF Next

\* The fields of the manager, its threads and what is posted stay in range, for any number of
\* attempts, disconnects, reconnect managers and calls, whatever the timing: in particular every
\* callback that is dispatched names a connection.
THEOREM ConnectionTypeCorrect == Spec => []TypeOK
  <1>1. TypeInv /\ [Next]_vars => TypeInv'
    BY NextTyped
  <1> QED
    BY <1>1, InitTyped, TypesAgree, PTL DEF Spec
-----------------------------------------------------------------------------
(* Who may interfere with a disconnect.                                    *)

\* A step that leaves the flag and the disconnect threads alone, and does not go on inside
\* disconnect(e).
LEMMA DisconnectFrame ==
  ASSUME DisconnectHasManager, disc' = disc, m'.disconnecting = m.disconnecting,
         main'.at \in {"d2", "d3"} => main'.at = main.at
  PROVE  DisconnectHasManager'
  BY DEF DisconnectHasManager, Working, DiscAlive

LEMMA ResumeLeaves == ASSUME TypeInv PROVE Resume.at \notin {"d2", "d3"}
  BY DEF Resume, Idle, TypeInv, MainTyped, MainStates

\* A connect() that is refused leaves the flag alone; one that is not takes the manager.
LEMMA ConnectEnterIntrudes ==
  ASSUME TypeInv, DisconnectHasManager, NEW t, ConnectEnter(t)
  PROVE  DisconnectHasManager' \/ (MgrFree /\ call' # NoCall)
  <1>1. CASE /\ m' = [m EXCEPT !.permitted = FALSE] /\ Return(t)
             /\ UNCHANGED <<call, conn, sock, io, hd>>
    <2>1. m'.disconnecting = m.disconnecting
      BY <1>1 DEF TypeInv, ManagerTyped, MgrStates
    <2>2. main'.at \in {"d2", "d3"} => main'.at = main.at
      BY <1>1, ResumeLeaves DEF Return
    <2> QED
      BY <2>1, <2>2, DisconnectFrame DEF ConnectEnter
  <1>2. CASE \E k : call' = [by |-> t, at |-> "unhandler", k |-> k]
    BY <1>2 DEF NoCall, ConnectEnter
  <1> QED
    BY <1>1, <1>2 DEF ConnectEnter

\* A disconnect thread: the one at work has the manager to itself, so the flag is its own to reset.
LEMMA DiscThreadKeeps ==
  ASSUME TypeInv, DisconnectHasManager, NEW d \in Discs, DiscThread(d)
  PROVE  DisconnectHasManager'
  <1>1. m \in MgrStates /\ disc \in [Discs -> DiscStates] /\ disc[d] \in DiscStates
    BY DEF TypeInv, ManagerTyped, DiscsTyped
  <1>2. main' = main
    BY DEF DiscThread, CloseManager, TestConnectThread, JoinConnectThread, CloseSocket,
           DropHandler, ClearHandler, ResetFlags, ReportDisconnection, ClearSocket
  <1>3. /\ DiscAlive(d)
        /\ \A c \in Discs \ {d} : disc'[c] = disc[c]
        /\ disc'[d].pc \notin {"none", "close"}
    <2>1. DiscAlive(d)
      BY DEF DiscThread, CloseManager, TestConnectThread, JoinConnectThread, CloseSocket,
           DropHandler, ClearHandler, ResetFlags, ReportDisconnection, ClearSocket, DiscAlive
    <2>2. CASE \E pc \in {"alive", "flags", "handler", "null", "post", "clear", "dead"} : DiscAt(d, pc)
      BY <1>1, <2>1, <2>2 DEF DiscAt, DiscStates
    <2>3. CASE TestConnectThread(d)
      BY <1>1, <2>1, <2>3 DEF TestConnectThread, DiscStates
    <2>4. CASE JoinConnectThread(d)
      BY <1>1, <2>1, <2>4 DEF JoinConnectThread, DiscStates
    <2>5. TestConnectThread(d) \/ JoinConnectThread(d)
          \/ \E pc \in {"alive", "flags", "handler", "null", "post", "clear", "dead"} : DiscAt(d, pc)
      BY DEF DiscThread, CloseManager, CloseSocket, DropHandler, ClearHandler, ResetFlags,
             ReportDisconnection, ClearSocket
    <2> QED
      BY <2>1, <2>2, <2>3, <2>4, <2>5
  <1>4. CASE ResetFlags(d)
    <2>1. Working(d) /\ disc'[d].pc = "post"
      BY <1>1, <1>4 DEF ResetFlags, DiscAt, Working, DiscAlive, DiscStates
    <2>2. \A c \in Discs : ~Working(c)'
      BY <1>3, <2>1 DEF DisconnectHasManager, Working, DiscAlive
    <2>3. main.at \notin {"d2", "d3"}
      BY <2>1 DEF DisconnectHasManager
    <2> QED
      BY <1>2, <2>2, <2>3 DEF DisconnectHasManager
  <1>5. CASE ~ResetFlags(d)
    <2>1. m'.disconnecting = m.disconnecting
      BY <1>1, <1>5 DEF DiscThread, CloseManager, TestConnectThread, JoinConnectThread, CloseSocket,
           DropHandler, ClearHandler, ReportDisconnection, ClearSocket, MgrStates
    <2>2. disc[d].pc \in {"post", "clear"} => disc'[d].pc \in {"clear", "dead"}
      BY <1>1 DEF DiscThread, CloseManager, TestConnectThread, JoinConnectThread, CloseSocket,
           DropHandler, ClearHandler, ResetFlags, ReportDisconnection, ClearSocket, DiscAt, DiscStates
    <2>3. Working(d)' => Working(d)
      BY <1>3, <2>2 DEF Working, DiscAlive
    <2>4. \A c \in Discs : Working(c)' => Working(c)
      BY <1>3, <2>3 DEF Working, DiscAlive
    <2> QED
      BY <1>2, <2>1, <2>4 DEF DisconnectHasManager
  <1> QED
    BY <1>4, <1>5

\* disconnect(e): the flag it finds unset says that no disconnect thread is at work.
LEMMA DisconnectKeeps ==
  ASSUME TypeInv, DisconnectHasManager, DisconnectFlag \/ DisconnectDetach \/ DisconnectSpawn
  PROVE  DisconnectHasManager'
  <1>1. m \in MgrStates /\ main \in MainStates /\ disc \in [Discs -> DiscStates]
    BY DEF TypeInv, ManagerTyped, MainTyped, DiscsTyped
  <1>2. Resume.at \notin {"d2", "d3"}
    BY ResumeLeaves
  <1>3. CASE DisconnectFlag
    <2>1. CASE m.disconnecting
      BY <1>2, <1>3, <2>1, DisconnectFrame DEF DisconnectFlag
    <2>2. CASE ~m.disconnecting
      <3>1. disc' = disc /\ m'.disconnecting
        BY <1>1, <1>3, <2>2 DEF DisconnectFlag, MgrStates
      <3>2. \A d \in Discs : ~Working(d)
        BY <2>2 DEF DisconnectHasManager
      <3>3. \A d \in Discs : ~Working(d)'
        BY <3>1, <3>2 DEF Working, DiscAlive
      <3> QED
        BY <3>1, <3>3 DEF DisconnectHasManager
    <2> QED
      BY <2>1, <2>2
  <1>4. CASE DisconnectDetach
    <2>1. m' = m /\ disc' = disc /\ main.at = "d2"
      BY <1>4 DEF DisconnectDetach
    <2>2. m.disconnecting /\ \A d \in Discs : ~Working(d)
      BY <2>1 DEF DisconnectHasManager
    <2>3. \A d \in Discs : ~Working(d)'
      BY <2>1, <2>2 DEF Working, DiscAlive
    <2> QED
      BY <2>1, <2>2, <2>3 DEF DisconnectHasManager
  <1>5. CASE DisconnectSpawn
    <2>1. m' = m /\ main' = Resume /\ main.at = "d3"
      BY <1>5 DEF DisconnectSpawn
    <2>2. m.disconnecting /\ \A d \in Discs : ~Working(d)
      BY <2>1 DEF DisconnectHasManager
    <2>3. PICK d : \A c \in Discs \ {d} : disc'[c] = disc[c]
      BY <1>1, <1>5 DEF DisconnectSpawn
    <2>4. \A c \in Discs : Working(c)' => c = d
      BY <2>2, <2>3 DEF Working, DiscAlive
    <2> QED
      BY <1>2, <2>1, <2>2, <2>4 DEF DisconnectHasManager
  <1> QED
    BY <1>3, <1>4, <1>5

\* Every other step leaves the disconnect alone.
LEMMA NextIntrudes ==
  ASSUME TypeInv, DisconnectHasManager, Next
  PROVE  DisconnectHasManager' \/ (MgrFree /\ call' # NoCall)
  <1>0. m \in MgrStates /\ main \in MainStates
    BY DEF TypeInv, ManagerTyped, MainTyped
  <1>1. CASE ConnectStep
    <2>1. disc' = disc /\ m'.disconnecting = m.disconnecting
      BY <1>0, <1>1 DEF ConnectStep, ConnectDropHandler, ConnectNewHandler, ConnectRegisterHandler,
             ConnectDetach, ConnectUnlist, ConnectAttach, ConnectSpawn, MgrStates
    <2>2. main'.at \in {"d2", "d3"} => main'.at = main.at
      BY <1>1, ResumeLeaves DEF ConnectStep, ConnectDropHandler, ConnectNewHandler,
             ConnectRegisterHandler, ConnectDetach, ConnectUnlist, ConnectAttach, ConnectSpawn, Return
    <2> QED
      BY <2>1, <2>2, DisconnectFrame
  <1>2. CASE \E k \in Conns : ConnThread(k)
    <2>1. disc' = disc /\ main' = main /\ m'.disconnecting = m.disconnecting
      BY <1>0, <1>2 DEF ConnThread, CreateSocket, CallSocket, SocketAnswers, ResolveManager,
             StartEngine, Report, ConnectThreadEnds, MgrStates
    <2> QED
      BY <2>1, DisconnectFrame
  <1>3. CASE \E k \in Conns, x \in {"r", "w"} : IoThread(k, x)
    BY <1>3, DisconnectFrame DEF IoThread, IoEnter, IoDies
  <1>4. CASE \E d \in Discs : DiscThread(d)
    BY <1>4, DiscThreadKeeps
  <1>5. CASE \E r \in RMs, i \in Incs : ReconnectThread(r, i)
    <2>1. PICK r \in RMs, i \in Incs : ROthers \/ ConnectEnter(<<r, i>>)
      BY <1>5 DEF ReconnectThread, RRun, RTop, RWake, RTestConnect, RConnect, RReturn
    <2> QED
      BY <2>1, ConnectEnterIntrudes, DisconnectFrame DEF ROthers, mgrVars
  <1>6. CASE MainThread
    <2>1. CASE DisconnectFlag \/ DisconnectDetach \/ DisconnectSpawn
      BY <2>1, DisconnectKeeps
    <2>2. CASE MainEntersConnect
      BY <2>2, ConnectEnterIntrudes DEF MainEntersConnect
    <2>3. CASE \/ DispatchStart \/ Dispatch \/ AppHandles \/ HandlerHandles \/ HandlersDone
               \/ ReconnectHandles \/ ReconnectHandlesFailure \/ ReconnectAfterReset
      <3>1. disc' = disc /\ m' = m
        BY <2>3 DEF DispatchStart, Dispatch, AppHandles, HandlerHandles, HandlersDone,
               ReconnectHandles, ReconnectHandlesFailure, ReconnectAfterReset, mgrVars
      <3>2. main' = main \/ main'.at \notin {"d2", "d3"}
        <4>1. CASE HandlerHandles
          <5>1. PICK k \in main.todo, p \in {"handlers", "d1"} :
                  main' = [main EXCEPT !.todo = @ \ {k}, !.exc = main.ev.exc, !.at = p]
            BY <4>1 DEF HandlerHandles
          <5> QED
            BY <1>0, <5>1 DEF MainStates
        <4>2. Idle.at = "idle" /\ \A a : [main EXCEPT !.at = a].at = a
          BY <1>0 DEF Idle, MainStates
        <4> HIDE DEF Idle
        <4>3. CASE Dispatch
          BY <4>3 DEF Dispatch
        <4>4. CASE DispatchStart \/ AppHandles \/ HandlersDone
          BY <4>2, <4>4 DEF DispatchStart, AppHandles, HandlersDone
        <4>5. CASE ReconnectHandles \/ ReconnectHandlesFailure \/ ReconnectAfterReset
          BY <4>2, <4>5 DEF ReconnectHandles, ReconnectHandlesFailure, ReconnectAfterReset
        <4> QED
          BY <2>3, <4>1, <4>3, <4>4, <4>5
      <3> QED
        BY <3>1, <3>2, DisconnectFrame
    <2> QED
      BY <1>6, <2>1, <2>2, <2>3 DEF MainThread
  <1>7. CASE Environment
    <2>1. disc' = disc /\ m' = m
      BY <1>7 DEF Environment, UserConnect, AppReconnects, UserDisconnect, ClientConnect, Break,
             mgrVars
    <2>2. main' = main \/ main'.at \notin {"d2", "d3"}
      BY <1>0, <1>7 DEF Environment, UserConnect, AppReconnects, UserDisconnect, ClientConnect,
             Break, MainStates
    <2> QED
      BY <2>1, <2>2, DisconnectFrame
  <1> QED
    BY <1>1, <1>2, <1>3, <1>4, <1>5, <1>6, <1>7 DEF Next, System

\* While a disconnect runs, from the flag to the socket's close, no step of any thread, however the
\* threads interleave, sets isDisconnecting back or lets a second disconnect in, except a connect()
\* that is not refused: disconnect(e), DisconnectThread and connect() of ConnectionManagerImpl.
THEOREM DisconnectIsIntrudedByConnectOnly == Spec => OnlyConnectIntrudes
  <1>1. TypeInv /\ [Next]_vars => TypeInv'
    BY NextTyped
  <1>2. TypeInv /\ [Next]_vars
        => [DisconnectHasManager => DisconnectHasManager' \/ (MgrFree /\ call' # NoCall)]_vars
    BY NextIntrudes
  <1> QED
    BY <1>1, <1>2, InitTyped, PTL DEF Spec, OnlyConnectIntrudes
-----------------------------------------------------------------------------
(* What an attempt reports of itself.                                      *)

Started(k)   == io[k].r # "none" /\ io[k].w # "none"
Unstarted(k) == io[k].r = "none" /\ io[k].w = "none"

\* An outcome that is posted or in dispatch is that of an attempt that has reported, and is true.
OutcomeOk(ev) ==
  Outcome(ev) => /\ conn[ev.conn].pc \in {"finally", "dead"}
                 /\ IF ev.type = "SUCCESS" THEN Started(ev.conn) ELSE Unstarted(ev.conn)

\* The IO threads follow the place of the connect thread, and a connect() in progress has not
\* started its own yet.
ThreadsInv ==
  /\ call.at # "none" => conn[call.k].pc = "none"
  /\ \A k \in Conns : conn[k].pc \notin {"success", "finally", "dead"} => Unstarted(k)
  /\ \A k \in Conns : conn[k].pc = "success" => Started(k)

OutcomesInv ==
  /\ \A n \in DOMAIN queue : OutcomeOk(queue[n])
  /\ OutcomeOk(main.ev)
  /\ \A i, j \in DOMAIN queue :
       Outcome(queue[i]) /\ Outcome(queue[j]) /\ queue[i].conn = queue[j].conn => i = j
  /\ \A i \in DOMAIN queue :
       Outcome(queue[i]) /\ Outcome(main.ev) => queue[i].conn # main.ev.conn

LEMMA OutcomesAgree == OutcomesInv => OutcomesAreTrue
  <1> SUFFICES ASSUME OutcomesInv PROVE OutcomesAreTrue
    OBVIOUS
  <1>1. ASSUME NEW ev \in Pending PROVE OutcomeOk(ev)
    BY DEF Pending, OutcomesInv
  <1>2. FailedMeansNoIo
    BY <1>1 DEF FailedMeansNoIo, OutcomeOk, Outcome, Unstarted
  <1>3. \A ev \in Pending : ev.type = "SUCCESS" => io[ev.conn].r # "none" /\ io[ev.conn].w # "none"
    BY <1>1 DEF OutcomeOk, Outcome, Started
  <1>4. \A ev \in Pending : Outcome(ev) => conn[ev.conn].pc \in {"finally", "dead"}
    BY <1>1 DEF OutcomeOk
  <1> QED
    BY <1>2, <1>3, <1>4 DEF OutcomesAreTrue, OutcomesInv

LEMMA InitOutcomes == Init => ThreadsInv /\ OutcomesInv
  BY DEF Init, ThreadsInv, OutcomesInv, OutcomeOk, Outcome, NoCall, NoIO, Idle, NoEvent, Event,
         Unstarted

\* k has an outcome that is posted or in dispatch.
Owed(k) == \/ \E n \in DOMAIN queue : Outcome(queue[n]) /\ queue[n].conn = k
           \/ Outcome(main.ev) /\ main.ev.conn = k

\* A step after which what is posted or in dispatch is still so.
Stays == \A k \in Conns : Owed(k) => /\ conn'[k].pc \in {"finally", "dead"}
                                     /\ Started(k) => Started(k)'
                                     /\ Unstarted(k) => Unstarted(k)'

LEMMA OwedReported ==
  ASSUME OutcomesInv, NEW k \in Conns, Owed(k)
  PROVE  conn[k].pc \in {"finally", "dead"}
  BY DEF OutcomesInv, OutcomeOk, Owed

LEMMA OutcomeConn ==
  ASSUME TypeInv
  PROVE  /\ \A n \in DOMAIN queue : queue[n] \in Events /\ queue[n].conn \in Conns
         /\ Outcome(main.ev) => main.ev.conn \in Conns
  <1>1. queue \in Seq(Events) /\ main \in MainStates
    BY DEF TypeInv, MainTyped
  <1>2. \A n \in DOMAIN queue : queue[n] \in Events
    BY <1>1
  <1>3. \A ev \in Events : ev.conn \in Conns
    BY DEF Events
  <1>4. main.ev \in Events \cup {NoEvent}
    BY <1>1 DEF MainStates
  <1>5. ~Outcome(NoEvent)
    BY DEF NoEvent, Event, Outcome
  <1> QED
    BY <1>2, <1>3, <1>4, <1>5

\* Nothing is posted: the event in dispatch stays, or is done with.
LEMMA KeptQueue ==
  ASSUME TypeInv, OutcomesInv, Stays, queue' = queue, main'.ev \in {main.ev, NoEvent}
  PROVE  OutcomesInv'
  <1>1. ASSUME NEW n \in DOMAIN queue PROVE OutcomeOk(queue[n])'
    <2>1. Outcome(queue[n]) => Owed(queue[n].conn) /\ queue[n].conn \in Conns
      BY OutcomeConn DEF Owed
    <2>2. OutcomeOk(queue[n])
      BY DEF OutcomesInv
    <2> QED
      BY <2>1, <2>2 DEF Stays, OutcomeOk, Started, Unstarted, Outcome
  <1>2. OutcomeOk(main.ev)'
    <2>1. ~Outcome(NoEvent)
      BY DEF Outcome, NoEvent, Event
    <2>2. Outcome(main.ev) => Owed(main.ev.conn) /\ main.ev.conn \in Conns
      BY OutcomeConn DEF Owed
    <2>3. OutcomeOk(main.ev)
      BY DEF OutcomesInv
    <2> QED
      BY <2>1, <2>2, <2>3 DEF Stays, OutcomeOk, Started, Unstarted, Outcome
  <1>3. ~Outcome(NoEvent)
    BY DEF Outcome, NoEvent, Event
  <1> QED
    BY <1>1, <1>2, <1>3 DEF OutcomesInv, Outcome

\* The looper takes the first callback.
LEMMA TakenEvent ==
  ASSUME TypeInv, OutcomesInv, Stays, queue # <<>>, queue' = Tail(queue),
         main'.ev = Head(queue) \/ (main'.ev = main.ev /\ ~Outcome(Head(queue)))
  PROVE  OutcomesInv'
  <1>1. /\ queue \in Seq(Events) /\ Len(queue) \in Nat /\ Len(queue) > 0
        /\ DOMAIN queue = 1..Len(queue) /\ Head(queue) = queue[1]
        /\ DOMAIN queue' = 1..(Len(queue) - 1)
        /\ \A n \in DOMAIN queue' : queue'[n] = queue[n + 1]
    BY DEF TypeInv, MainTyped
  <1>2. \A n \in DOMAIN queue' : n + 1 \in DOMAIN queue /\ n + 1 # 1
    BY <1>1
  <1>3. ASSUME NEW n \in DOMAIN queue PROVE OutcomeOk(queue[n]) /\ (Outcome(queue[n]) => Owed(queue[n].conn))
    BY DEF OutcomesInv, Owed
  <1>5. \A n \in DOMAIN queue' : OutcomeOk(queue[n])'
    <2>2. SUFFICES ASSUME NEW n \in DOMAIN queue' PROVE OutcomeOk(queue[n])'
      OBVIOUS
    <2>3. queue'[n] = queue[n + 1] /\ n + 1 \in DOMAIN queue
      BY <1>1, <1>2
    <2> QED
      BY <1>3, <2>3, OutcomeConn DEF Stays, OutcomeOk, Started, Unstarted, Outcome
  <1>6. OutcomeOk(main.ev)'
    <2>1. CASE main'.ev = Head(queue)
      <3>1. 1 \in DOMAIN queue /\ main'.ev = queue[1]
        BY <1>1, <2>1
      <3> QED
        BY <1>3, <3>1, OutcomeConn DEF Stays, OutcomeOk, Started, Unstarted, Outcome
    <2>2. CASE main'.ev = main.ev
      <3>1. OutcomeOk(main.ev) /\ (Outcome(main.ev) => Owed(main.ev.conn))
        BY DEF OutcomesInv, Owed
      <3> QED
        BY <2>2, <3>1, OutcomeConn DEF Stays, OutcomeOk, Started, Unstarted, Outcome
    <2> QED
      BY <2>1, <2>2
  <1>7. \A i, j \in DOMAIN queue' :
          Outcome(queue'[i]) /\ Outcome(queue'[j]) /\ queue'[i].conn = queue'[j].conn => i = j
    BY <1>1, <1>2 DEF OutcomesInv
  <1>8. \A i \in DOMAIN queue' :
          Outcome(queue'[i]) /\ Outcome(main'.ev) => queue'[i].conn # main'.ev.conn
    <2>1. CASE main'.ev = Head(queue)
      <3>1. 1 \in DOMAIN queue /\ main'.ev = queue[1]
        BY <1>1, <2>1
      <3> QED
        BY <1>1, <1>2, <3>1 DEF OutcomesInv
    <2>2. CASE main'.ev = main.ev
      BY <1>1, <1>2, <2>2 DEF OutcomesInv
    <2> QED
      BY <2>1, <2>2
  <1> QED
    BY <1>5, <1>6, <1>7, <1>8 DEF OutcomesInv, Outcome

\* A callback is posted: an outcome only if it is true and the first of its attempt.
LEMMA PostedEvent ==
  ASSUME TypeInv, OutcomesInv, Stays, main' = main, NEW new \in Events, Post(new),
         Outcome(new) => ~Owed(new.conn), OutcomeOk(new)'
  PROVE  OutcomesInv'
  <1>1. /\ queue \in Seq(Events) /\ Len(queue) \in Nat /\ DOMAIN queue = 1..Len(queue)
        /\ DOMAIN queue' = 1..(Len(queue) + 1) /\ queue'[Len(queue) + 1] = new
        /\ \A n \in DOMAIN queue : queue'[n] = queue[n]
    BY DEF TypeInv, MainTyped, Post
  <1>2. \A n \in DOMAIN queue' : n \in DOMAIN queue \/ n = Len(queue) + 1
    BY <1>1
  <1>3. ASSUME NEW n \in DOMAIN queue PROVE OutcomeOk(queue[n]) /\ (Outcome(queue[n]) => Owed(queue[n].conn))
    BY DEF OutcomesInv, Owed
  <1>4. OutcomeOk(main.ev) /\ (Outcome(main.ev) => Owed(main.ev.conn))
    BY DEF OutcomesInv, Owed
  <1>5. \A n \in DOMAIN queue' : OutcomeOk(queue[n])'
    <2>1. SUFFICES ASSUME NEW n \in DOMAIN queue' PROVE OutcomeOk(queue[n])'
      OBVIOUS
    <2>2. CASE n \in DOMAIN queue
      <3>1. queue'[n] = queue[n]
        BY <1>1, <2>2
      <3> QED
        BY <1>3, <2>2, <3>1, OutcomeConn DEF Stays, OutcomeOk, Started, Unstarted, Outcome
    <2>3. CASE n = Len(queue) + 1
      <3>1. queue'[n] = new
        BY <1>1, <2>3
      <3> QED
        BY <3>1 DEF OutcomeOk, Started, Unstarted, Outcome
    <2> QED
      BY <1>2, <2>2, <2>3
  <1>6. OutcomeOk(main.ev)'
    BY <1>4, OutcomeConn DEF Stays, OutcomeOk, Started, Unstarted, Outcome
  <1>7. \A i, j \in DOMAIN queue' :
          Outcome(queue'[i]) /\ Outcome(queue'[j]) /\ queue'[i].conn = queue'[j].conn => i = j
    <2>1. \A n \in DOMAIN queue : Outcome(queue[n]) /\ Outcome(new) => queue[n].conn # new.conn
      BY DEF Owed
    <2> QED
      BY <1>1, <1>2, <2>1 DEF OutcomesInv
  <1>8. \A i \in DOMAIN queue' :
          Outcome(queue'[i]) /\ Outcome(main'.ev) => queue'[i].conn # main'.ev.conn
    <2>1. Outcome(main.ev) /\ Outcome(new) => main.ev.conn # new.conn
      BY DEF Owed
    <2> QED
      BY <1>1, <1>2, <2>1 DEF OutcomesInv
  <1> QED
    BY <1>5, <1>6, <1>7, <1>8 DEF OutcomesInv, Outcome

LEMMA ResumeEvent == ASSUME TypeInv PROVE Resume.ev = main.ev
  BY DEF Resume, Idle, TypeInv, MainTyped, MainStates

\* connect(): the attempt's objects are those of no outcome that is still to be told.
LEMMA ConnectEnterOutcomes ==
  ASSUME TypeInv, ThreadsInv, OutcomesInv, NEW t, ConnectEnter(t)
  PROVE  ThreadsInv' /\ OutcomesInv'
  <1>1. queue' = queue /\ m \in MgrStates /\ call \in CallStates /\ main \in MainStates
    BY DEF ConnectEnter, TypeInv, ManagerTyped, MainTyped
  <1>2. conn \in [Conns -> ConnStates] /\ io \in [Conns -> IoStates]
    BY DEF TypeInv, AttemptsTyped
  <1>3. CASE /\ m' = [m EXCEPT !.permitted = FALSE] /\ Return(t)
             /\ UNCHANGED <<call, conn, sock, io, hd>>
    <2>1. ThreadsInv' /\ Stays
      BY <1>3, OwedReported DEF ThreadsInv, Started, Unstarted, Stays
    <2>2. main'.ev = main.ev
      BY <1>1, <1>3, ResumeEvent DEF Return
    <2> QED
      BY <1>1, <2>1, <2>2, KeptQueue
  <1>4. ASSUME NEW k \in Conns, Free(k),
               call' = [by |-> t, at |-> "unhandler", k |-> k],
               conn' = [conn EXCEPT ![k] = [pc |-> "none", tgt |-> None]],
               io' = [io EXCEPT ![k] = NoIO],
               IF t = Main THEN main' = [main EXCEPT !.at = "connecting"] /\ UNCHANGED rpc
               ELSE UNCHANGED <<main, rpc>>
        PROVE  ThreadsInv' /\ OutcomesInv'
    <2>1. /\ conn'[k].pc = "none" /\ Unstarted(k)'
          /\ \A j \in Conns \ {k} : conn'[j] = conn[j] /\ io'[j] = io[j]
      BY <1>2, <1>4 DEF Unstarted, NoIO
    <2>2. ~Owed(k)
      BY <1>4 DEF Free, Owed
    <2>3. ThreadsInv'
      BY <1>4, <2>1 DEF ThreadsInv, Started, Unstarted
    <2>4. Stays
      BY <2>1, <2>2, OwedReported DEF Stays, Started, Unstarted
    <2>5. main'.ev = main.ev
      BY <1>1, <1>4 DEF MainStates
    <2> QED
      BY <1>1, <2>3, <2>4, <2>5, KeptQueue
  <1>5. (\E k \in Conns : Free(k))
        => (CHOOSE j \in Conns : Free(j)) \in Conns /\ Free(CHOOSE j \in Conns : Free(j))
    OBVIOUS
  <1> HIDE DEF Free
  <1> QED
    BY <1>3, <1>4, <1>5 DEF ConnectEnter

\* A step that leaves the attempts' threads alone, whoever takes it.
LEMMA AttemptsKept ==
  ASSUME TypeInv, ThreadsInv, OutcomesInv, conn' = conn,
         call' = call \/ call'.at = "none" \/ (call.at # "none" /\ call'.k = call.k),
         \A k \in Conns : /\ Started(k) => Started(k)'
                          /\ Unstarted(k) => Unstarted(k)'
  PROVE  ThreadsInv' /\ Stays
  BY OwedReported DEF ThreadsInv, Stays

LEMMA ConnectStepOutcomes ==
  ASSUME TypeInv, ThreadsInv, OutcomesInv, ConnectStep
  PROVE  ThreadsInv' /\ OutcomesInv'
  <1>1. io' = io /\ queue' = queue
    BY DEF ConnectStep, ConnectDropHandler, ConnectNewHandler, ConnectRegisterHandler,
           ConnectDetach, ConnectUnlist, ConnectAttach, ConnectSpawn
  <1>2. CASE ConnectSpawn
    <2>1. /\ call.k \in Conns /\ call.at # "none" /\ call' = NoCall
          /\ conn' = [conn EXCEPT ![call.k].pc = "start"] /\ Return(call.by)
      BY <1>2 DEF ConnectSpawn, TypeInv, ManagerTyped
    <2>2. /\ conn[call.k].pc = "none" /\ conn'[call.k].pc = "start"
          /\ \A k \in Conns \ {call.k} : conn'[k] = conn[k]
      BY <2>1 DEF ThreadsInv, TypeInv, AttemptsTyped, ConnStates
    <2>3. main'.ev = main.ev
      BY <2>1, ResumeEvent DEF Return
    <2>4. ThreadsInv'
      BY <1>1, <2>1, <2>2 DEF ThreadsInv, Started, Unstarted, NoCall
    <2>5. Stays
      BY <1>1, <2>2, OwedReported DEF Stays, Started, Unstarted
    <2> QED
      BY <1>1, <2>3, <2>4, <2>5, KeptQueue
  <1>3. CASE ~ConnectSpawn
    <2>1. conn' = conn /\ main' = main /\ call.at # "none" /\ \E p : CallAt(p)
      BY <1>3 DEF ConnectStep, ConnectDropHandler, ConnectNewHandler, ConnectRegisterHandler,
             ConnectDetach, ConnectUnlist, ConnectAttach
    <2>2. call'.k = call.k
      BY <2>1 DEF CallAt, TypeInv, ManagerTyped, CallStates
    <2>3. ThreadsInv' /\ Stays
      BY <1>1, <2>1, <2>2, AttemptsKept DEF Started, Unstarted
    <2> QED
      BY <1>1, <2>1, <2>3, KeptQueue
  <1> QED
    BY <1>2, <1>3

\* The connect thread: up to its report nobody is told of it, and its IO threads are started right
\* before the report of success.
LEMMA ConnThreadOutcomes ==
  ASSUME TypeInv, ThreadsInv, OutcomesInv, NEW k \in Conns, ConnThread(k)
  PROVE  ThreadsInv' /\ OutcomesInv'
  <1>1. conn \in [Conns -> ConnStates] /\ io \in [Conns -> IoStates] /\ conn[k] \in ConnStates
    BY DEF TypeInv, AttemptsTyped
  <1>2. call' = call /\ main' = main
    BY DEF ConnThread, CreateSocket, CallSocket, SocketAnswers, ResolveManager, StartEngine, Report,
           ConnectThreadEnds
  <1>3. ASSUME NEW pc, ConnAt(k, pc)
        PROVE  conn'[k].pc = pc /\ \A j \in Conns \ {k} : conn'[j] = conn[j]
    BY <1>1, <1>3 DEF ConnAt, ConnStates
  <1>4. CASE CreateSocket(k) \/ CallSocket(k) \/ SocketAnswers(k) \/ ResolveManager(k)
    <2>1. conn[k].pc \in {"start", "call", "connecting", "resolve"} /\ queue' = queue
      BY <1>4 DEF CreateSocket, CallSocket, SocketAnswers, ResolveManager
    <2>2. /\ conn'[k].pc \in {"call", "connecting", "resolve", "engine", "failed"}
          /\ \A j \in Conns \ {k} : conn'[j] = conn[j]
      <3>1. CASE CallSocket(k)
        BY <1>1, <3>1 DEF CallSocket
      <3>2. CASE ~CallSocket(k)
        BY <1>3, <1>4, <3>2 DEF CreateSocket, SocketAnswers, ResolveManager
      <3> QED
        BY <3>1, <3>2
    <2>3. \A j \in Conns : io'[j].r = io[j].r /\ io'[j].w = io[j].w
      BY <1>1, <1>4 DEF CreateSocket, CallSocket, SocketAnswers, ResolveManager, IoStates
    <2>4. ThreadsInv'
      BY <1>2, <2>1, <2>2, <2>3 DEF ThreadsInv, Started, Unstarted, TypeInv, ManagerTyped
    <2>5. Stays
      BY <2>1, <2>2, <2>3, OwedReported DEF Stays, Started, Unstarted
    <2> QED
      BY <1>2, <2>1, <2>4, <2>5, KeptQueue
  <1>5. CASE StartEngine(k)
    <2>1. conn[k].pc = "engine" /\ queue' = queue /\ ConnAt(k, "success")
      BY <1>5 DEF StartEngine
    <2>2. /\ io'[k].r = "started" /\ io'[k].w = "started"
          /\ \A j \in Conns \ {k} : io'[j] = io[j]
      BY <1>1, <1>5 DEF StartEngine, IoStates
    <2>3. ThreadsInv'
      BY <1>2, <1>3, <2>1, <2>2 DEF ThreadsInv, Started, Unstarted, TypeInv, ManagerTyped
    <2>4. Stays
      BY <1>3, <2>1, <2>2, OwedReported DEF Stays, Started, Unstarted
    <2> QED
      BY <1>2, <2>1, <2>3, <2>4, KeptQueue
  <1>6. CASE Report(k)
    <2>1. conn[k].pc \in {"success", "failed"} /\ io' = io /\ ConnAt(k, "finally")
      BY <1>6 DEF Report
    <2>2. ~Owed(k)
      BY <2>1, OwedReported
    <2>3. ThreadsInv'
      BY <1>2, <1>3, <2>1 DEF ThreadsInv, Started, Unstarted, TypeInv, ManagerTyped
    <2>4. Stays
      BY <1>3, <2>1, OwedReported DEF Stays, Started, Unstarted
    <2>5. PICK new \in Events : /\ Post(new) /\ new.conn = k
                                /\ new.type = IF conn[k].pc = "success" THEN "SUCCESS" ELSE "FAILED"
      BY <1>6 DEF Report, Event, Events, Excs
    <2>6. OutcomeOk(new)'
      BY <1>3, <2>1, <2>5 DEF ThreadsInv, OutcomeOk, Outcome, Started, Unstarted
    <2> QED
      BY <1>2, <2>2, <2>3, <2>4, <2>5, <2>6, PostedEvent
  <1>7. CASE ConnectThreadEnds(k)
    <2>1. conn[k].pc = "finally" /\ io' = io /\ queue' = queue
      BY <1>7 DEF ConnectThreadEnds
    <2>2. conn'[k].pc = "dead" /\ \A j \in Conns \ {k} : conn'[j] = conn[j]
      BY <1>1, <1>7 DEF ConnectThreadEnds
    <2>3. ThreadsInv'
      BY <1>2, <2>1, <2>2 DEF ThreadsInv, Started, Unstarted, TypeInv, ManagerTyped
    <2>4. Stays
      BY <2>1, <2>2, OwedReported DEF Stays, Started, Unstarted
    <2> QED
      BY <1>2, <2>1, <2>3, <2>4, KeptQueue
  <1> QED
    BY <1>4, <1>5, <1>6, <1>7 DEF ConnThread

\* The IO threads and the disconnect threads post no outcome, and start no thread.
LEMMA IoThreadOutcomes ==
  ASSUME TypeInv, ThreadsInv, OutcomesInv, NEW k \in Conns, NEW x \in {"r", "w"}, IoThread(k, x)
  PROVE  ThreadsInv' /\ OutcomesInv'
  <1>1. io \in [Conns -> IoStates]
    BY DEF TypeInv, AttemptsTyped
  <1>2. conn' = conn /\ call' = call /\ main' = main
    BY DEF IoThread, IoEnter, IoDies
  <1>3. PICK p \in {"running", "dead"} : io' = IoAt(k, x, p) /\ io[k][x] # "none"
    BY DEF IoThread, IoEnter, IoDies
  <1>4. \A j \in Conns : /\ Started(j) => Started(j)'
                         /\ Unstarted(j) => Unstarted(j)'
    <2>1. CASE x = "r"
      <3>1. io' = [io EXCEPT ![k] = [@ EXCEPT !.r = p]] /\ io[k].r # "none"
        BY <1>1, <1>3, <2>1 DEF IoAt, IoStates
      <3> QED
        BY <1>1, <3>1 DEF IoStates, Started, Unstarted
    <2>2. CASE x = "w"
      <3>1. io' = [io EXCEPT ![k] = [@ EXCEPT !.w = p]] /\ io[k].w # "none"
        BY <1>1, <1>3, <2>2 DEF IoAt, IoStates
      <3> QED
        BY <1>1, <3>1 DEF IoStates, Started, Unstarted
    <2> QED
      BY <2>1, <2>2
  <1>5. ThreadsInv' /\ Stays
    BY <1>2, <1>4, AttemptsKept
  <1>6. PICK new \in Events : Post(new) /\ ~Outcome(new)
    <2>1. CASE IoEnter(k, x)
      BY <2>1 DEF IoEnter, Event, Events, Excs, Outcome
    <2>2. CASE IoDies(k, x)
      <3>1. PICK e \in DiesOf(k) : Post(Event("SHUTDOWN", k, e))
        BY <2>2 DEF IoDies
      <3>2. e \in Excs
        <4>1. io[k].stop \in Excs \cup {"no"}
          BY <1>1 DEF IoStates
        <4> QED
          BY <3>1, <4>1, ShownTyped DEF DiesOf, Excs
      <3> QED
        BY <3>1, <3>2 DEF Event, Events, Outcome
    <2> QED
      BY <2>1, <2>2 DEF IoThread
  <1>7. OutcomeOk(new)'
    BY <1>6 DEF OutcomeOk, Outcome
  <1> QED
    BY <1>2, <1>5, <1>6, <1>7, PostedEvent

LEMMA DiscThreadOutcomes ==
  ASSUME TypeInv, ThreadsInv, OutcomesInv, NEW d \in Discs, DiscThread(d)
  PROVE  ThreadsInv' /\ OutcomesInv'
  <1>1. conn' = conn /\ call' = call /\ main' = main
    BY DEF DiscThread, CloseManager, TestConnectThread, JoinConnectThread, CloseSocket, DropHandler,
           ClearHandler, ResetFlags, ReportDisconnection, ClearSocket
  <1>2. \A k \in Conns : io'[k].r = io[k].r /\ io'[k].w = io[k].w
    <2>1. io \in [Conns -> IoStates]
      BY DEF TypeInv, AttemptsTyped
    <2> QED
      BY <2>1 DEF DiscThread, CloseManager, TestConnectThread, JoinConnectThread, CloseSocket,
             DropHandler, ClearHandler, ResetFlags, ReportDisconnection, ClearSocket, IoStates
  <1>3. ThreadsInv' /\ Stays
    BY <1>1, <1>2, AttemptsKept DEF Started, Unstarted
  <1>4. CASE queue' = queue
    BY <1>1, <1>3, <1>4, KeptQueue
  <1>5. CASE queue' # queue
    <2>1. PICK k \in Conns : Post(Event("DISC", k, Shown(disc[d].exc)))
      BY <1>5 DEF DiscThread, CloseManager, TestConnectThread, JoinConnectThread, CloseSocket,
             DropHandler, ClearHandler, ResetFlags, ReportDisconnection, ClearSocket, TypeInv,
             ManagerTyped, MgrStates, Opt
    <2>2. Shown(disc[d].exc) \in Excs
      BY ShownTyped DEF TypeInv, DiscsTyped, DiscStates
    <2> DEFINE new == Event("DISC", k, Shown(disc[d].exc))
    <2>3. new \in Events /\ ~Outcome(new) /\ Post(new)
      BY <2>1, <2>2 DEF Event, Events, Outcome
    <2> HIDE DEF new
    <2>4. PICK ev \in Events : ev = new
      BY <2>3
    <2>5. Post(ev) /\ ~Outcome(ev) /\ OutcomeOk(ev)'
      BY <2>3, <2>4 DEF OutcomeOk, Outcome
    <2> QED
      BY <1>1, <1>3, <2>5, PostedEvent
  <1> QED
    BY <1>4, <1>5

\* The main thread and the application, but for connect().
LEMMA MainOutcomes ==
  ASSUME TypeInv, ThreadsInv, OutcomesInv,
         \/ DisconnectFlag \/ DisconnectDetach \/ DisconnectSpawn
         \/ DispatchStart \/ Dispatch \/ AppHandles \/ HandlerHandles \/ HandlersDone
         \/ ReconnectHandles \/ ReconnectHandlesFailure \/ ReconnectAfterReset
         \/ Environment
  PROVE  ThreadsInv' /\ OutcomesInv'
  <1>1. UNCHANGED <<conn, call, io>>
    BY DEF DisconnectFlag, DisconnectDetach, DisconnectSpawn, DispatchStart, Dispatch, AppHandles,
           HandlerHandles, HandlersDone, ReconnectHandles, ReconnectHandlesFailure,
           ReconnectAfterReset, Environment, UserConnect, AppReconnects, UserDisconnect,
           ClientConnect, Break, mgrVars
  <1>2. ThreadsInv' /\ Stays
    BY <1>1, AttemptsKept DEF Started, Unstarted
  <1>3. main \in MainStates
    BY DEF TypeInv, MainTyped
  <1>4. CASE Dispatch
    BY <1>2, <1>4, TakenEvent DEF Dispatch
  <1>5. CASE DispatchStart
    BY <1>2, <1>5, TakenEvent DEF DispatchStart, Outcome
  <1>6. CASE ~Dispatch /\ ~DispatchStart
    <2>1. queue' = queue
      BY <1>6 DEF DisconnectFlag, DisconnectDetach, DisconnectSpawn, AppHandles,
           HandlerHandles, HandlersDone, ReconnectHandles, ReconnectHandlesFailure,
           ReconnectAfterReset, Environment, UserConnect, AppReconnects, UserDisconnect,
           ClientConnect, Break
    <2>2. Idle.ev = NoEvent /\ \A a : [main EXCEPT !.at = a].ev = main.ev
      BY <1>3 DEF Idle, MainStates
    <2>3. main'.ev \in {main.ev, NoEvent}
      <3> HIDE DEF Idle, Resume
      <3>1. CASE DisconnectFlag \/ DisconnectDetach \/ DisconnectSpawn
        BY <2>2, <3>1, ResumeEvent DEF DisconnectFlag, DisconnectDetach, DisconnectSpawn
      <3>2. CASE AppHandles \/ HandlersDone
        BY <2>2, <3>2 DEF AppHandles, HandlersDone
      <3>3. CASE HandlerHandles
        <4>1. PICK k \in main.todo, p \in {"handlers", "d1"} :
                main' = [main EXCEPT !.todo = @ \ {k}, !.exc = main.ev.exc, !.at = p]
          BY <3>3 DEF HandlerHandles
        <4> QED
          BY <1>3, <4>1 DEF MainStates
      <3>4. CASE ReconnectHandles \/ ReconnectHandlesFailure \/ ReconnectAfterReset
        BY <2>2, <3>4 DEF ReconnectHandles, ReconnectHandlesFailure, ReconnectAfterReset
      <3>5. CASE Environment
        <4>1. main' = main \/ \E p, e : main' \in {[main EXCEPT !.at = p], [main EXCEPT !.at = p, !.exc = e]}
          BY <3>5 DEF Environment, UserConnect, AppReconnects, UserDisconnect, ClientConnect, Break
        <4> QED
          BY <1>3, <4>1 DEF MainStates
      <3> QED
        BY <1>6, <3>1, <3>2, <3>3, <3>4, <3>5
    <2> QED
      BY <1>2, <2>1, <2>3, KeptQueue
  <1> QED
    BY <1>4, <1>5, <1>6

LEMMA NextOutcomes ==
  ASSUME TypeInv, ThreadsInv, OutcomesInv, [Next]_vars
  PROVE  ThreadsInv' /\ OutcomesInv'
  <1>1. CASE \E r \in RMs, i \in Incs : ReconnectThread(r, i)
    <2>1. PICK r \in RMs, i \in Incs : ROthers \/ ConnectEnter(<<r, i>>)
      BY <1>1 DEF ReconnectThread, RRun, RTop, RWake, RTestConnect, RConnect, RReturn
    <2>2. CASE ROthers
      <3>1. UNCHANGED <<conn, call, io, queue, main>>
        BY <2>2 DEF ROthers, mgrVars
      <3> QED
        BY <3>1, AttemptsKept, KeptQueue DEF Started, Unstarted
    <2> QED
      BY <2>1, <2>2, ConnectEnterOutcomes
  <1>2. CASE MainThread
    BY <1>2, MainOutcomes, ConnectEnterOutcomes DEF MainThread, MainEntersConnect
  <1>3. CASE UNCHANGED vars
    <2>1. UNCHANGED <<conn, call, io, queue, main>>
      BY <1>3 DEF vars, mgrVars
    <2> QED
      BY <2>1, AttemptsKept, KeptQueue DEF Started, Unstarted
  <1> QED
    BY <1>1, <1>2, <1>3, ConnectStepOutcomes, ConnThreadOutcomes, IoThreadOutcomes,
       DiscThreadOutcomes, MainOutcomes DEF Next, System

\* Whatever the timing and however many attempts and disconnects overlap: SUCCESS is told only of an
\* attempt whose IO threads were started, FAILED only of one that started none, and no attempt is
\* told of twice. ISocketActionListener promises it; ConnectionThread.run() reports once, with
\* resolveManager() behind it or failed.
THEOREM OutcomesTruthful == Spec => []OutcomesAreTrue
  <1>1. TypeInv /\ [Next]_vars => TypeInv'
    BY NextTyped
  <1>2. TypeInv /\ ThreadsInv /\ OutcomesInv /\ [Next]_vars => ThreadsInv' /\ OutcomesInv'
    BY NextOutcomes
  <1> QED
    BY <1>1, <1>2, InitTyped, InitOutcomes, OutcomesAgree, PTL DEF Spec
=============================================================================
