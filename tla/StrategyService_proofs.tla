------------------------ MODULE StrategyService_proofs ------------------------
(***************************************************************************)
(* What the single-user strategy service promises over its state file, for *)
(* any number of handlers, strategies, clients, requests and faults.       *)
(***************************************************************************)
EXTENDS StrategyService, TLAPS

RunPc == {"run", "initialize", "register"}

(* The shape of the records, and the places an operation passes through. *)
IsState(m) ==
  /\ DOMAIN m = {"conn", "list"}
  /\ \A s \in DOMAIN m.list :
       s \in Nat \ {0} /\ DOMAIN m.list[s] = {"status", "analysis", "metrics"}

Fits(r) ==
  \/ r.op = "none" /\ r.pc = "idle"
  \/ r.op = "boot" /\ r.pc \in {"loaded", "check", "connect", "connecting", "failed", "connected"}
  \/ r.op = "start" /\ r.pc \in {"disclaimer", "add", "connect", "connecting", "failed", "connected"}
  \/ r.op \in {"boot", "start"} /\ r.pc \in RunPc \cup {"ran"} /\ r.s \in Nat
  \/ r.op \in {"stop", "disconnect", "kill"} /\ r.pc \in {"cleanup", "stopped", "paused", "stopall", "offline"}
  \/ r.op = "tick" /\ r.pc = "metrics"
  \/ r.op = "close" /\ r.pc \in {"trade", "emit"}

Shaped ==
  /\ IsState(mem) /\ IsState(file)
  /\ DOMAIN write = Handlers
  /\ \A h \in Handlers :
       /\ DOMAIN write[h] = {"data", "step", "mixed"} /\ IsState(write[h].data)
       /\ write[h].step \in {"queued", "opened"} \/ write[h] = NoWrite
  /\ DOMAIN handler = Handlers
  /\ \A h \in Handlers : DOMAIN handler[h] = {"op", "pc", "s", "c"} /\ Fits(handler[h])
  /\ ids \in Nat

(* When the last save is sure there is at most one write, and it writes    *)
(* the memory.                                                             *)
FileFollows ==
  /\ phase = "down" => Writing = {}
  /\ phase # "down" /\ ~unsure =>
       /\ \A h \in Writing : write[h].data = mem /\ ~write[h].mixed /\ Writing = {h}
       /\ Writing = {} => file = mem

(* While the server starts only its own operation runs. *)
BootsAlone ==
  /\ phase = "down" => \A h \in Handlers : handler[h].op = "none"
  /\ phase = "boot" => \A h \in Handlers : handler[h].op \in {"none", "boot"}
  /\ \A g, h \in Handlers : handler[g].op = "boot" /\ handler[h].op = "boot" => g = h
  /\ \A h \in Handlers : handler[h].op = "boot" => phase = "boot"

(* The strategies that were resumed so far have an executor. *)
ResumedRun ==
  \A h \in Handlers : \A r \in Active(mem) :
    /\ handler[h].op = "boot" /\ handler[h].pc \in RunPc \cup {"ran"}
    /\ r < handler[h].s \/ (handler[h].pc = "ran" /\ r = handler[h].s)
    => r \in DOMAIN exec

(* After a manual disconnect nothing connects: no operation under way, and *)
(* no state that a boot may find.                                          *)
StaysOff ==
  off => /\ cur = Nobody
         /\ mem.conn # "on" /\ file.conn # "on"
         /\ \A h \in Handlers :
              /\ write[h].data.conn # "on" /\ handler[h].op # "start"
              /\ handler[h].op = "boot" => handler[h].pc \in {"loaded", "check"}

(* A start that was answered is over, and ids are used once. *)
RunsOnce ==
  /\ stopped \subseteq started /\ started \subseteq 1 .. ids
  /\ \A h \in Handlers : handler[h].op = "start" /\ handler[h].pc \in RunPc \cup {"ran"} =>
       /\ handler[h].s \in 1 .. ids \ started
       /\ \A g \in Handlers \ {h} : handler[g].op = "start" /\ handler[g].pc \in RunPc \cup {"ran"} =>
            handler[g].s # handler[h].s

(* A strategy that is out: nothing runs it, nothing will resume it. *)
Out(s) ==
  /\ s \notin DOMAIN exec /\ s \notin Active(mem) /\ s \notin Active(file)
  /\ \A h \in Handlers :
       /\ s \notin Active(write[h].data)
       /\ handler[h].op = "boot" /\ handler[h].pc \in RunPc => handler[h].s # s

StoppedAreOut ==
  /\ \A s \in stopped : s \in revived \/ Out(s)
  /\ \A h \in Handlers : handler[h].pc \in {"cleanup", "stopped"} /\ handler[h].c # Nobody =>
       /\ handler[h].c \in started /\ handler[h].c \notin DOMAIN exec
       /\ handler[h].c \notin Active(mem) \/ handler[h].c \in revived

ServiceInv == Shaped /\ FileFollows /\ BootsAlone /\ ResumedRun /\ StaysOff /\ RunsOnce /\ StoppedAreOut

-----------------------------------------------------------------------------
(* What the setters of the state manager do to the set of active strategies. *)

(* m comes from n without a change of the connection, and with no other    *)
(* strategies than those of S becoming active.                             *)
Keeps(m, n, S) == IsState(m) /\ m.conn = n.conn /\ Active(m) \subseteq Active(n) \cup S

LEMMA ConnKeeps ==
  ASSUME IsState(mem), NEW c
  PROVE  IsState(SetConn(c)) /\ SetConn(c).conn = c /\ Active(SetConn(c)) = Active(mem)
BY DEF IsState, SetConn, Active

LEMMA StatusKeeps ==
  ASSUME IsState(mem), NEW s, NEW st \in {"stopped", "error"}
  PROVE  Keeps(SetStatus(s, st), mem, {}) /\ s \notin Active(SetStatus(s, st))
BY DEF IsState, SetStatus, Active, Keeps

LEMMA FlagsKeep ==
  ASSUME IsState(mem), NEW s \in DOMAIN mem.list, NEW b
  PROVE  /\ Keeps([mem EXCEPT !.list[s].analysis = b], mem, {})
         /\ Keeps([mem EXCEPT !.list[s].metrics = b], mem, {})
BY DEF IsState, Active, Keeps

LEMMA AddKeeps ==
  ASSUME IsState(mem), NEW i \in Nat \ {0}, NEW r, DOMAIN r = {"status", "analysis", "metrics"}
  PROVE  Keeps(SetStrategy(i, r), mem, {i})
BY DEF IsState, SetStrategy, Active, Keeps

LEMMA CleanedKeeps ==
  ASSUME IsState(mem)
  PROVE  Keeps(Cleaned, mem, {})
BY DEF IsState, Cleaned, Active, Keeps, Restrict

LEMMA ClearedKeeps ==
  ASSUME IsState(mem)
  PROVE  Keeps([mem EXCEPT !.list = <<>>], mem, {})
BY DEF IsState, Active, Keeps

LEMMA RevivedKeeps ==
  ASSUME IsState(mem), NEW S
  PROVE  /\ Keeps([mem EXCEPT !.list = [s \in DOMAIN @ |->
                    IF s \in S THEN [@[s] EXCEPT !.metrics = FALSE, !.status = "active"] ELSE @[s]]], mem, S)
         /\ Keeps([mem EXCEPT !.list = [s \in DOMAIN @ |->
                    IF s \in S THEN [@[s] EXCEPT !.metrics = FALSE] ELSE @[s]]], mem, {})
         /\ Keeps([mem EXCEPT !.list = [s \in DOMAIN @ |->
                    IF s \in S THEN [@[s] EXCEPT !.analysis = FALSE] ELSE @[s]]], mem, {})
BY DEF IsState, Active, Keeps

Loaded == IF file = Torn THEN Fresh ELSE [file EXCEPT !.list = Restrict(@, Active(file))]

LEMMA LoadedKeeps ==
  ASSUME IsState(file)
  PROVE  IsState(Loaded) /\ Loaded.conn \in {"none", file.conn} /\ Active(Loaded) \subseteq Active(file)
BY DEF IsState, Loaded, Active, Fresh, Restrict

(* What a start may find in the file, or make up. *)
Found == {Loaded, Fresh}

LEMMA FoundKeeps ==
  ASSUME IsState(file), NEW m \in Found
  PROVE  IsState(m) /\ m.conn \in {"none", file.conn} /\ Active(m) \subseteq Active(file)
<1>1. IsState(Fresh) /\ Fresh.conn = "none" /\ Active(Fresh) = {}
  BY DEF IsState, Fresh, Active
<1> QED BY <1>1, LoadedKeeps DEF Found

LEMMA FreshIsState == IsState(Fresh) /\ IsState(Torn) /\ Active(Fresh) = {} /\ Active(Torn) = {}
BY DEF IsState, Fresh, Torn, Active

-----------------------------------------------------------------------------
(* What a step of handler h does to the memory and to the handlers. *)

HandlerStep(h) ==
  \/ Connect(h) \/ Start(h) \/ AnyStop(h) \/ DisconnectService(h) \/ TickService(h)
  \/ Close(h) \/ Booting(h)

(* New strategies and those revived now are the only ones to become active.*)
Fresher == revived' \cup (1 .. ids' \ 1 .. ids)

Connecting(h) == handler[h].pc \in {"connecting", "failed"}

Writes(h) ==
  /\ write[h].step = "none" /\ phase \in {"boot", "listen"}
  /\ \/ UNCHANGED memVars
     \/ \E m : /\ Save(h, m) /\ IsState(m) /\ Active(m) \subseteq Active(mem) \cup Fresher
               /\ m.conn \in {mem.conn, "manual", "off"} \/ Connecting(h)

LEMMA HandlerWrites ==
  ASSUME Shaped, NEW h \in Handlers, HandlerStep(h)
  PROVE  Writes(h)
<1> USE DEF Shaped, Writes, At, Arrives
<1>1. CASE Connect(h)
  <2>1. CASE ConnectBegin(h)
    BY <2>1 DEF ConnectBegin
  <2>2. CASE ConnectEnd(h)
    BY <2>2, ConnKeeps DEF ConnectEnd, Connecting
  <2>3. CASE ConnectFailed(h)
    BY <2>3, ConnKeeps DEF ConnectFailed, Connecting
  <2>4. CASE ConnectReturns(h)
    BY <2>4 DEF ConnectReturns
  <2> QED BY <1>1, <2>1, <2>2, <2>3, <2>4 DEF Connect
<1>2. CASE StartRequest(h) \/ StartConnect(h)
  BY <1>2 DEF StartRequest, StartConnect
<1>3. CASE Add(h)
  <2> DEFINE r == [status |-> "active", analysis |-> FALSE, metrics |-> FALSE]
  <2>1. ids' = ids + 1 /\ Save(h, SetStrategy(ids', r)) /\ At(h, "add")
    BY <1>3 DEF Add
  <2>2. Keeps(SetStrategy(ids', r), mem, {ids'})
    BY <2>1, AddKeeps
  <2>3. ids' \in Fresher
    BY <2>1 DEF Fresher
  <2> QED BY <2>1, <2>2, <2>3 DEF Keeps
<1>4. CASE Run(h)
  <2>1. CASE RunBegin(h)
    BY <2>1, StatusKeeps DEF RunBegin, Keeps
  <2>2. CASE RunInitialize(h)
    <3> DEFINE s == handler[h].s  m == [mem EXCEPT !.list[s].analysis = s \in trading']
    <3>1. At(h, "initialize") /\ IF s \in DOMAIN mem.list THEN Save(h, m) ELSE UNCHANGED memVars
      BY <2>2 DEF RunInitialize
    <3>2. s \in DOMAIN mem.list => Keeps(m, mem, {})
      BY FlagsKeep
    <3> HIDE DEF m
    <3> QED BY <3>1, <3>2 DEF Keeps
  <2>3. CASE RunRegister(h)
    BY <2>3, StatusKeeps DEF RunRegister, Keeps
  <2>4. CASE Ran(h)
    BY <2>4 DEF Ran
  <2> QED BY <1>4, <2>1, <2>2, <2>3, <2>4 DEF Run
<1>5. CASE AnyStop(h)
  <2>1. ASSUME NEW s \in 1 .. ids, StopRequest(h, s) PROVE Writes(h)
    BY <2>1, StatusKeeps DEF StopRequest, Stop, Keeps
  <2>2. CASE Cleanup(h)
    BY <2>2, CleanedKeeps DEF Cleanup, Keeps
  <2>3. CASE StopAnswer(h)
    BY <2>3 DEF StopAnswer
  <2> QED BY <1>5, <2>1, <2>2, <2>3 DEF AnyStop
<1>6. CASE DisconnectService(h)
  <2>1. CASE DisconnectRequest(h)
    BY <2>1 DEF DisconnectRequest
  <2>2. CASE DisconnectStop(h)
    BY <2>2, StatusKeeps DEF DisconnectStop, Stop, Keeps
  <2>3. CASE DisconnectClient(h)
    BY <2>3, ConnKeeps DEF DisconnectClient
  <2>4. CASE DisconnectAnswer(h)
    BY <2>4, ClearedKeeps DEF DisconnectAnswer, Keeps
  <2> QED BY <1>6, <2>1, <2>2, <2>3, <2>4 DEF DisconnectService
<1>7. CASE TickService(h)
  <2>1. ASSUME NEW s \in 1 .. ids, Tick(h, s) PROVE Writes(h)
    BY ZenonT(40), <2>1, FlagsKeep DEF Tick, Keeps
  <2>2. CASE TickMetrics(h)
    BY ZenonT(40), <2>2, FlagsKeep DEF TickMetrics, Keeps
  <2> QED BY <1>7, <2>1, <2>2 DEF TickService
<1>8. CASE Close(h)
  <2>1. CASE CloseRequest(h)
    BY <2>1 DEF CloseRequest
  <2>2. CASE CloseTrade(h)
    <3> DEFINE F == First(Named(trade))
               m == [mem EXCEPT !.list = [s \in DOMAIN @ |->
                       IF s \in F THEN [@[s] EXCEPT !.metrics = FALSE, !.status = "active"] ELSE @[s]]]
    <3>1. At(h, "trade") /\ (UNCHANGED memVars \/ (Save(h, m) /\ F \subseteq revived'))
      BY <2>2 DEF CloseTrade
    <3>2. Keeps(m, mem, F)
      BY RevivedKeeps
    <3> HIDE DEF m, F
    <3> QED BY <3>1, <3>2 DEF Keeps, Fresher
  <2>3. CASE CloseResume(h)
    <3> DEFINE F == Named(handler[h].c)
               m == [mem EXCEPT !.list = [s \in DOMAIN @ |->
                       IF s \in F THEN [@[s] EXCEPT !.analysis = FALSE] ELSE @[s]]]
    <3>1. At(h, "emit") /\ (UNCHANGED memVars \/ Save(h, m))
      BY <2>3 DEF CloseResume
    <3>2. Keeps(m, mem, {})
      BY RevivedKeeps
    <3> HIDE DEF m, F
    <3> QED BY <3>1, <3>2 DEF Keeps
  <2> QED BY <1>8, <2>1, <2>2, <2>3 DEF Close
<1>9. CASE Booting(h)
  <2>1. CASE BootConnect(h)
    BY <2>1 DEF BootConnect
  <2>2. CASE BootCheck(h)
    <3> DEFINE F == First(Named(trade))
               m == [mem EXCEPT !.list = [s \in DOMAIN @ |->
                       IF s \in F THEN [@[s] EXCEPT !.metrics = FALSE] ELSE @[s]]]
    <3>1. At(h, "check") /\ (UNCHANGED memVars \/ Save(h, m))
      BY <2>2 DEF BootCheck
    <3>2. Keeps(m, mem, {})
      BY RevivedKeeps
    <3> HIDE DEF m, F
    <3> QED BY <3>1, <3>2 DEF Keeps
  <2>3. CASE BootResume(h)
    BY <2>3 DEF BootResume
  <2> QED BY <1>9, <2>1, <2>2, <2>3 DEF Booting
<1> QED BY <1>1, <1>2, <1>3, <1>4, <1>5, <1>6, <1>7, <1>8, <1>9 DEF HandlerStep, Start

(* A step changes the record of its own handler, along the operation.      *)
Moves(h) ==
  /\ DOMAIN handler' = Handlers /\ \A g \in Handlers \ {h} : handler'[g] = handler[g]
  /\ DOMAIN handler'[h] = {"op", "pc", "s", "c"} /\ Fits(handler'[h])

LEMMA HandlerMoves ==
  ASSUME Shaped, NEW h \in Handlers, HandlerStep(h)
  PROVE  Moves(h) /\ ids' \in Nat
<1> USE DEF Shaped, Moves, At, Arrives, Enter, Goto, End, Idle, Fits, RunPc
<1>1. CASE Connect(h)
  <2>1. CASE ConnectBegin(h)
    BY <2>1 DEF ConnectBegin, bounds
  <2>2. CASE ConnectEnd(h)
    BY <2>2 DEF ConnectEnd, bounds
  <2>3. CASE ConnectFailed(h)
    BY <2>3 DEF ConnectFailed, bounds
  <2>4. CASE ConnectReturns(h)
    BY <2>4 DEF ConnectReturns, bounds
  <2> QED BY <1>1, <2>1, <2>2, <2>3, <2>4 DEF Connect
<1>2. CASE StartRequest(h) \/ StartConnect(h)
  BY <1>2 DEF StartRequest, StartConnect, bounds
<1>3. CASE Add(h)
  BY <1>3 DEF Add
<1>4. CASE Run(h)
  BY <1>4 DEF Run, RunBegin, RunInitialize, RunRegister, Ran, bounds
<1>5. CASE AnyStop(h)
  <2>1. ASSUME NEW s \in 1 .. ids, StopRequest(h, s) PROVE Moves(h) /\ ids' = ids
    BY <2>1 DEF StopRequest, Stopping
  <2>2. CASE Cleanup(h)
    BY <2>2 DEF Cleanup, bounds
  <2>3. CASE StopAnswer(h)
    BY <2>3 DEF StopAnswer, bounds
  <2> QED BY <1>5, <2>1, <2>2, <2>3 DEF AnyStop
<1>6. CASE DisconnectService(h)
  <2>1. CASE DisconnectRequest(h)
    BY <2>1 DEF DisconnectRequest
  <2>2. CASE DisconnectStop(h)
    BY <2>2 DEF DisconnectStop, Stopping, bounds
  <2>3. CASE DisconnectClient(h)
    BY <2>3 DEF DisconnectClient, bounds
  <2>4. CASE DisconnectAnswer(h)
    BY <2>4 DEF DisconnectAnswer, bounds
  <2> QED BY <1>6, <2>1, <2>2, <2>3, <2>4 DEF DisconnectService
<1>7. CASE TickService(h)
  <2>1. ASSUME NEW s \in 1 .. ids, Tick(h, s) PROVE Moves(h) /\ ids' = ids
    BY <2>1 DEF Tick, bounds
  <2>2. CASE TickMetrics(h)
    BY <2>2 DEF TickMetrics, bounds
  <2> QED BY <1>7, <2>1, <2>2 DEF TickService
<1>8. CASE Close(h)
  <2>1. CASE CloseRequest(h)
    BY <2>1 DEF CloseRequest
  <2>2. CASE CloseTrade(h)
    <3>1. handler[h].pc = "trade" /\ UNCHANGED bounds
          /\ (End(h) \/ handler' = [handler EXCEPT ![h].pc = "emit", ![h].c = trade])
      BY <2>2 DEF CloseTrade
    <3> QED BY <3>1 DEF bounds
  <2>3. CASE CloseResume(h)
    <3>1. UNCHANGED bounds /\ End(h)
      BY <2>3 DEF CloseResume
    <3> QED BY <3>1 DEF bounds
  <2> QED BY <1>8, <2>1, <2>2, <2>3 DEF Close
<1>9. CASE Booting(h)
  <2>1. CASE BootConnect(h)
    BY <2>1 DEF BootConnect, bounds
  <2>2. CASE BootCheck(h)
    BY <2>2 DEF BootCheck, bounds
  <2>3. CASE BootResume(h)
    <3> DEFINE next == {t \in DOMAIN mem.list : t > handler[h].s /\ mem.list[t].status = "active"}
    <3>1. \A s \in First(next) : s \in Nat
      BY DEF First, IsState
    <3>2. /\ UNCHANGED bounds /\ handler[h].op = "boot"
          /\ End(h) \/ \E s \in First(next) : Enter(h, "boot", "run", s)
      BY <2>3 DEF BootResume
    <3> HIDE DEF next
    <3>3. ASSUME NEW s \in First(next), Enter(h, "boot", "run", s) PROVE Moves(h)
      BY <3>1, <3>3
    <3>4. ASSUME End(h) PROVE Moves(h)
      BY <3>4
    <3> QED BY <3>2, <3>3, <3>4 DEF bounds
  <2> QED BY <1>9, <2>1, <2>2, <2>3 DEF Booting
<1> QED BY <1>1, <1>2, <1>3, <1>4, <1>5, <1>6, <1>7, <1>8, <1>9 DEF HandlerStep, Start

-----------------------------------------------------------------------------
(* The writes of the file *)

LEMMA SaveWrites ==
  ASSUME Shaped, NEW h \in Handlers, NEW m, IsState(m), Save(h, m)
  PROVE  /\ mem' = m /\ file' = file /\ unsure' = (Writing # {})
         /\ DOMAIN write' = Handlers
         /\ write'[h] = [data |-> m, step |-> "queued", mixed |-> FALSE]
         /\ \A g \in Handlers \ {h} : write'[g] = write[g]
         /\ \A g \in Handlers : DOMAIN write'[g] = {"data", "step", "mixed"} /\ IsState(write'[g].data)
                                /\ (write'[g].step \in {"queued", "opened"} \/ write'[g] = NoWrite)
BY DEF Save, Shaped, NoWrite

LEMMA WritesShaped ==
  ASSUME Shaped, NEW h \in Handlers, Writes(h), Moves(h), ids' \in Nat
  PROVE  Shaped'
<1>1. CASE UNCHANGED memVars
  BY <1>1 DEF Shaped, memVars, Moves
<1>2. ASSUME NEW m, Save(h, m), IsState(m) PROVE Shaped'
  <2>1. mem' = m /\ file' = file
    BY <1>2 DEF Save
  <2>2. \A g \in Handlers : IsState(write'[g].data)
    BY <1>2, SaveWrites
  <2> QED BY <1>2, <2>1, <2>2, SaveWrites DEF Shaped, Moves
<1> QED BY <1>1, <1>2 DEF Writes

LEMMA SaveData ==
  ASSUME Shaped, NEW h \in Handlers, NEW m, Save(h, m)
  PROVE  /\ mem' = m /\ file' = file
         /\ \A g \in Handlers : write'[g].data \in {write[g].data, m}
<1> DEFINE r == [data |-> m, step |-> "queued", mixed |-> FALSE]
<1>1. mem' = m /\ file' = file /\ write' = [write EXCEPT ![h] = r]
  BY DEF Save
<1>2. r.data = m
  OBVIOUS
<1> HIDE DEF r
<1>3. write'[h] = r /\ \A g \in Handlers \ {h} : write'[g] = write[g]
  BY <1>1 DEF Shaped
<1> QED BY <1>1, <1>2, <1>3

(* Only the start of the server ends with another phase. *)
LEMMA HandlerPhase ==
  ASSUME NEW h \in Handlers, HandlerStep(h)
  PROVE  phase' = phase \/ (phase' = "listen" /\ (BootCheck(h) \/ BootResume(h)))
<1>1. Connect(h) => phase' = phase
  BY DEF Connect, ConnectBegin, ConnectEnd, ConnectFailed, ConnectReturns
<1>2. Start(h) => phase' = phase
  <2>1. StartRequest(h) \/ StartConnect(h) \/ Add(h) => phase' = phase
    BY DEF StartRequest, Arrives, StartConnect, Add
  <2>2. Run(h) => phase' = phase
    BY DEF Run, RunBegin, RunInitialize, RunRegister, Ran
  <2> QED BY <2>1, <2>2 DEF Start
<1>3. AnyStop(h) => phase' = phase
  BY DEF AnyStop, StopRequest, Arrives, Cleanup, StopAnswer
<1>4. DisconnectService(h) => phase' = phase
  BY DEF DisconnectService, DisconnectRequest, Arrives, DisconnectStop, DisconnectClient, DisconnectAnswer
<1>5. TickService(h) => phase' = phase
  BY DEF TickService, Tick, TickMetrics
<1>6. Close(h) => phase' = phase
  BY DEF Close, CloseRequest, Arrives, CloseTrade, CloseResume
<1>7. Booting(h) => phase' = phase \/ (phase' = "listen" /\ (BootCheck(h) \/ BootResume(h)))
  <2>1. BootConnect(h) => phase' = phase
    BY DEF BootConnect
  <2>2. BootCheck(h) => phase' = phase \/ phase' = "listen"
    BY DEF BootCheck
  <2>3. BootResume(h) => phase' = phase \/ phase' = "listen"
    BY DEF BootResume
  <2> QED BY <2>1, <2>2, <2>3 DEF Booting
<1> QED BY <1>1, <1>2, <1>3, <1>4, <1>5, <1>6, <1>7 DEF HandlerStep

(* The steps of no handler: the process, the market, the connections, and  *)
(* the writes under way.                                                   *)
Lost == /\ phase' = "down" /\ mem' = Fresh /\ write' = [h \in Handlers |-> NoWrite]
        /\ handler' = [h \in Handlers |-> Idle] /\ exec' = <<>> /\ cur' = Nobody
        /\ UNCHANGED <<file, ids, answered>>

Elsewhere ==
  /\ UNCHANGED <<memVars, handler, cur, ids, answered>>
  /\ \/ UNCHANGED <<phase, exec>>
     \/ phase = "listen" /\ phase' = "closing" /\ exec' = <<>>

WriteStep(h) == WriteOpen(h) \/ WriteDone(h) \/ WriteFail(h)

LEMMA StepKinds ==
  ASSUME [ServiceNext]_serviceVars
  PROVE  \/ Lost \/ Elsewhere
         \/ \E h \in Handlers : Restart(h) \/ WriteStep(h) \/ HandlerStep(h)
<1>1. CASE Crash \/ Exit
  BY <1>1 DEF Crash, Exit, Gone, Lost
<1>2. CASE Shutdown
  BY <1>2 DEF Shutdown, Elsewhere
<1>3. CASE PositionCloses
  BY <1>3 DEF PositionCloses, Elsewhere, runVars, bounds
<1>4. ASSUME NEW c \in DOMAIN client, LinkChange(c) PROVE Elsewhere
  BY <1>4 DEF LinkChange, Elsewhere, runVars
<1>5. CASE UNCHANGED serviceVars
  BY <1>5 DEF serviceVars, Elsewhere, runVars, bounds
<1> QED BY <1>1, <1>2, <1>3, <1>4, <1>5 DEF ServiceNext, HandlerStep, WriteStep

LEMMA RestartSaves ==
  ASSUME Shaped, NEW h \in Handlers, Restart(h)
  PROVE  /\ phase = "down" /\ phase' = "boot" /\ \E m \in Found : Save(h, m)
         /\ handler' = [handler EXCEPT ![h] = [op |-> "boot", pc |-> "loaded", s |-> Nobody, c |-> Nobody]]
         /\ UNCHANGED <<exec, cur, ids, answered>>
BY DEF Shaped, Restart, Enter, Found, Loaded, runVars

LEMMA WritesEnd ==
  ASSUME Shaped, NEW h \in Handlers, WriteStep(h)
  PROVE  /\ UNCHANGED <<phase, mem, handler, exec, cur, ids, answered>>
         /\ DOMAIN write' = Handlers
         /\ \A g \in Handlers : DOMAIN write'[g] = {"data", "step", "mixed"}
                                /\ (write'[g].step \in {"queued", "opened"} \/ write'[g] = NoWrite)
                                /\ write'[g].data \in {write[g].data, Fresh}
         /\ file' \in {file, Torn, write[h].data}
<1>1. CASE WriteOpen(h)
  BY <1>1 DEF WriteOpen, Shaped, runVars, bounds
<1>2. CASE WriteDone(h)
  BY <1>2 DEF WriteDone, Closed, Shaped, runVars, bounds, NoWrite
<1>3. CASE WriteFail(h)
  <2>1. UNCHANGED <<phase, mem, handler, exec, cur, ids, answered>> /\ file' \in {file, Torn}
    BY <1>3 DEF WriteFail, runVars
  <2>2. CASE write' = [write EXCEPT ![h] = NoWrite]
    BY <2>1, <2>2 DEF Shaped, NoWrite
  <2>3. CASE write' = Closed(h)
    BY <2>1, <2>3 DEF Closed, Shaped, NoWrite
  <2> QED BY <1>3, <2>2, <2>3 DEF WriteFail
<1> QED BY <1>1, <1>2, <1>3 DEF WriteStep

LEMMA ShapedKept ==
  ASSUME Shaped, [ServiceNext]_serviceVars
  PROVE  Shaped'
<1>1. CASE Lost
  BY <1>1, FreshIsState DEF Lost, Shaped, NoWrite, Idle, Fits, IsState
<1>2. CASE Elsewhere
  BY <1>2 DEF Elsewhere, Shaped, memVars
<1>3. ASSUME NEW h \in Handlers, Restart(h) PROVE Shaped'
  <2>0. PICK m \in Found : Save(h, m) /\ IsState(m)
    BY <1>3, RestartSaves, FoundKeeps DEF Shaped
  <2>1. IsState(mem') /\ IsState(file')
    BY <2>0, SaveWrites DEF Shaped
  <2>2. \A g \in Handlers : DOMAIN handler'[g] = {"op", "pc", "s", "c"} /\ Fits(handler'[g])
    BY <1>3, RestartSaves DEF Shaped, Fits
  <2> QED BY <1>3, <2>0, <2>1, <2>2, RestartSaves, SaveWrites DEF Shaped
<1>4. ASSUME NEW h \in Handlers, WriteStep(h) PROVE Shaped'
  BY <1>4, WritesEnd, FreshIsState DEF Shaped
<1>5. ASSUME NEW h \in Handlers, HandlerStep(h) PROVE Shaped'
  BY <1>5, HandlerWrites, HandlerMoves, WritesShaped
<1> QED BY <1>1, <1>2, <1>3, <1>4, <1>5, StepKinds

LEMMA SaveFollows ==
  ASSUME Shaped, FileFollows, NEW h \in Handlers, NEW m, IsState(m), Save(h, m),
         write[h].step = "none", phase' # "down"
  PROVE  FileFollows'
<1> DEFINE r == [data |-> m, step |-> "queued", mixed |-> FALSE]
<1>1. /\ mem' = m /\ unsure' = (Writing # {}) /\ write'[h] = r
      /\ \A g \in Handlers \ {h} : write'[g] = write[g]
  BY SaveWrites
<1>2. r.data = m /\ r.step = "queued" /\ r.mixed = FALSE
  OBVIOUS
<1> HIDE DEF r
<1>3. Writing' = Writing \cup {h}
  BY <1>1, <1>2 DEF Writing
<1>4. ASSUME ~unsure' PROVE Writing' = {h} /\ write'[h].data = mem' /\ ~write'[h].mixed
  BY <1>1, <1>2, <1>3, <1>4
<1> QED BY <1>3, <1>4 DEF FileFollows

LEMMA FileKept ==
  ASSUME Shaped, FileFollows, [ServiceNext]_serviceVars
  PROVE  FileFollows'
<1>1. CASE Lost
  BY <1>1 DEF Lost, FileFollows, Writing, NoWrite
<1>2. CASE Elsewhere
  BY <1>2 DEF Elsewhere, FileFollows, memVars, Writing
<1>3. ASSUME NEW h \in Handlers, Restart(h) PROVE FileFollows'
  <2>1. write[h].step = "none"
    BY <1>3, RestartSaves DEF FileFollows, Writing
  <2>2. PICK m \in Found : Save(h, m) /\ IsState(m)
    BY <1>3, RestartSaves, FoundKeeps DEF Shaped
  <2> QED BY <1>3, <2>1, <2>2, RestartSaves, SaveFollows
<1>4. ASSUME NEW h \in Handlers, WriteOpen(h) PROVE FileFollows'
  <2>1. Writing' = Writing
    BY <1>4 DEF WriteOpen, Writing, Shaped
  <2>2. \A g \in Handlers : write'[g].data = write[g].data /\ write'[g].mixed = write[g].mixed
    BY <1>4 DEF WriteOpen, Shaped
  <2>3. h \in Writing /\ UNCHANGED <<phase, mem, unsure>>
    BY <1>4 DEF WriteOpen, Writing
  <2> QED BY <2>1, <2>2, <2>3 DEF FileFollows
<1>5. ASSUME NEW h \in Handlers, WriteDone(h) PROVE FileFollows'
  <2>1. Writing' = Writing \ {h} /\ h \in Writing /\ UNCHANGED <<phase, mem, unsure>>
    BY <1>5 DEF WriteDone, Closed, Writing, Shaped, NoWrite
  <2>2. ~write[h].mixed => file' = write[h].data
    BY <1>5 DEF WriteDone
  <2> QED BY <2>1, <2>2 DEF FileFollows
<1>6. ASSUME NEW h \in Handlers, WriteFail(h) PROVE FileFollows'
  <2>1. Writing' \subseteq Writing /\ h \in Writing /\ unsure' = TRUE /\ phase' = phase
    BY <1>6 DEF WriteFail, Closed, Writing, Shaped, NoWrite
  <2> QED BY <2>1 DEF FileFollows
<1>7. ASSUME NEW h \in Handlers, HandlerStep(h) PROVE FileFollows'
  <2>1. Writes(h) /\ phase' # "down"
    BY <1>7, HandlerWrites, HandlerPhase DEF Writes
  <2>2. CASE UNCHANGED memVars
    BY <2>1, <2>2 DEF FileFollows, memVars, Writing, Writes
  <2> QED BY <2>1, <2>2, SaveFollows DEF Writes
<1> QED BY <1>1, <1>2, <1>3, <1>4, <1>5, <1>6, <1>7, StepKinds DEF WriteStep

-----------------------------------------------------------------------------
(* Who runs when *)

LEMMA OpMoves ==
  ASSUME Shaped, NEW h \in Handlers, HandlerStep(h)
  PROVE  /\ handler[h].op = "none" => phase = "listen" /\ handler'[h].op # "boot"
         /\ handler'[h].op = "boot" => handler[h].op = "boot" /\ phase' = phase
         /\ handler[h].op = "boot" => handler'[h].op \in {"boot", "none"}
         /\ phase' # phase => handler[h].op = "boot" /\ phase' = "listen"
         /\ handler'[h].op = "start" =>
              handler[h].op = "start" \/ (handler'[h].pc = "disclaimer" /\ off' = FALSE)
<1> DEFINE Goal == /\ handler[h].op = "none" => phase = "listen" /\ handler'[h].op # "boot"
                   /\ handler'[h].op = "boot" => handler[h].op = "boot" /\ phase' = phase
                   /\ handler[h].op = "boot" => handler'[h].op \in {"boot", "none"}
                   /\ phase' # phase => handler[h].op = "boot" /\ phase' = "listen"
                   /\ handler'[h].op = "start" =>
                        handler[h].op = "start" \/ (handler'[h].pc = "disclaimer" /\ off' = FALSE)
<1> USE DEF Shaped, At, Arrives, Enter, Goto, End, Idle, Fits, RunPc
<1>1. CASE Connect(h)
  <2>1. CASE ConnectBegin(h)
    BY <2>1 DEF ConnectBegin
  <2>2. CASE ConnectEnd(h)
    BY <2>2 DEF ConnectEnd
  <2>3. CASE ConnectFailed(h)
    BY <2>3 DEF ConnectFailed
  <2>4. CASE ConnectReturns(h)
    BY <2>4 DEF ConnectReturns
  <2> QED BY <1>1, <2>1, <2>2, <2>3, <2>4 DEF Connect
<1>2. CASE StartRequest(h) \/ StartConnect(h) \/ Add(h)
  BY <1>2 DEF StartRequest, StartConnect, Add
<1>3. CASE Run(h)
  BY <1>3 DEF Run, RunBegin, RunInitialize, RunRegister, Ran
<1>4. CASE AnyStop(h)
  <2>1. ASSUME NEW s \in 1 .. ids, StopRequest(h, s) PROVE Goal
    BY <2>1 DEF StopRequest, Stopping
  <2>2. CASE Cleanup(h) \/ StopAnswer(h)
    BY <2>2 DEF Cleanup, StopAnswer
  <2> QED BY <1>4, <2>1, <2>2 DEF AnyStop
<1>5. CASE DisconnectService(h)
  <2>1. CASE DisconnectRequest(h)
    BY <2>1 DEF DisconnectRequest
  <2>2. CASE DisconnectStop(h)
    BY <2>2 DEF DisconnectStop, Stopping
  <2>3. CASE DisconnectClient(h)
    BY <2>3 DEF DisconnectClient
  <2>4. CASE DisconnectAnswer(h)
    BY <2>4 DEF DisconnectAnswer
  <2> QED BY <1>5, <2>1, <2>2, <2>3, <2>4 DEF DisconnectService
<1>6. CASE TickService(h)
  <2>1. ASSUME NEW s \in 1 .. ids, Tick(h, s) PROVE Goal
    BY <2>1 DEF Tick
  <2>2. CASE TickMetrics(h)
    BY <2>2 DEF TickMetrics
  <2> QED BY <1>6, <2>1, <2>2 DEF TickService
<1>7. CASE Close(h)
  <2>1. CASE CloseRequest(h)
    BY <2>1 DEF CloseRequest
  <2>2. CASE CloseTrade(h)
    <3>1. /\ handler[h].pc = "trade" /\ phase' = phase
          /\ End(h) \/ handler' = [handler EXCEPT ![h].pc = "emit", ![h].c = trade]
      BY <2>2 DEF CloseTrade
    <3> QED BY <3>1
  <2>3. CASE CloseResume(h)
    <3>1. handler[h].pc = "emit" /\ phase' = phase /\ End(h)
      BY <2>3 DEF CloseResume
    <3> QED BY <3>1
  <2> QED BY <1>7, <2>1, <2>2, <2>3 DEF Close
<1>8. CASE Booting(h)
  <2>1. CASE BootConnect(h)
    BY <2>1 DEF BootConnect
  <2>2. CASE BootCheck(h)
    BY <2>2 DEF BootCheck
  <2>3. CASE BootResume(h)
    <3> DEFINE next == {t \in DOMAIN mem.list : t > handler[h].s /\ mem.list[t].status = "active"}
    <3>1. /\ handler[h].op = "boot" /\ handler[h].pc = "ran"
          /\ \/ End(h) /\ phase' = "listen"
             \/ (\E s \in First(next) : Enter(h, "boot", "run", s)) /\ phase' = phase
      BY <2>3 DEF BootResume
    <3> HIDE DEF next
    <3> QED BY <3>1
  <2> QED BY <1>8, <2>1, <2>2, <2>3 DEF Booting
<1> QED BY <1>1, <1>2, <1>3, <1>4, <1>5, <1>6, <1>7, <1>8 DEF HandlerStep, Start

(* The server starts to listen at the end of the boot.                     *)
LEMMA OnlyBootEnds ==
  ASSUME Shaped, NEW h \in Handlers, HandlerStep(h), phase' # phase, handler[h].pc = "ran"
  PROVE  BootResume(h)
BY HandlerPhase DEF BootCheck, At

LEMMA BootsAloneKept ==
  ASSUME Shaped, BootsAlone, [ServiceNext]_serviceVars
  PROVE  BootsAlone'
<1> USE DEF BootsAlone
<1>1. CASE Lost
  BY <1>1 DEF Lost, Idle
<1>2. CASE Elsewhere
  BY <1>2 DEF Elsewhere
<1>3. ASSUME NEW h \in Handlers, Restart(h) PROVE BootsAlone'
  BY <1>3, RestartSaves DEF Shaped
<1>4. ASSUME NEW h \in Handlers, WriteStep(h) PROVE BootsAlone'
  BY <1>4, WritesEnd
<1>5. ASSUME NEW h \in Handlers, HandlerStep(h) PROVE BootsAlone'
  <2>1. phase \in {"boot", "listen"} /\ phase' # "down" /\ (phase' = "boot" => phase = "boot")
    BY <1>5, OpMoves, HandlerWrites DEF Writes
  <2>2. \A g \in Handlers \ {h} : handler'[g] = handler[g]
    BY <1>5, HandlerMoves DEF Moves
  <2>3. /\ handler[h].op = "none" => phase = "listen"
        /\ handler'[h].op = "boot" => handler[h].op = "boot" /\ phase' = phase
        /\ handler[h].op = "boot" => handler'[h].op \in {"boot", "none"}
        /\ phase' # phase => handler[h].op = "boot" /\ phase' = "listen"
    BY <1>5, OpMoves
  <2>4. phase' = "boot" => handler[h].op = "boot"
    BY <2>1, <2>3
  <2> QED BY <2>1, <2>2, <2>3, <2>4
<1> QED BY <1>1, <1>2, <1>3, <1>4, <1>5, StepKinds

(* While the server starts, every step of a handler is one of its own. *)
LEMMA BootSteps ==
  ASSUME Shaped, BootsAlone, NEW h \in Handlers, HandlerStep(h), phase = "boot"
  PROVE  handler[h].op = "boot" /\ \A g \in Handlers \ {h} : handler[g].op = "none"
BY OpMoves DEF BootsAlone

-----------------------------------------------------------------------------
(* What a step of handler h does to runs, starts and stops. *)

Running(r) == r.pc \in RunPc \cup {"ran"}

RunMoves(h) ==
  /\ ids' = ids \/ ids' = ids + 1
  /\ handler'[h].op = "start" /\ Running(handler'[h]) =>
       \/ handler[h].op = "start" /\ Running(handler[h]) /\ handler'[h].s = handler[h].s
       \/ ids' = ids + 1 /\ handler'[h].s = ids'
  /\ \/ started' = started
     \/ /\ handler[h].op = "start" /\ Running(handler[h]) /\ handler'[h].op = "none"
        /\ started' = started \cup {handler[h].s}

ExecMoves(h) ==
  /\ DOMAIN exec' \subseteq DOMAIN exec \cup (IF handler[h].pc = "register" THEN {handler[h].s} ELSE {})
  /\ handler'[h].op = "boot" /\ handler'[h].pc \in RunPc =>
       \/ handler[h].op = "boot" /\ handler[h].pc \in RunPc /\ handler'[h].s = handler[h].s
       \/ handler'[h].s \in Active(mem)

StopMoves(h) ==
  /\ revived \subseteq revived'
  /\ \/ stopped' = stopped
     \/ /\ handler[h].pc = "stopped" /\ ~unsure /\ Writing = {} /\ UNCHANGED <<mem, file, write>>
        /\ stopped' = stopped \cup ({handler[h].c} \ {Nobody})
  /\ handler'[h].pc \in {"cleanup", "stopped"} =>
       \/ handler[h].pc \in {"cleanup", "stopped"} /\ handler'[h].c = handler[h].c
       \/ handler'[h].c = Nobody
       \/ /\ handler'[h].c \in started /\ handler'[h].c \notin Active(mem')
          /\ handler'[h].c \notin DOMAIN exec' /\ exec' = Restrict(exec, DOMAIN exec \ {handler'[h].c})

LEMMA StepsRun ==
  ASSUME Shaped, NEW h \in Handlers, HandlerStep(h)
  PROVE  RunMoves(h)
<1> USE DEF Shaped, At, Arrives, Enter, Goto, End, Idle, Fits, RunPc, Running, RunMoves, bounds, answered
<1>1. CASE Connect(h)
  <2>1. CASE ConnectBegin(h)
    BY <2>1 DEF ConnectBegin
  <2>2. CASE ConnectEnd(h)
    BY <2>2 DEF ConnectEnd
  <2>3. CASE ConnectFailed(h)
    BY <2>3 DEF ConnectFailed
  <2>4. CASE ConnectReturns(h)
    BY <2>4 DEF ConnectReturns
  <2> QED BY <1>1, <2>1, <2>2, <2>3, <2>4 DEF Connect
<1>2. CASE StartRequest(h) \/ StartConnect(h) \/ Add(h)
  BY <1>2 DEF StartRequest, StartConnect, Add
<1>3. CASE Run(h)
  BY <1>3 DEF Run, RunBegin, RunInitialize, RunRegister, Ran
<1>4. CASE AnyStop(h)
  <2>1. ASSUME NEW s \in 1 .. ids, StopRequest(h, s) PROVE RunMoves(h)
    BY <2>1 DEF StopRequest, Stopping
  <2>2. CASE Cleanup(h) \/ StopAnswer(h)
    BY <2>2 DEF Cleanup, StopAnswer
  <2> QED BY <1>4, <2>1, <2>2 DEF AnyStop
<1>5. CASE DisconnectService(h)
  <2>1. CASE DisconnectRequest(h)
    BY <2>1 DEF DisconnectRequest
  <2>2. CASE DisconnectStop(h)
    BY <2>2 DEF DisconnectStop, Stopping
  <2>3. CASE DisconnectClient(h)
    BY <2>3 DEF DisconnectClient
  <2>4. CASE DisconnectAnswer(h)
    BY <2>4 DEF DisconnectAnswer
  <2> QED BY <1>5, <2>1, <2>2, <2>3, <2>4 DEF DisconnectService
<1>6. CASE TickService(h)
  <2>1. ASSUME NEW s \in 1 .. ids, Tick(h, s) PROVE RunMoves(h)
    BY <2>1 DEF Tick
  <2>2. CASE TickMetrics(h)
    BY <2>2 DEF TickMetrics
  <2> QED BY <1>6, <2>1, <2>2 DEF TickService
<1>7. CASE Close(h)
  <2>1. CASE CloseRequest(h)
    BY <2>1 DEF CloseRequest
  <2>2. CASE CloseTrade(h)
    <3>1. /\ handler[h].pc = "trade" /\ UNCHANGED <<ids, started>>
          /\ End(h) \/ handler' = [handler EXCEPT ![h].pc = "emit", ![h].c = trade]
      BY <2>2 DEF CloseTrade
    <3> QED BY <3>1
  <2>3. CASE CloseResume(h)
    <3>1. handler[h].pc = "emit" /\ UNCHANGED <<ids, started>> /\ End(h)
      BY <2>3 DEF CloseResume
    <3> QED BY <3>1
  <2> QED BY <1>7, <2>1, <2>2, <2>3 DEF Close
<1>8. CASE Booting(h)
  <2>1. CASE BootConnect(h)
    BY <2>1 DEF BootConnect
  <2>2. CASE BootCheck(h)
    BY <2>2 DEF BootCheck
  <2>3. CASE BootResume(h)
    BY <2>3, OpMoves, HandlerMoves DEF BootResume, HandlerStep, Booting
  <2> QED BY <1>8, <2>1, <2>2, <2>3 DEF Booting
<1> QED BY <1>1, <1>2, <1>3, <1>4, <1>5, <1>6, <1>7, <1>8 DEF HandlerStep, Start

LEMMA StepsExecute ==
  ASSUME Shaped, NEW h \in Handlers, HandlerStep(h)
  PROVE  ExecMoves(h)
<1> USE DEF Shaped, At, Arrives, Enter, Goto, End, Idle, Fits, RunPc, ExecMoves, runVars
<1>1. CASE Connect(h)
  <2>1. CASE ConnectBegin(h)
    BY <2>1 DEF ConnectBegin
  <2>2. CASE ConnectEnd(h)
    BY <2>2 DEF ConnectEnd
  <2>3. CASE ConnectFailed(h)
    BY <2>3 DEF ConnectFailed
  <2>4. CASE ConnectReturns(h)
    BY <2>4 DEF ConnectReturns
  <2> QED BY <1>1, <2>1, <2>2, <2>3, <2>4 DEF Connect
<1>2. CASE StartRequest(h) \/ StartConnect(h) \/ Add(h)
  BY <1>2 DEF StartRequest, StartConnect, Add
<1>3. CASE Run(h)
  <2>1. CASE RunBegin(h) \/ RunInitialize(h) \/ Ran(h)
    BY <2>1 DEF RunBegin, RunInitialize, Ran
  <2>2. CASE RunRegister(h)
    <3>1. DOMAIN exec' = DOMAIN exec \cup {handler[h].s} /\ handler[h].pc = "register"
      BY <2>2 DEF RunRegister, Put
    <3>2. handler'[h].pc \in {"ran", "idle"}
      BY <2>2 DEF RunRegister
    <3> QED BY <3>1, <3>2
  <2> QED BY <1>3, <2>1, <2>2 DEF Run
<1>4. CASE AnyStop(h)
  <2>1. ASSUME NEW s \in 1 .. ids, StopRequest(h, s) PROVE ExecMoves(h)
    BY <2>1 DEF StopRequest, Stopping, Stop, Restrict
  <2>2. CASE Cleanup(h) \/ StopAnswer(h)
    BY <2>2 DEF Cleanup, StopAnswer
  <2> QED BY <1>4, <2>1, <2>2 DEF AnyStop
<1>5. CASE DisconnectService(h)
  <2>1. CASE DisconnectRequest(h)
    BY <2>1 DEF DisconnectRequest
  <2>2. CASE DisconnectStop(h)
    BY <2>2 DEF DisconnectStop, Stopping, Stop, Restrict
  <2>3. CASE DisconnectClient(h)
    BY <2>3 DEF DisconnectClient
  <2>4. CASE DisconnectAnswer(h)
    BY <2>4 DEF DisconnectAnswer
  <2> QED BY <1>5, <2>1, <2>2, <2>3, <2>4 DEF DisconnectService
<1>6. CASE TickService(h)
  <2>1. ASSUME NEW s \in 1 .. ids, Tick(h, s) PROVE ExecMoves(h)
    BY <2>1 DEF Tick
  <2>2. CASE TickMetrics(h)
    BY <2>2 DEF TickMetrics
  <2> QED BY <1>6, <2>1, <2>2 DEF TickService
<1>7. CASE Close(h)
  <2>1. CASE CloseRequest(h)
    BY <2>1 DEF CloseRequest
  <2>2. CASE CloseTrade(h)
    <3>1. /\ handler[h].pc = "trade" /\ exec' = exec
          /\ End(h) \/ handler' = [handler EXCEPT ![h].pc = "emit", ![h].c = trade]
      BY <2>2 DEF CloseTrade
    <3> QED BY <3>1
  <2>3. CASE CloseResume(h)
    <3>1. handler[h].pc = "emit" /\ exec' = exec /\ End(h)
      BY <2>3 DEF CloseResume
    <3> QED BY <3>1
  <2> QED BY <1>7, <2>1, <2>2, <2>3 DEF Close
<1>8. CASE Booting(h)
  <2>1. CASE BootConnect(h)
    BY <2>1 DEF BootConnect
  <2>2. CASE BootCheck(h)
    BY <2>2 DEF BootCheck
  <2>3. CASE BootResume(h)
    <3> DEFINE next == {t \in DOMAIN mem.list : t > handler[h].s /\ mem.list[t].status = "active"}
    <3>1. /\ exec' = exec /\ handler[h].pc = "ran"
          /\ End(h) \/ (\E s \in First(next) : Enter(h, "boot", "run", s))
      BY <2>3 DEF BootResume
    <3>2. First(next) \subseteq Active(mem)
      BY DEF First, Active
    <3> HIDE DEF next
    <3> QED BY <3>1, <3>2
  <2> QED BY <1>8, <2>1, <2>2, <2>3 DEF Booting
<1> QED BY <1>1, <1>2, <1>3, <1>4, <1>5, <1>6, <1>7, <1>8 DEF HandlerStep, Start

(* The stop of s takes its executor away unless s is only paused. *)
LEMMA StopTakes ==
  ASSUME IsState(mem), NEW h \in Handlers, NEW s, Stop(h, s), ~Shows(s)
  PROVE  s \notin Active(mem') /\ s \notin DOMAIN exec' /\ exec' = Restrict(exec, DOMAIN exec \ {s})
<1>1. exec' = Restrict(exec, DOMAIN exec \ {s})
  BY DEF Stop
<1>2. s \notin DOMAIN exec'
  BY <1>1 DEF Restrict
<1>3. CASE s \in DOMAIN mem.list
  <2>1. mem' = SetStatus(s, "stopped")
    BY <1>3 DEF Stop, Save
  <2>2. s \notin Active(SetStatus(s, "stopped"))
    BY StatusKeeps
  <2>3. s \notin Active(mem')
    BY <2>1, <2>2
  <2> QED BY <1>1, <1>2, <2>3
<1>4. CASE s \notin DOMAIN mem.list
  <2>1. mem' = mem
    BY <1>4 DEF Stop, memVars
  <2>2. s \notin Active(mem')
    BY <1>4, <2>1 DEF Active
  <2> QED BY <1>1, <1>2, <2>2
<1> QED BY <1>1, <1>2, <1>3, <1>4

LEMMA StepsStop ==
  ASSUME Shaped, NEW h \in Handlers, HandlerStep(h)
  PROVE  StopMoves(h)
<1> USE DEF Shaped, At, Arrives, Enter, Goto, End, Idle, Fits, RunPc, StopMoves, answered
<1>1. CASE Connect(h)
  <2>1. CASE ConnectBegin(h)
    BY <2>1 DEF ConnectBegin
  <2>2. CASE ConnectEnd(h)
    BY <2>2 DEF ConnectEnd
  <2>3. CASE ConnectFailed(h)
    BY <2>3 DEF ConnectFailed
  <2>4. CASE ConnectReturns(h)
    BY <2>4 DEF ConnectReturns
  <2> QED BY <1>1, <2>1, <2>2, <2>3, <2>4 DEF Connect
<1>2. CASE StartRequest(h) \/ StartConnect(h) \/ Add(h)
  BY <1>2 DEF StartRequest, StartConnect, Add
<1>3. CASE Run(h)
  BY <1>3 DEF Run, RunBegin, RunInitialize, RunRegister, Ran
<1>4. CASE AnyStop(h)
  <2>1. ASSUME NEW s \in 1 .. ids, StopRequest(h, s) PROVE StopMoves(h)
    <3>1. Stop(h, s) /\ UNCHANGED answered
          /\ handler' = [handler EXCEPT ![h] =
               [op |-> "stop", pc |-> IF Shows(s) THEN "paused" ELSE "cleanup", s |-> s,
                c |-> IF s \in started THEN s ELSE Nobody]]
      BY <2>1 DEF StopRequest, Stopping
    <3> QED BY <3>1, StopTakes
  <2>2. CASE Cleanup(h) \/ StopAnswer(h)
    BY <2>2 DEF Cleanup, StopAnswer, memVars
  <2> QED BY <1>4, <2>1, <2>2 DEF AnyStop
<1>5. CASE DisconnectService(h)
  <2>1. CASE DisconnectRequest(h)
    BY <2>1 DEF DisconnectRequest
  <2>2. CASE DisconnectStop(h)
    <3>1. PICK s \in timers : Stop(h, s)
          /\ handler' = [handler EXCEPT ![h] =
               [op |-> handler[h].op, pc |-> IF Shows(s) THEN "paused" ELSE "cleanup", s |-> s,
                c |-> IF s \in started THEN s ELSE Nobody]]
      BY <2>2 DEF DisconnectStop, Stopping
    <3>2. UNCHANGED answered
      BY <2>2 DEF DisconnectStop
    <3> QED BY <3>1, <3>2, StopTakes
  <2>3. CASE DisconnectClient(h)
    BY <2>3 DEF DisconnectClient
  <2>4. CASE DisconnectAnswer(h)
    BY <2>4 DEF DisconnectAnswer
  <2> QED BY <1>5, <2>1, <2>2, <2>3, <2>4 DEF DisconnectService
<1>6. CASE TickService(h)
  <2>1. ASSUME NEW s \in 1 .. ids, Tick(h, s) PROVE StopMoves(h)
    BY <2>1 DEF Tick
  <2>2. CASE TickMetrics(h)
    BY <2>2 DEF TickMetrics
  <2> QED BY <1>6, <2>1, <2>2 DEF TickService
<1>7. CASE Close(h)
  <2>1. CASE CloseRequest(h)
    BY <2>1 DEF CloseRequest
  <2>2. CASE CloseTrade(h)
    <3>1. /\ UNCHANGED stopped /\ revived \subseteq revived'
          /\ End(h) \/ handler' = [handler EXCEPT ![h].pc = "emit", ![h].c = trade]
      BY <2>2 DEF CloseTrade
    <3> QED BY <3>1
  <2>3. CASE CloseResume(h)
    <3>1. UNCHANGED answered /\ End(h)
      BY <2>3 DEF CloseResume
    <3> QED BY <3>1
  <2> QED BY <1>7, <2>1, <2>2, <2>3 DEF Close
<1>8. CASE Booting(h)
  <2>1. CASE BootConnect(h)
    BY <2>1 DEF BootConnect
  <2>2. CASE BootCheck(h)
    BY <2>2 DEF BootCheck
  <2>3. CASE BootResume(h)
    <3> DEFINE next == {t \in DOMAIN mem.list : t > handler[h].s /\ mem.list[t].status = "active"}
    <3>1. /\ UNCHANGED answered
          /\ End(h) \/ (\E s \in First(next) : Enter(h, "boot", "run", s))
      BY <2>3 DEF BootResume
    <3> HIDE DEF next
    <3> QED BY <3>1
  <2> QED BY <1>8, <2>1, <2>2, <2>3 DEF Booting
<1> QED BY <1>1, <1>2, <1>3, <1>4, <1>5, <1>6, <1>7, <1>8 DEF HandlerStep, Start

-----------------------------------------------------------------------------
(* Runs and stops *)

LEMMA RunsOnceKept ==
  ASSUME Shaped, RunsOnce, StoppedAreOut, [ServiceNext]_serviceVars
  PROVE  RunsOnce'
<1>1. CASE Lost
  BY <1>1 DEF Lost, RunsOnce, Idle, answered
<1>2. CASE Elsewhere
  BY <1>2 DEF Elsewhere, RunsOnce, answered
<1>3. ASSUME NEW h \in Handlers, Restart(h) PROVE RunsOnce'
  <2>1. \A g \in Handlers : handler'[g].op = "start" => g # h /\ handler'[g] = handler[g]
    BY <1>3, RestartSaves DEF Shaped
  <2>2. UNCHANGED <<ids, started, stopped>>
    BY <1>3, RestartSaves DEF answered
  <2> QED BY <2>1, <2>2 DEF RunsOnce
<1>4. ASSUME NEW h \in Handlers, WriteStep(h) PROVE RunsOnce'
  BY <1>4, WritesEnd DEF RunsOnce, answered
<1>5. ASSUME NEW h \in Handlers, HandlerStep(h) PROVE RunsOnce'
  <2>1. Moves(h) /\ RunMoves(h) /\ StopMoves(h)
    BY <1>5, HandlerMoves, StepsRun, StepsStop
  <2>2. stopped' \subseteq started /\ started \subseteq started'
    BY <2>1 DEF StopMoves, RunMoves, RunsOnce, StoppedAreOut
  <2>3. started' \subseteq 1 .. ids /\ ids \in Nat /\ (ids' = ids \/ ids' = ids + 1)
    BY <2>1 DEF RunMoves, RunsOnce, Running, Shaped
  <2>4. started' \subseteq 1 .. ids'
    BY <2>3
  <2>5. ASSUME NEW g \in Handlers \ {h}, handler[g].op = "start", Running(handler[g])
        PROVE  handler[g].s \in 1 .. ids' \ started'
    <3>1. handler[g].s \in 1 .. ids \ started
      BY <2>5 DEF RunsOnce, Running
    <3>2. handler[h].op = "start" /\ Running(handler[h]) => handler[h].s # handler[g].s
      BY <2>5 DEF RunsOnce, Running
    <3> QED BY <3>1, <3>2, <2>1, <2>3 DEF RunMoves
  <2>6. ASSUME handler'[h].op = "start", Running(handler'[h])
        PROVE  /\ handler'[h].s \in 1 .. ids' \ started'
               /\ \A g \in Handlers \ {h} : handler[g].op = "start" /\ Running(handler[g]) =>
                    handler[g].s # handler'[h].s
    <3>1. started' = started
      BY <2>6, <2>1 DEF RunMoves
    <3>2. CASE handler[h].op = "start" /\ Running(handler[h]) /\ handler'[h].s = handler[h].s
      BY <3>1, <3>2, <2>3 DEF RunsOnce, Running
    <3>3. CASE ids' = ids + 1 /\ handler'[h].s = ids'
      <4>1. \A g \in Handlers : handler[g].op = "start" /\ Running(handler[g]) => handler[g].s \in 1 .. ids
        BY DEF RunsOnce, Running
      <4> QED BY <4>1, <3>1, <3>3, <2>3
    <3> QED BY <2>6, <2>1, <3>2, <3>3 DEF RunMoves
  <2>7. \A g \in Handlers \ {h} : handler'[g] = handler[g]
    BY <2>1 DEF Moves
  <2> QED BY <2>2, <2>4, <2>5, <2>6, <2>7 DEF RunsOnce, Running
<1> QED BY <1>1, <1>2, <1>3, <1>4, <1>5, StepKinds

LEMMA StoppedAreOutKept ==
  ASSUME Shaped, FileFollows, BootsAlone, RunsOnce, StoppedAreOut, [ServiceNext]_serviceVars
  PROVE  StoppedAreOut'
<1> USE DEF StoppedAreOut, Out
<1>1. CASE Lost
  BY <1>1, FreshIsState DEF Lost, Idle, NoWrite, answered
<1>2. CASE Elsewhere
  BY <1>2 DEF Elsewhere, memVars, answered
<1>3. ASSUME NEW h \in Handlers, Restart(h) PROVE StoppedAreOut'
  <2>0. PICK m \in Found : Save(h, m)
    BY <1>3, RestartSaves
  <2>2. IsState(m) /\ Active(m) \subseteq Active(file)
    BY FoundKeeps DEF Shaped
  <2>1. mem' = m /\ file' = file /\ UNCHANGED <<exec, answered>>
        /\ \A g \in Handlers : Active(write'[g].data) \subseteq Active(write[g].data) \cup Active(m)
    BY <1>3, <2>0, <2>2, RestartSaves, SaveData
  <2>3. \A g \in Handlers : handler'[g].pc \in {"idle", "loaded"}
    BY <1>3, RestartSaves DEF BootsAlone, Shaped, Fits
  <2> QED BY <2>1, <2>2, <2>3 DEF RunPc, answered
<1>4. ASSUME NEW h \in Handlers, WriteStep(h) PROVE StoppedAreOut'
  BY <1>4, WritesEnd, FreshIsState DEF answered
<1>5. ASSUME NEW h \in Handlers, HandlerStep(h) PROVE StoppedAreOut'
  <2>1. Moves(h) /\ RunMoves(h) /\ StopMoves(h) /\ ExecMoves(h) /\ Writes(h)
    BY <1>5, HandlerMoves, StepsRun, StepsStop, StepsExecute, HandlerWrites
  <2>2. ASSUME NEW s \in started \ revived' PROVE s \notin Fresher
    BY <2>2 DEF Fresher, RunsOnce
  <2>3. /\ Active(mem') \subseteq Active(mem) \cup Fresher
        /\ \A g \in Handlers : Active(write'[g].data) \subseteq Active(write[g].data) \cup Active(mem) \cup Fresher
        /\ file' = file
    <3>1. CASE UNCHANGED memVars
      BY <3>1 DEF memVars
    <3>2. ASSUME NEW m, Save(h, m), IsState(m), Active(m) \subseteq Active(mem) \cup Fresher
          PROVE  /\ mem' = m /\ file' = file
                 /\ \A g \in Handlers : Active(write'[g].data) \subseteq Active(write[g].data) \cup Active(m)
      BY <3>2, SaveData
    <3> QED BY <3>1, <3>2, <2>1 DEF Writes
  <2>4. revived \subseteq revived'
    BY <2>1 DEF StopMoves
  <2>5. \A g \in Handlers \ {h} : handler'[g] = handler[g]
    BY <2>1 DEF Moves
  <2>6. handler[h].pc = "register" => handler[h].op \in {"boot", "start"}
    BY DEF Shaped, Fits, RunPc
  (* A stopped strategy stays out. *)
  <2>7. ASSUME NEW s \in stopped, s \notin revived' PROVE Out(s)'
    <3>1. Out(s) /\ s \in started
      BY <2>4, <2>7 DEF RunsOnce
    <3>2. s \notin DOMAIN exec'
      BY <3>1, <2>1, <2>6 DEF ExecMoves, RunsOnce, RunPc
    <3>3. handler'[h].op = "boot" /\ handler'[h].pc \in RunPc => handler'[h].s # s
      BY <3>1, <2>1 DEF ExecMoves
    <3>4. s \notin Fresher
      BY <2>2, <2>7, <3>1
    <3> QED BY <3>1, <3>2, <3>3, <3>4, <2>3, <2>5
  (* A stop that is answered left the strategy out. *)
  <2>8. ASSUME NEW s \in stopped', s \notin stopped, s \notin revived' PROVE Out(s)'
    <3>1. /\ handler[h].pc = "stopped" /\ ~unsure /\ Writing = {} /\ UNCHANGED <<mem, file, write>>
          /\ s = handler[h].c /\ s # Nobody
      BY <2>1, <2>8 DEF StopMoves
    <3>2. s \in started /\ s \notin DOMAIN exec /\ s \notin Active(mem)
      BY <3>1, <2>4, <2>8
    <3>3. file = mem
      BY <3>1, <2>1 DEF FileFollows, Writes
    <3>4. \A g \in Handlers : Active(write[g].data) = {}
      BY <3>1, FreshIsState DEF Writing, Shaped, NoWrite
    <3>5. handler[h].op \in {"stop", "disconnect", "kill"}
      BY <3>1 DEF Shaped, Fits, RunPc
    <3>6. \A g \in Handlers : handler[g].op # "boot"
      BY <3>5 DEF BootsAlone
    <3>7. handler'[h].op # "boot"
      BY <3>5, <1>5, OpMoves
    <3>8. s \notin DOMAIN exec'
      BY <2>1, <3>1, <3>2 DEF ExecMoves
    <3> QED BY <3>1, <3>2, <3>3, <3>4, <3>6, <3>7, <3>8, <2>5
  (* A stop under way. *)
  <2>9. ASSUME NEW g \in Handlers, handler'[g].pc \in {"cleanup", "stopped"}, handler'[g].c # Nobody
        PROVE  /\ handler'[g].c \in started' /\ handler'[g].c \notin DOMAIN exec'
               /\ handler'[g].c \notin Active(mem') \/ handler'[g].c \in revived'
    <3> DEFINE s == handler'[g].c
    <3>1. started \subseteq started'
      BY <2>1 DEF RunMoves
    <3>2. CASE handler[g].pc \in {"cleanup", "stopped"} /\ handler[g].c = s
      <4>1. s \in started /\ s \notin DOMAIN exec /\ (s \notin Active(mem) \/ s \in revived)
        BY <2>9, <3>2
      <4>2. handler[h].pc = "register" => handler[h].s # s
        <5>1. CASE handler[h].op = "start"
          BY <5>1, <4>1 DEF RunsOnce, RunPc
        <5>2. CASE handler[h].op = "boot"
          BY <5>2, <3>2 DEF BootsAlone, Shaped, Fits, RunPc
        <5> QED BY <2>6, <5>1, <5>2
      <4>3. s \notin DOMAIN exec'
        BY <4>1, <4>2, <2>1 DEF ExecMoves
      <4>4. s \in revived' \/ s \notin Fresher
        BY <4>1, <2>2
      <4> QED BY <4>1, <4>3, <4>4, <3>1, <2>3, <2>4
    <3>3. CASE g = h /\ s \in started /\ s \notin Active(mem') /\ s \notin DOMAIN exec'
      BY <3>1, <3>3
    <3> QED BY <2>1, <2>5, <2>9, <3>2, <3>3 DEF StopMoves
  <2> QED BY <2>7, <2>8, <2>9
<1> QED BY <1>1, <1>2, <1>3, <1>4, <1>5, StepKinds

-----------------------------------------------------------------------------
(* Resuming after a restart *)

(* A boot takes up the next active strategy, or has gone on with its own.  *)
BootMoves(h) ==
  /\ DOMAIN exec \subseteq DOMAIN exec' /\ Active(mem') \subseteq Active(mem)
  /\ \/ handler'[h].s = 0
     \/ /\ handler[h].pc \in RunPc /\ handler'[h].s = handler[h].s
        /\ handler'[h].pc = "ran" => handler[h].s \in DOMAIN exec' \/ handler[h].s \notin Active(mem')
     \/ /\ handler[h].pc = "ran" /\ handler'[h].pc = "run"
        /\ \A r \in Active(mem) : r < handler'[h].s => r <= handler[h].s

LEMMA BootAdvances ==
  ASSUME Shaped, NEW h \in Handlers, HandlerStep(h), handler[h].op = "boot",
         handler'[h].op = "boot", Running(handler'[h])
  PROVE  BootMoves(h)
<1> USE DEF Shaped, At, Arrives, Goto, Running, RunPc
<1>1. Connect(h) => FALSE
  <2>1. ConnectBegin(h) \/ ConnectReturns(h) => FALSE
    BY DEF ConnectBegin, ConnectReturns
  <2>2. ConnectEnd(h) => FALSE
    BY DEF ConnectEnd
  <2>3. ConnectFailed(h) => FALSE
    BY DEF ConnectFailed
  <2> QED BY <2>1, <2>2, <2>3 DEF Connect
<1>2. AnyStop(h) \/ DisconnectService(h) \/ TickService(h) \/ Close(h) => FALSE
  BY DEF Fits, AnyStop, StopRequest, Cleanup, StopAnswer, DisconnectService, DisconnectRequest,
     DisconnectStop, DisconnectClient, DisconnectAnswer, TickService, Tick, TickMetrics,
     Close, CloseRequest, CloseTrade, CloseResume
<1>3. StartRequest(h) \/ StartConnect(h) \/ Add(h) \/ Ran(h) => FALSE
  BY DEF Fits, StartRequest, StartConnect, Add, Ran
<1>4. BootConnect(h) => FALSE
  BY DEF BootConnect
<1>5. CASE RunBegin(h)
  BY <1>5, StatusKeeps DEF RunBegin, Keeps, Save, memVars, runVars, BootMoves
<1>6. CASE RunInitialize(h)
  <2> DEFINE s == handler[h].s  m == [mem EXCEPT !.list[s].analysis = s \in trading']
  <2>1. handler[h].pc = "initialize" /\ handler' = [handler EXCEPT ![h].pc = "register"] /\ exec' = exec
        /\ IF s \in DOMAIN mem.list THEN mem' = m ELSE mem' = mem
    BY <1>6 DEF RunInitialize, Save, memVars
  <2>2. s \in DOMAIN mem.list => Keeps(m, mem, {})
    BY FlagsKeep
  <2> HIDE DEF m
  <2> QED BY <2>1, <2>2 DEF Keeps, BootMoves
<1>7. CASE RunRegister(h)
  <2>1. DOMAIN exec' = DOMAIN exec \cup {handler[h].s} /\ handler[h].pc = "register"
    BY <1>7 DEF RunRegister, Put
  <2>2. mem' \in {mem, SetStatus(handler[h].s, "error")} /\ handler' = [handler EXCEPT ![h].pc = "ran"]
    BY <1>7 DEF RunRegister, Save, memVars
  <2>3. Active(mem') \subseteq Active(mem)
    BY <2>2, StatusKeeps DEF Keeps
  <2> QED BY <2>1, <2>2, <2>3 DEF BootMoves
<1>8. CASE BootCheck(h)
  <2> DEFINE F == First(Named(trade))
             m == [mem EXCEPT !.list = [s \in DOMAIN @ |->
                     IF s \in F THEN [@[s] EXCEPT !.metrics = FALSE] ELSE @[s]]]
  <2>1. exec' = exec /\ mem' \in {mem, m} /\ (Enter(h, "boot", "ran", 0) \/ End(h))
    BY <1>8 DEF BootCheck, Save, memVars, runVars
  <2>2. Keeps(m, mem, {})
    BY RevivedKeeps
  <2> HIDE DEF m, F
  <2> QED BY <2>1, <2>2 DEF Keeps, BootMoves, Enter, End, Idle
<1>9. CASE BootResume(h)
  <2> DEFINE next == {t \in DOMAIN mem.list : t > handler[h].s /\ mem.list[t].status = "active"}
  <2>1. /\ exec' = exec /\ mem' = mem /\ handler[h].pc = "ran"
        /\ End(h) \/ (\E s \in First(next) : Enter(h, "boot", "run", s))
    BY <1>9 DEF BootResume, memVars, runVars
  <2>2. PICK s \in First(next) : Enter(h, "boot", "run", s)
    BY <2>1 DEF End, Idle
  <2>3. handler[h].s \in Nat
    BY <2>1 DEF Fits
  <2>4. s \in Nat /\ \A r \in next : r \in Nat /\ s <= r
    BY DEF First, IsState
  <2>5. \A r \in Active(mem) : r \in Nat /\ (r > handler[h].s => r \in next)
    BY DEF Active, IsState
  <2> HIDE DEF next
  <2>6. \A r \in Active(mem) : r < s => r <= handler[h].s
    BY <2>3, <2>4, <2>5
  <2> QED BY <2>1, <2>2, <2>6 DEF BootMoves, Enter
<1> QED BY <1>1, <1>2, <1>3, <1>4, <1>5, <1>6, <1>7, <1>8, <1>9 DEF HandlerStep, Start, Run, Booting

LEMMA ResumedRunKept ==
  ASSUME Shaped, BootsAlone, ResumedRun, [ServiceNext]_serviceVars
  PROVE  ResumedRun'
<1> USE DEF ResumedRun
<1>1. CASE Lost
  BY <1>1 DEF Lost, Idle
<1>2. CASE Elsewhere
  BY <1>2 DEF Elsewhere, memVars, BootsAlone
<1>3. ASSUME NEW h \in Handlers, Restart(h) PROVE ResumedRun'
  <2>1. \A g \in Handlers : handler'[g].pc \in {"idle", "loaded"}
    BY <1>3, RestartSaves DEF BootsAlone, Shaped, Fits
  <2> QED BY <2>1 DEF RunPc
<1>4. ASSUME NEW h \in Handlers, WriteStep(h) PROVE ResumedRun'
  BY <1>4, WritesEnd
<1>5. ASSUME NEW h \in Handlers, HandlerStep(h) PROVE ResumedRun'
  <2> SUFFICES ASSUME NEW g \in Handlers, NEW r \in Active(mem'),
                      handler'[g].op = "boot", Running(handler'[g]),
                      r < handler'[g].s \/ (handler'[g].pc = "ran" /\ r = handler'[g].s)
               PROVE  r \in DOMAIN exec'
    BY DEF Running
  <2>1. handler[g].op = "boot"
    BY <1>5, HandlerMoves, OpMoves DEF Moves
  <2>2. g = h
    BY <1>5, <2>1, BootSteps DEF BootsAlone
  <2>3. BootMoves(g)
    BY <1>5, <2>1, <2>2, BootAdvances
  <2>5. r \in Nat \ {0}
    <3>1. IsState(mem')
      <4>1. mem' = mem \/ IsState(mem')
        BY <1>5, HandlerWrites DEF Writes, memVars, Save
      <4> QED BY <4>1 DEF Shaped
    <3> QED BY <3>1 DEF IsState, Active
  <2>6. r \in Active(mem) /\ (r \in DOMAIN exec => r \in DOMAIN exec')
    BY <2>3 DEF BootMoves
  <2>7. CASE handler'[g].s = 0
    BY <2>5, <2>7
  <2>8. CASE handler[g].pc \in RunPc /\ handler'[g].s = handler[g].s
             /\ (handler'[g].pc = "ran" => handler[g].s \in DOMAIN exec' \/ handler[g].s \notin Active(mem'))
    BY <2>1, <2>6, <2>8
  <2>9. CASE handler[g].pc = "ran" /\ handler'[g].pc = "run"
             /\ \A q \in Active(mem) : q < handler'[g].s => q <= handler[g].s
    <3>1. r <= handler[g].s /\ handler[g].s \in Nat
      BY <2>1, <2>6, <2>9 DEF Shaped, Fits, RunPc
    <3>2. r < handler[g].s \/ r = handler[g].s
      BY <2>5, <3>1
    <3> QED BY <2>1, <2>6, <2>9, <3>2
  <2> QED BY <2>3, <2>7, <2>8, <2>9 DEF BootMoves
<1> QED BY <1>1, <1>2, <1>3, <1>4, <1>5, StepKinds

-----------------------------------------------------------------------------
(* Disconnecting *)

OffMoves(h) ==
  /\ off' => \/ off
             \/ /\ cur = Nobody /\ mem.conn = "manual" /\ ~unsure /\ Writing = {}
                /\ \A g \in Handlers \ {h} : handler[g] = Idle
                /\ UNCHANGED <<mem, file, write, cur, phase>> /\ handler'[h] = Idle
  /\ cur' = cur \/ cur' = Nobody \/ handler[h].pc \in {"connect", "failed"}
  /\ handler'[h].op = "boot" /\ handler[h].pc \in {"loaded", "check"} =>
       handler'[h].pc \in {"loaded", "check"} \/ mem.conn = "on" \/ Up(cur)

LEMMA StepsOff ==
  ASSUME Shaped, NEW h \in Handlers, HandlerStep(h)
  PROVE  OffMoves(h)
<1> USE DEF Shaped, At, Arrives, Enter, Goto, End, Idle, Fits, RunPc, OffMoves, answered
<1>1. CASE Connect(h)
  <2>1. CASE ConnectBegin(h)
    BY <2>1 DEF ConnectBegin
  <2>2. CASE ConnectEnd(h)
    BY <2>2 DEF ConnectEnd
  <2>3. CASE ConnectFailed(h)
    BY <2>3 DEF ConnectFailed
  <2>4. CASE ConnectReturns(h)
    BY <2>4 DEF ConnectReturns
  <2> QED BY <1>1, <2>1, <2>2, <2>3, <2>4 DEF Connect
<1>2. CASE StartRequest(h) \/ StartConnect(h) \/ Add(h)
  BY <1>2 DEF StartRequest, StartConnect, Add
<1>3. CASE Run(h)
  BY <1>3 DEF Run, RunBegin, RunInitialize, RunRegister, Ran
<1>4. CASE AnyStop(h)
  <2>1. ASSUME NEW s \in 1 .. ids, StopRequest(h, s) PROVE OffMoves(h)
    BY <2>1 DEF StopRequest, Stopping
  <2>2. CASE Cleanup(h) \/ StopAnswer(h)
    BY <2>2 DEF Cleanup, StopAnswer
  <2> QED BY <1>4, <2>1, <2>2 DEF AnyStop
<1>5. CASE DisconnectService(h)
  <2>1. CASE DisconnectRequest(h)
    BY <2>1 DEF DisconnectRequest
  <2>2. CASE DisconnectStop(h)
    BY <2>2 DEF DisconnectStop, Stopping
  <2>3. CASE DisconnectClient(h)
    BY <2>3 DEF DisconnectClient
  <2>4. CASE DisconnectAnswer(h)
    BY <2>4 DEF DisconnectAnswer, memVars
  <2> QED BY <1>5, <2>1, <2>2, <2>3, <2>4 DEF DisconnectService
<1>6. CASE TickService(h)
  <2>1. ASSUME NEW s \in 1 .. ids, Tick(h, s) PROVE OffMoves(h)
    BY <2>1 DEF Tick
  <2>2. CASE TickMetrics(h)
    BY <2>2 DEF TickMetrics
  <2> QED BY <1>6, <2>1, <2>2 DEF TickService
<1>7. CASE Close(h)
  <2>1. CASE CloseRequest(h)
    BY <2>1 DEF CloseRequest
  <2>2. CASE CloseTrade(h)
    <3>1. /\ UNCHANGED <<off, cur>> /\ handler[h].pc = "trade"
          /\ End(h) \/ handler' = [handler EXCEPT ![h].pc = "emit", ![h].c = trade]
      BY <2>2 DEF CloseTrade
    <3> QED BY <3>1
  <2>3. CASE CloseResume(h)
    <3>1. UNCHANGED <<off, cur>> /\ handler[h].pc = "emit" /\ End(h)
      BY <2>3 DEF CloseResume
    <3> QED BY <3>1
  <2> QED BY <1>7, <2>1, <2>2, <2>3 DEF Close
<1>8. CASE Booting(h)
  <2>1. CASE BootConnect(h)
    BY <2>1 DEF BootConnect
  <2>2. CASE BootCheck(h)
    BY <2>2 DEF BootCheck
  <2>3. CASE BootResume(h)
    <3> DEFINE next == {t \in DOMAIN mem.list : t > handler[h].s /\ mem.list[t].status = "active"}
    <3>1. /\ UNCHANGED <<off, cur>> /\ handler[h].pc = "ran"
          /\ End(h) \/ (\E s \in First(next) : Enter(h, "boot", "run", s))
      BY <2>3 DEF BootResume
    <3> HIDE DEF next
    <3> QED BY <3>1
  <2> QED BY <1>8, <2>1, <2>2, <2>3 DEF Booting
<1> QED BY <1>1, <1>2, <1>3, <1>4, <1>5, <1>6, <1>7, <1>8 DEF HandlerStep, Start

LEMMA StaysOffKept ==
  ASSUME Shaped, FileFollows, StaysOff, [ServiceNext]_serviceVars
  PROVE  StaysOff'
<1>0. Fresh.conn = "none" /\ Torn.conn = "torn"
  BY DEF Fresh, Torn
<1>1. CASE Lost
  BY <1>0, <1>1 DEF Lost, Idle, NoWrite, answered, StaysOff
<1>2. CASE Elsewhere
  BY <1>2 DEF Elsewhere, memVars, answered, StaysOff
<1>3. ASSUME NEW h \in Handlers, Restart(h) PROVE StaysOff'
  <2>0. PICK m \in Found : Save(h, m)
    BY <1>3, RestartSaves
  <2>2. IsState(m) /\ m.conn \in {"none", file.conn}
    BY FoundKeeps DEF Shaped
  <2>1. mem' = m /\ file' = file /\ UNCHANGED <<cur, off>>
        /\ \A g \in Handlers : write'[g].data \in {write[g].data, m}
    BY <1>3, <2>0, <2>2, RestartSaves, SaveData DEF answered
  <2>3. \A g \in Handlers : handler'[g] = handler[g] \/ (handler'[g].op = "boot" /\ handler'[g].pc = "loaded")
    BY <1>3, RestartSaves DEF Shaped
  <2> QED BY <2>1, <2>2, <2>3 DEF StaysOff
<1>4. ASSUME NEW h \in Handlers, WriteStep(h) PROVE StaysOff'
  BY <1>0, <1>4, WritesEnd DEF answered, StaysOff
<1>5. ASSUME NEW h \in Handlers, HandlerStep(h) PROVE StaysOff'
  <2>1. Moves(h) /\ OffMoves(h) /\ Writes(h)
    BY <1>5, HandlerMoves, StepsOff, HandlerWrites
  <2>2. CASE off /\ off'
    <3>1. handler[h].op # "start" /\ (handler[h].op = "boot" => handler[h].pc \in {"loaded", "check"})
      BY <2>2 DEF StaysOff
    <3>2. handler[h].pc \notin {"connect", "connecting", "failed"}
      BY <3>1 DEF Shaped, Fits, RunPc
    <3>3. cur' = Nobody
      BY <2>1, <2>2, <3>2 DEF OffMoves, StaysOff
    <3>4. /\ mem'.conn # "on" /\ file' = file
          /\ \A g \in Handlers : write'[g].data.conn # "on"
      <4>1. CASE UNCHANGED memVars
        BY <2>2, <4>1 DEF memVars, StaysOff
      <4>2. ASSUME NEW m, Save(h, m), m.conn \in {mem.conn, "manual", "off"} PROVE <3>4
        BY <2>2, <4>2, SaveData DEF StaysOff
      <4> QED BY <2>1, <3>2, <4>1, <4>2 DEF Writes, Connecting
    <3>5. handler'[h].op # "start" /\ (handler'[h].op = "boot" => handler'[h].pc \in {"loaded", "check"})
      BY <1>5, <2>1, <2>2, <3>1, OpMoves DEF OffMoves, StaysOff, Up
    <3> QED BY <2>1, <2>2, <3>3, <3>4, <3>5 DEF StaysOff, Moves
  <2>3. CASE ~off /\ off'
    <3>1. /\ cur' = Nobody /\ mem'.conn = "manual" /\ file' = mem' /\ write' = write
          /\ \A g \in Handlers : write[g] = NoWrite
      BY <2>1, <2>3 DEF OffMoves, FileFollows, Writes, Writing, Shaped
    <3>2. \A g \in Handlers : handler'[g] = Idle
      BY <2>1, <2>3 DEF OffMoves, Moves
    <3>3. NoWrite.data = Fresh /\ Idle.op = "none"
      BY DEF NoWrite, Idle
    <3> QED BY <1>0, <3>1, <3>2, <3>3 DEF StaysOff
  <2> QED BY <2>2, <2>3 DEF StaysOff
<1> QED BY <1>1, <1>2, <1>3, <1>4, <1>5, StepKinds

-----------------------------------------------------------------------------
(* Together *)

LEMMA ServiceStarts == ServiceInit => ServiceInv
<1> SUFFICES ASSUME ServiceInit PROVE ServiceInv
  OBVIOUS
<1>1. Shaped
  BY FreshIsState DEF ServiceInit, Shaped, NoWrite, Idle, Fits
<1>2. FileFollows /\ BootsAlone /\ ResumedRun /\ StaysOff /\ RunsOnce /\ StoppedAreOut
  BY DEF ServiceInit, FileFollows, Writing, NoWrite, BootsAlone, Idle, ResumedRun, StaysOff, RunsOnce,
     StoppedAreOut, RunPc
<1> QED BY <1>1, <1>2 DEF ServiceInv

LEMMA ServiceSteps == ServiceInv /\ [ServiceNext]_serviceVars => ServiceInv'
BY ShapedKept, FileKept, BootsAloneKept, ResumedRunKept, StaysOffKept, RunsOnceKept, StoppedAreOutKept
   DEF ServiceInv

THEOREM ServiceInvariant == ServiceSpec => []ServiceInv
BY ServiceStarts, ServiceSteps, PTL DEF ServiceSpec

(* When no write is under way and the last save neither overlapped another *)
(* one nor failed, backend-state.json holds exactly what is in memory.     *)
THEOREM FileIsCurrent == ServiceSpec => []QuietFileCurrent
<1>1. ServiceInv => QuietFileCurrent
  BY DEF ServiceInv, FileFollows, QuietFileCurrent
<1> QED BY <1>1, ServiceInvariant, PTL

(* After a manual disconnect that was answered and saved no client comes   *)
(* back, whatever restarts, crashes, failing reads and writes of the file  *)
(* and changes of the network follow.                                      *)
THEOREM DisconnectLasts == ServiceSpec => []ManualDisconnectLasts
<1>1. ServiceInv => ManualDisconnectLasts
  BY DEF ServiceInv, StaysOff, ManualDisconnectLasts
<1> QED BY <1>1, ServiceInvariant, PTL

(* Only the clean-up of a manual close brings a strategy back that was     *)
(* started and fully stopped, the stop answered and saved.                 *)
THEOREM ReturnsOnlyByClose == ServiceSpec => []StoppedReturnsByClose
<1>1. ServiceInv => StoppedReturnsByClose
  BY DEF ServiceInv, StoppedAreOut, Out, StoppedReturnsByClose
<1> QED BY <1>1, ServiceInvariant, PTL

(* Once the server listens after resuming, every active strategy has an    *)
(* executor.                                                               *)
THEOREM ResumesAll == ServiceSpec => ResumesAllActive
<1>1. ASSUME ServiceInv, [ServiceNext]_serviceVars, phase = "boot", phase' = "listen",
             NEW g \in Handlers, handler[g].pc = "ran"
      PROVE  Active(mem) \subseteq DOMAIN exec
  <2>1. PICK h \in Handlers : HandlerStep(h)
    BY <1>1, StepKinds, RestartSaves, WritesEnd DEF Lost, Elsewhere, ServiceInv
  <2>2. g = h /\ handler[h].op = "boot"
    BY <1>1, <2>1, BootSteps DEF ServiceInv, Shaped, Fits
  <2>3. BootResume(h) /\ phase' = "listen"
    BY <1>1, <2>1, <2>2, OnlyBootEnds DEF ServiceInv
  <2>4. \A s \in Active(mem) : s <= handler[h].s
    <3> DEFINE next == {t \in DOMAIN mem.list : t > handler[h].s /\ mem.list[t].status = "active"}
    <3>1. next = {}
      BY <1>1, <2>3 DEF BootResume
    <3>2. handler[h].s \in Nat
      BY <1>1, <2>2 DEF ServiceInv, Shaped, Fits
    <3>3. Active(mem) \subseteq Nat
      BY <1>1 DEF ServiceInv, Shaped, IsState, Active
    <3> QED BY <3>1, <3>2, <3>3 DEF Active
  <2>5. ASSUME NEW s \in Active(mem) PROVE s < handler[h].s \/ s = handler[h].s
    <3>1. handler[h].s \in Nat /\ s \in Nat
      BY <1>1, <2>2 DEF ServiceInv, Shaped, Fits, IsState, Active
    <3> QED BY <2>4, <3>1
  <2> QED BY <1>1, <2>2, <2>5 DEF ServiceInv, ResumedRun
<1>2. ServiceInv /\ [ServiceNext]_serviceVars =>
        [phase = "boot" /\ phase' = "listen" /\ (\E h \in Handlers : handler[h].pc = "ran")
           => Active(mem) \subseteq DOMAIN exec]_serviceVars
  BY <1>1
<1> QED BY <1>2, ServiceInvariant, PTL DEF ServiceSpec, ResumesAllActive

===============================================================================
