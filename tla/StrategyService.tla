---------------------------- MODULE StrategyService ----------------------------
(***************************************************************************)
(* The single-user strategy service (strategy-service.ts) over its state   *)
(* file (state-manager.ts): connect, disconnect, start, stop, kill switch, *)
(* manual close, ticker callbacks, shutdown, crash and restart.  Handlers  *)
(* are concurrent and interleave at their awaits; each mutates the shared  *)
(* state in memory and awaits a writeFile of all of it.                    *)
(*                                                                         *)
(* What an executor does with a trade is in RazorExecutor; here it only    *)
(* opens and closes the one position of the account.  Instruments are not  *)
(* told apart.                                                             *)
(***************************************************************************)
EXTENDS Naturals, Sequences, FiniteSets, Functions

CONSTANTS
  Nobody,      (* null                                                     *)
  Handlers,    (* HTTP requests and ticker callbacks in flight             *)
  Kinds,       (* "razor" runs on ticker events, "timed" on an interval    *)
  MaxStrategies, MaxClients, (* bounds on strategies and client objects    *)
  MaxRequests, MaxFaults,    (* bounds on requests, on crashes and link changes *)
  MaxFailures (* bound on reads and writes of the state file that fail     *)

ASSUME ServiceAssumption ==
  /\ Nobody \notin Nat
  /\ Kinds \subseteq {"razor", "timed"}
  /\ {MaxStrategies, MaxClients, MaxRequests, MaxFaults, MaxFailures} \subseteq Nat

VARIABLES
  phase,   (* of the process: "down", "boot", ..., "listen"                *)
  mem,     (* StateManager.state                                           *)
  file,    (* backend-state.json, or Torn                                   *)
  write,   (* handler -> the writeFile it awaits                           *)
  client,  (* client objects: [mock, up]                                   *)
  cur,     (* StrategyService.client                                       *)
  exec,    (* strategyExecutors: strategy -> the client of its executor    *)
  trading, (* executors whose status is position_open                      *)
  timers,  (* runningStrategies                                            *)
  ticker,  (* client -> strategy its ticker callback belongs to            *)
  olm,     (* the client of the OrderLifecycleManager singleton            *)
  position,(* the account holds a position (at the exchange)               *)
  trade,   (* the strategy name of the open trade record, or Nobody        *)
  handler, (* handler -> the operation it runs, where, on what             *)
  ids, kind, requests, faults, failures,
  unsure,  (* history: the last save overlapped another one, or failed     *)
  started, stopped, off, (* history: starts, full stops and disconnects that were answered *)
  revived  (* history: strategies that a manual close has set active       *)

memVars == <<mem, file, write, unsure>>
runVars == <<exec, trading, timers, ticker>>
tradeVars == <<position, trade>>
bounds == <<ids, kind, requests, faults, failures>>
answered == <<started, stopped, off, revived>>
serviceVars == <<phase, memVars, client, cur, olm, runVars, tradeVars, handler, bounds, answered>>

Conn == {"none", "on", "off", "manual"}
Strategy == [status: {"active", "stopped", "error"}, analysis: BOOLEAN, metrics: BOOLEAN]
Fresh == [conn |-> "none", list |-> <<>>]
Torn == [conn |-> "torn", list |-> <<>>] (* does not parse *)
Active(m) == {s \in DOMAIN m.list : m.list[s].status = "active"}
NoWrite == [data |-> Fresh, step |-> "none", mixed |-> FALSE]
Idle == [op |-> "none", pc |-> "idle", s |-> Nobody, c |-> Nobody]

Writing == {h \in Handlers : write[h].step # "none"}
Up(c) == c # Nobody /\ client[c].up

ServiceInit ==
  /\ phase = "down"
  /\ mem = Fresh /\ file = Fresh /\ write = [h \in Handlers |-> NoWrite] /\ unsure = FALSE
  /\ client = <<>> /\ cur = Nobody
  /\ exec = <<>> /\ trading = {} /\ timers = {} /\ ticker = <<>> /\ olm = Nobody
  /\ position = FALSE /\ trade = Nobody
  /\ handler = [h \in Handlers |-> Idle]
  /\ ids = 0 /\ kind = <<>> /\ requests = 0 /\ faults = 0 /\ failures = 0
  /\ started = {} /\ stopped = {} /\ off = FALSE /\ revived = {}

-----------------------------------------------------------------------------
(* The state manager *)

(* Mutant: the memory changes and nothing is saved. *)
SaveNothing(h, m) == mem' = m /\ UNCHANGED <<file, write, unsure>>

(* Every setter of the state manager: change the memory, then save(), which *)
(* takes its snapshot at once.                                              *)
Save(h, m) ==
  /\ mem' = m
  /\ write' = [write EXCEPT ![h] = [data |-> m, step |-> "queued", mixed |-> FALSE]]
  /\ unsure' = (Writing # {})
  /\ UNCHANGED file

(* writeFile opens the file, which empties it, and then writes. *)
WriteOpen(h) ==
  /\ write[h].step = "queued"
  /\ write' = [write EXCEPT ![h].step = "opened"]
  /\ file' = Torn
  /\ UNCHANGED <<phase, mem, unsure, client, cur, olm, runVars, tradeVars, handler, bounds, answered>>

(* A write over one that ended after this one had opened the file leaves   *)
(* the tail of a longer one.                                               *)
Closed(h) == [g \in Handlers |->
  IF g = h THEN NoWrite
  ELSE IF write[g].step = "opened" THEN [write[g] EXCEPT !.mixed = TRUE]
  ELSE write[g]]

WriteDone(h) ==
  /\ write[h].step = "opened"
  /\ file' \in IF write[h].mixed THEN {write[h].data, Torn} ELSE {write[h].data}
  /\ write' = Closed(h)
  /\ UNCHANGED <<phase, mem, unsure, client, cur, olm, runVars, tradeVars, handler, bounds, answered>>

(* save() logs an error and returns: the handler goes on as after a write  *)
(* that succeeded.  Either the open failed and the file is as it was, or   *)
(* the write did, after the open had emptied it.                           *)
WriteFail(h) ==
  /\ failures < MaxFailures /\ failures' = failures + 1
  /\ \/ /\ write[h].step = "queued"
        /\ write' = [write EXCEPT ![h] = NoWrite] /\ UNCHANGED file
     \/ /\ write[h].step = "opened"
        /\ write' = Closed(h) /\ file' \in {file, Torn}
  /\ unsure' = TRUE
  /\ UNCHANGED <<phase, mem, client, cur, olm, runVars, tradeVars, handler,
                 ids, kind, requests, faults, answered>>

SetConn(c) == [mem EXCEPT !.conn = c]
SetStrategy(s, r) == [mem EXCEPT !.list = [t \in DOMAIN @ \cup {s} |-> IF t = s THEN r ELSE @[t]]]
SetStatus(s, st) == IF s \in DOMAIN mem.list THEN [mem EXCEPT !.list[s].status = st] ELSE mem

(* cleanupStoppedStrategies keeps the active ones and the stopped ones with *)
(* a sign of a position.                                                    *)
Kept(r) == r.status = "active" \/ (r.status = "stopped" /\ (r.analysis \/ r.metrics))
Cleaned == [mem EXCEPT !.list = Restrict(@, {s \in DOMAIN @ : Kept(@[s])})]

-----------------------------------------------------------------------------
(* Handlers *)

At(h, pc) == phase \in {"boot", "listen"} /\ write[h].step = "none" /\ handler[h].pc = pc
Enter(h, op, pc, s) == handler' = [handler EXCEPT ![h] = [op |-> op, pc |-> pc, s |-> s, c |-> Nobody]]
Goto(h, pc) == handler' = [handler EXCEPT ![h].pc = pc]
End(h) == handler' = [handler EXCEPT ![h] = Idle]

(* The server listens and takes a request. *)
Arrives(h) ==
  /\ phase = "listen" /\ At(h, "idle")
  /\ requests < MaxRequests
  /\ requests' = requests + 1
  /\ UNCHANGED <<phase, ids, kind, faults, failures>>

Put(f, x, v) == [y \in DOMAIN f \cup {x} |-> IF y = x THEN v ELSE f[y]]

(* connect(): a new client object replaces the old one before it is        *)
(* connected.  Without credentials nothing is replaced.                    *)
ConnectBegin(h) ==
  /\ At(h, "connect")
  /\ \/ /\ Len(client) < MaxClients
        /\ client' = Append(client, [mock |-> FALSE, up |-> FALSE])
        /\ cur' = Len(client')
        /\ handler' = [handler EXCEPT ![h].pc = "connecting", ![h].c = Len(client')]
     \/ Goto(h, "failed") /\ UNCHANGED <<client, cur>>
  /\ UNCHANGED <<phase, memVars, olm, runVars, tradeVars, bounds, answered>>

(* After the await, this.client is read again. *)
ConnectEnd(h) ==
  /\ At(h, "connecting")
  /\ \E ok \in BOOLEAN :
       /\ client' = [client EXCEPT ![handler[h].c].up = @ \/ ok]
       /\ IF ok /\ cur # Nobody /\ client'[cur].up
            THEN /\ olm' = IF olm = Nobody THEN cur ELSE olm
                 /\ Save(h, SetConn("on"))
                 /\ Goto(h, "connected")
            ELSE Goto(h, "failed") /\ UNCHANGED <<memVars, olm>>
  /\ UNCHANGED <<phase, cur, runVars, tradeVars, bounds, answered>>

(* startStrategy goes on with a mock client, initialize() records that     *)
(* there is no connection, the connect request is answered with the error. *)
ConnectFailed(h) ==
  /\ At(h, "failed")
  /\ CASE handler[h].op = "start" ->
            /\ Len(client) < MaxClients
            /\ client' = Append(client, [mock |-> TRUE, up |-> TRUE])
            /\ cur' = Len(client')
            /\ olm' = IF olm = Nobody THEN Len(client') ELSE olm
            /\ Goto(h, "add") /\ UNCHANGED memVars
       [] handler[h].op = "boot" ->
            /\ Save(h, SetConn("off")) /\ Goto(h, "check") /\ UNCHANGED <<client, cur, olm>>
       [] OTHER -> End(h) /\ UNCHANGED <<memVars, client, cur, olm>>
  /\ UNCHANGED <<phase, runVars, tradeVars, bounds, answered>>

ConnectReturns(h) ==
  /\ At(h, "connected")
  /\ CASE handler[h].op = "start" -> Goto(h, "add")
       [] handler[h].op = "boot" -> Goto(h, "check")
       [] OTHER -> End(h)
  /\ UNCHANGED <<phase, memVars, client, cur, olm, runVars, tradeVars, bounds, answered>>

-----------------------------------------------------------------------------
(* startStrategy and runStrategy *)

(* The check for an active strategy, then the save of the disclaimer. *)
StartRequest(h) ==
  /\ Arrives(h)
  /\ off' = FALSE
  /\ IF Active(mem) # {}
       THEN UNCHANGED <<memVars, handler>>
       ELSE Save(h, mem) /\ Enter(h, "start", "disclaimer", Nobody)
  /\ UNCHANGED <<client, cur, olm, runVars, tradeVars, started, stopped, revived>>

StartConnect(h) ==
  /\ At(h, "disclaimer")
  /\ Goto(h, IF Up(cur) THEN "add" ELSE "connect")
  /\ UNCHANGED <<phase, memVars, client, cur, olm, runVars, tradeVars, bounds, answered>>

Add(h) ==
  /\ At(h, "add")
  /\ ids < MaxStrategies
  /\ ids' = ids + 1
  /\ \E k \in Kinds : kind' = Append(kind, k)
  /\ Save(h, SetStrategy(ids', [status |-> "active", analysis |-> FALSE, metrics |-> FALSE]))
  /\ Enter(h, "start", "run", ids')
  /\ UNCHANGED <<phase, client, cur, olm, runVars, tradeVars, requests, faults, failures, answered>>

(* The executor gets this.client, and its initialize() is awaited. *)
RunBegin(h) ==
  /\ At(h, "run")
  /\ IF Up(cur)
       THEN handler' = [handler EXCEPT ![h].pc = "initialize", ![h].c = cur] /\ UNCHANGED memVars
       ELSE Save(h, SetStatus(handler[h].s, "error")) /\ Goto(h, "ran")
  /\ UNCHANGED <<phase, client, cur, olm, runVars, tradeVars, bounds, answered>>

(* Whether the executor sees the position: a mock account is empty. *)
Sees(c) == position /\ ~client[c].mock

(* initialize() adopts the open trade of its strategy name, or closes its  *)
(* record when there is no position; then the analysis is saved.           *)
RunInitialize(h) ==
  LET s == handler[h].s  c == handler[h].c IN
  /\ At(h, "initialize")
  /\ IF trade = kind[s]
       THEN /\ trading' = IF Sees(c) THEN trading \cup {s} ELSE trading
            /\ trade' = IF Sees(c) THEN trade ELSE Nobody
       ELSE UNCHANGED <<trading, trade>>
  /\ IF s \in DOMAIN mem.list
       THEN Save(h, [mem EXCEPT !.list[s].analysis = s \in trading'])
       ELSE UNCHANGED memVars
  /\ Goto(h, "register")
  /\ UNCHANGED <<phase, client, cur, olm, exec, timers, ticker, position, bounds, answered>>

(* Registered, then subscribed on what this.client is now, or driven by an *)
(* interval.  A failed subscription throws: resuming marks the strategy,   *)
(* a start request only answers with the error.                            *)
RunRegister(h) ==
  LET s == handler[h].s IN
  /\ At(h, "register")
  /\ exec' = Put(exec, s, handler[h].c)
  /\ IF kind[s] = "timed"
       THEN timers' = timers \cup {s} /\ Goto(h, "ran") /\ UNCHANGED <<memVars, ticker>>
       ELSE \/ /\ Up(cur) /\ ticker' = Put(ticker, cur, s)
               /\ Goto(h, "ran") /\ UNCHANGED <<memVars, timers>>
            \/ /\ ~(Up(cur) /\ client[cur].mock)
               /\ IF handler[h].op = "boot"
                    THEN Save(h, SetStatus(s, "error")) /\ Goto(h, "ran")
                    ELSE End(h) /\ UNCHANGED memVars
               /\ UNCHANGED <<ticker, timers>>
  /\ UNCHANGED <<phase, client, cur, olm, trading, tradeVars, bounds, answered>>

Ran(h) ==
  /\ At(h, "ran") /\ handler[h].op = "start"
  /\ started' = started \cup {handler[h].s}
  /\ End(h)
  /\ UNCHANGED <<phase, memVars, client, cur, olm, runVars, tradeVars, bounds, stopped, off, revived>>

-----------------------------------------------------------------------------
(* stopStrategy, disconnect, killSwitch *)

(* What a stop of s does up to its first await.  A strategy that shows a   *)
(* position is only paused: its executor and its ticker go on.             *)
Shows(s) == s \in DOMAIN mem.list /\ (mem.list[s].analysis \/ mem.list[s].metrics)

(* Mutant: the state still calls the strategy active. *)
StopKeepsStatus(h, s) ==
  /\ timers' = timers \ {s}
  /\ exec' = IF Shows(s) THEN exec ELSE Restrict(exec, DOMAIN exec \ {s})
  /\ Save(h, mem)

Stop(h, s) ==
  /\ timers' = timers \ {s}
  /\ exec' = IF Shows(s) THEN exec ELSE Restrict(exec, DOMAIN exec \ {s})
  /\ IF s \in DOMAIN mem.list THEN Save(h, SetStatus(s, "stopped")) ELSE UNCHANGED memVars

(* c tells a stop that came after the answer to the start of s. *)
Stopping(h, op, s) ==
  handler' = [handler EXCEPT ![h] =
    [op |-> op, pc |-> IF Shows(s) THEN "paused" ELSE "cleanup", s |-> s,
     c |-> IF s \in started THEN s ELSE Nobody]]

StopRequest(h, s) ==
  /\ Arrives(h)
  /\ Stop(h, s)
  /\ Stopping(h, "stop", s)
  /\ UNCHANGED <<client, cur, olm, trading, ticker, tradeVars, answered>>

(* cleanupStoppedStrategies saves only when it removed something. *)
Cleanup(h) ==
  /\ At(h, "cleanup")
  /\ IF Cleaned = mem THEN UNCHANGED memVars ELSE Save(h, Cleaned)
  /\ Goto(h, "stopped")
  /\ UNCHANGED <<phase, client, cur, olm, runVars, tradeVars, bounds, answered>>

(* The answer; a disconnect goes on with the next interval. *)
StopAnswer(h) ==
  /\ At(h, "stopped") \/ At(h, "paused")
  /\ stopped' = IF At(h, "stopped") /\ ~unsure /\ Writing = {} THEN stopped \cup ({handler[h].c} \ {Nobody}) ELSE stopped
  /\ IF handler[h].op = "stop" THEN End(h) ELSE Goto(h, "stopall")
  /\ UNCHANGED <<phase, memVars, client, cur, olm, runVars, tradeVars, bounds, started, off, revived>>

DisconnectRequest(h) ==
  /\ Arrives(h)
  /\ \E op \in {"disconnect", "kill"} : Enter(h, op, "stopall", Nobody)
  /\ UNCHANGED <<memVars, client, cur, olm, runVars, tradeVars, answered>>

(* Every strategy with an interval is stopped; those on ticker events have *)
(* none.                                                                   *)
DisconnectStop(h) ==
  /\ At(h, "stopall")
  /\ \E s \in timers :
       /\ \A r \in timers : s <= r
       /\ Stop(h, s)
       /\ Stopping(h, handler[h].op, s)
  /\ UNCHANGED <<phase, client, cur, olm, trading, ticker, tradeVars, bounds, answered>>

DisconnectClient(h) ==
  /\ At(h, "stopall") /\ timers = {}
  /\ client' = IF cur = Nobody THEN client ELSE [client EXCEPT ![cur].up = FALSE]
  /\ cur' = Nobody
  /\ Save(h, SetConn("manual"))
  /\ Goto(h, "offline")
  /\ UNCHANGED <<phase, olm, runVars, tradeVars, bounds, answered>>

DisconnectAnswer(h) ==
  /\ At(h, "offline")
  /\ IF handler[h].op = "kill"
       THEN /\ Save(h, [mem EXCEPT !.list = <<>>])
            /\ handler' = [handler EXCEPT ![h].op = "disconnect"]
            /\ UNCHANGED off
       ELSE /\ off' = (cur = Nobody /\ mem.conn = "manual" /\ ~unsure /\ Writing = {}
                     /\ \A g \in Handlers \ {h} : handler[g] = Idle)
            /\ End(h) /\ UNCHANGED memVars
  /\ UNCHANGED <<phase, client, cur, olm, runVars, tradeVars, bounds, started, stopped, revived>>

-----------------------------------------------------------------------------
(* The market, the connection, the ticker *)

(* Stop, target or liquidation. *)
PositionCloses ==
  /\ position
  /\ position' = FALSE
  /\ UNCHANGED <<phase, memVars, client, cur, olm, runVars, trade, handler, bounds, answered>>

(* A client reconnects by itself, even one that was disconnected or whose  *)
(* first connection failed (DeribitClient), and subscribes again.          *)
LinkChange(c) ==
  /\ phase \in {"boot", "listen"} /\ ~client[c].mock
  /\ faults < MaxFaults /\ faults' = faults + 1
  /\ client' = [client EXCEPT ![c].up = ~@]
  /\ UNCHANGED <<phase, memVars, cur, olm, runVars, tradeVars, handler, ids, kind, requests, failures, answered>>

Ticks(s) ==
  \/ \E c \in DOMAIN ticker : ticker[c] = s /\ client[c].up /\ ~client[c].mock
  \/ s \in timers /\ Up(cur) /\ ~client[cur].mock

(* onTicker: the executor opens a position where it sees none, or notices  *)
(* that its position is gone; then its analysis state is saved.            *)
Tick(h, s) ==
  /\ phase = "listen" /\ At(h, "idle") /\ Ticks(s)
  /\ \/ UNCHANGED <<trading, tradeVars>>
     \/ /\ s \notin trading /\ ~position /\ trade = Nobody
        /\ trading' = trading \cup {s} /\ position' = TRUE /\ trade' = kind[s]
     \/ /\ s \in trading /\ ~position
        /\ trading' = trading \ {s} /\ trade' = Nobody /\ UNCHANGED position
  /\ s \in DOMAIN mem.list
  /\ Save(h, [mem EXCEPT !.list[s].analysis = s \in trading'])
  /\ Enter(h, "tick", "metrics", s)
  /\ UNCHANGED <<phase, client, cur, olm, exec, timers, ticker, bounds, answered>>

(* The metrics of a position are saved, and never cleared by the executor. *)
TickMetrics(h) ==
  LET s == handler[h].s IN
  /\ At(h, "metrics")
  /\ IF kind[s] = "razor" /\ s \in trading /\ position /\ s \in DOMAIN mem.list
       THEN Save(h, [mem EXCEPT !.list[s].metrics = TRUE])
       ELSE UNCHANGED memVars
  /\ End(h)
  /\ UNCHANGED <<phase, client, cur, olm, runVars, tradeVars, bounds, answered>>

-----------------------------------------------------------------------------
(* closePosition *)

CloseRequest(h) ==
  /\ Arrives(h)
  /\ Up(cur)
  /\ position' = (position /\ client[cur].mock)
  /\ Enter(h, "close", "trade", Nobody)
  /\ UNCHANGED <<memVars, client, cur, olm, runVars, trade, answered>>

(* The strategies a trade record may mean: the first with its name. *)
Named(k) == {s \in DOMAIN mem.list : kind[s] = k}
First(S) == {s \in S : \A r \in S : s <= r}

(* cleanupTradeOrders, over the client the singleton was created with: the *)
(* record is closed, and the first strategy of that name is active again.  *)
CloseTrade(h) ==
  /\ At(h, "trade")
  /\ IF trade = Nobody \/ ~Up(olm)
       THEN End(h) /\ UNCHANGED <<memVars, trade, revived>>
       ELSE /\ trade' = Nobody
            /\ revived' = revived \cup First(Named(trade))
            /\ handler' = [handler EXCEPT ![h].pc = "emit", ![h].c = trade]
            /\ IF First(Named(trade)) = {} THEN UNCHANGED memVars
               ELSE Save(h, [mem EXCEPT !.list =
                      [s \in DOMAIN @ |-> IF s \in First(Named(trade))
                         THEN [@[s] EXCEPT !.metrics = FALSE, !.status = "active"] ELSE @[s]]])
  /\ UNCHANGED <<phase, client, cur, olm, runVars, position, bounds, started, stopped, off>>

(* tradeClosed: every executor of that name resumes. *)
CloseResume(h) ==
  LET names == Named(handler[h].c) IN
  /\ At(h, "emit")
  /\ trading' = {s \in trading : kind[s] # handler[h].c \/ kind[s] = "timed"}
  /\ IF names = {} \/ handler[h].c = "timed" THEN UNCHANGED memVars
     ELSE Save(h, [mem EXCEPT !.list =
            [s \in DOMAIN @ |-> IF s \in names THEN [@[s] EXCEPT !.analysis = FALSE] ELSE @[s]]])
  /\ End(h)
  /\ UNCHANGED <<phase, client, cur, olm, exec, timers, ticker, tradeVars, bounds, answered>>

-----------------------------------------------------------------------------
(* Start, shutdown, crash *)

(* StateManager.initialize: only active strategies are kept; when the file *)
(* does not parse, or its read fails for whatever reason, the service      *)
(* starts fresh and saves that over it.                                    *)
Restart(h) ==
  /\ phase = "down"
  /\ phase' = "boot"
  /\ \/ /\ file # Torn
        /\ Save(h, [file EXCEPT !.list = Restrict(@, Active(file))])
        /\ UNCHANGED failures
     \/ /\ file = Torn /\ Save(h, Fresh) /\ UNCHANGED failures
     \/ /\ file # Torn /\ failures < MaxFailures /\ failures' = failures + 1
        /\ Save(h, Fresh)
  /\ Enter(h, "boot", "loaded", Nobody)
  /\ UNCHANGED <<client, cur, olm, runVars, tradeVars, ids, kind, requests, faults, answered>>

(* Mutant: a manual disconnect is not told from a lost connection. *)
BootConnectAlways(h) ==
  /\ At(h, "loaded")
  /\ Goto(h, IF mem.conn \in {"on", "manual"} THEN "connect" ELSE "check")
  /\ UNCHANGED <<phase, memVars, client, cur, olm, runVars, tradeVars, bounds, answered>>

BootConnect(h) ==
  /\ At(h, "loaded")
  /\ Goto(h, IF mem.conn = "on" THEN "connect" ELSE "check")
  /\ UNCHANGED <<phase, memVars, client, cur, olm, runVars, tradeVars, bounds, answered>>

(* reconcileAllOpenTrades, then the strategies that are active are resumed *)
(* one after the other; without a connection the server just listens.      *)
BootCheck(h) ==
  /\ At(h, "check")
  /\ IF Up(cur)
       THEN /\ IF trade # Nobody /\ ~position
                 THEN /\ trade' = Nobody
                      /\ IF First(Named(trade)) = {} THEN UNCHANGED memVars
                         ELSE Save(h, [mem EXCEPT !.list =
                                [s \in DOMAIN @ |-> IF s \in First(Named(trade))
                                   THEN [@[s] EXCEPT !.metrics = FALSE] ELSE @[s]]])
                 ELSE UNCHANGED <<trade, memVars>>
            /\ Enter(h, "boot", "ran", 0)
            /\ UNCHANGED phase
       ELSE End(h) /\ phase' = "listen" /\ UNCHANGED <<trade, memVars>>
  /\ UNCHANGED <<client, cur, olm, runVars, position, bounds, answered>>

(* Mutant: only the first strategy is resumed. *)
BootResumeFirst(h) ==
  /\ At(h, "ran") /\ handler[h].op = "boot"
  /\ IF handler[h].s = 0 /\ Active(mem) # {}
       THEN /\ \E s \in First(Active(mem)) : Enter(h, "boot", "run", s)
            /\ UNCHANGED phase
       ELSE End(h) /\ phase' = "listen"
  /\ UNCHANGED <<memVars, client, cur, olm, runVars, tradeVars, bounds, answered>>

BootResume(h) ==
  LET next == {s \in DOMAIN mem.list : s > handler[h].s /\ mem.list[s].status = "active"} IN
  /\ At(h, "ran") /\ handler[h].op = "boot"
  /\ IF next # {}
       THEN (\E s \in First(next) : Enter(h, "boot", "run", s)) /\ UNCHANGED phase
       ELSE End(h) /\ phase' = "listen"
  /\ UNCHANGED <<memVars, client, cur, olm, runVars, tradeVars, bounds, answered>>

(* The process is gone: everything but the file and the database. *)
Gone ==
  /\ phase' = "down"
  /\ mem' = Fresh /\ write' = [h \in Handlers |-> NoWrite] /\ unsure' = FALSE
  /\ client' = <<>> /\ cur' = Nobody /\ olm' = Nobody
  /\ exec' = <<>> /\ trading' = {} /\ timers' = {} /\ ticker' = <<>>
  /\ handler' = [h \in Handlers |-> Idle]
  /\ UNCHANGED <<file, tradeVars, ids, kind, requests, failures, answered>>

Crash ==
  /\ phase \in {"boot", "listen"}
  /\ faults < MaxFaults /\ faults' = faults + 1
  /\ Gone

(* gracefulShutdown: no requests any more, the executors go, the statuses  *)
(* stay; 100 ms later the process exits, its last writes done.             *)
Shutdown ==
  /\ phase = "listen" /\ \A h \in Handlers : handler[h].op \in {"none", "tick"}
  /\ faults < MaxFaults /\ faults' = faults + 1
  /\ phase' = "closing"
  /\ client' = [c \in DOMAIN client |-> IF c = cur THEN [client[c] EXCEPT !.up = FALSE] ELSE client[c]]
  /\ exec' = <<>> /\ timers' = {}
  /\ UNCHANGED <<memVars, cur, olm, trading, ticker, tradeVars, handler, ids, kind, requests, failures, answered>>

Exit ==
  /\ phase = "closing" /\ Writing = {}
  /\ Gone /\ UNCHANGED faults

Connect(h) == ConnectBegin(h) \/ ConnectEnd(h) \/ ConnectFailed(h) \/ ConnectReturns(h)
Run(h) == RunBegin(h) \/ RunInitialize(h) \/ RunRegister(h) \/ Ran(h)
Start(h) == StartRequest(h) \/ StartConnect(h) \/ Add(h) \/ Run(h)
AnyStop(h) == (\E s \in 1..ids : StopRequest(h, s)) \/ Cleanup(h) \/ StopAnswer(h)
DisconnectService(h) ==
  DisconnectRequest(h) \/ DisconnectStop(h) \/ DisconnectClient(h) \/ DisconnectAnswer(h)
TickService(h) == (\E s \in 1..ids : Tick(h, s)) \/ TickMetrics(h)
Close(h) == CloseRequest(h) \/ CloseTrade(h) \/ CloseResume(h)
Booting(h) == BootConnect(h) \/ BootCheck(h) \/ BootResume(h)

ServiceNext ==
  \/ Crash \/ Shutdown \/ Exit \/ PositionCloses
  \/ \E c \in DOMAIN client : LinkChange(c)
  \/ \E h \in Handlers :
       \/ Restart(h) \/ WriteOpen(h) \/ WriteDone(h) \/ WriteFail(h) \/ Connect(h) \/ Start(h)
       \/ AnyStop(h) \/ DisconnectService(h) \/ TickService(h) \/ Close(h) \/ Booting(h)

ServiceSpec == ServiceInit /\ [][ServiceNext]_serviceVars

-----------------------------------------------------------------------------
ServiceTypeOK ==
  /\ phase \in {"down", "boot", "listen", "closing"}
  /\ mem.conn \in Conn /\ \A s \in DOMAIN mem.list : s \in 1..ids /\ mem.list[s] \in Strategy
  /\ cur \in DOMAIN client \cup {Nobody} /\ olm \in DOMAIN client \cup {Nobody}
  /\ DOMAIN exec \cup trading \cup timers \subseteq 1..ids
  /\ position \in BOOLEAN /\ trade \in Kinds \cup {Nobody}

(* The file follows the memory: when no write is in flight and the last    *)
(* save neither overlapped another one nor failed, the file holds exactly  *)
(* what is in memory, whatever earlier saves, failures and crashes did to  *)
(* it: a swallowed failure lasts until the next save.                      *)
QuietFileCurrent ==
  phase \in {"boot", "listen"} /\ Writing = {} /\ ~unsure => file = mem

(* Resuming is complete: once the server listens after a restart with a    *)
(* connection, every strategy the state calls active has an executor, and  *)
(* those that could not be resumed are marked.                             *)
ResumesAllActive ==
  [][phase = "boot" /\ phase' = "listen" /\ (\E h \in Handlers : handler[h].pc = "ran")
       => Active(mem) \subseteq DOMAIN exec]_serviceVars

(* A manual disconnect that was answered and saved lasts: no client is     *)
(* created until the user starts a strategy, whatever faults, failing      *)
(* saves and restarts come between.  (save() swallows its error: when the  *)
(* save of the disconnect itself fails, the answer is the same and the     *)
(* next restart connects.)                                                 *)
ManualDisconnectLasts == off => cur = Nobody

(* "If NO position -> 'stopped' (won't auto-resume)" (store.ts): a strategy *)
(* whose start and whose full stop were both answered never has an         *)
(* executor again.  It does not hold: its ticker goes on, a tick next to   *)
(* the stop opens a position and keeps it in the state, and the clean-up   *)
(* of the manual close of that position sets it active.                    *)
StoppedNeverReturns == started \cap stopped \cap DOMAIN exec = {}
(* Nothing else brings a strategy back that was started and fully stopped, *)
(* the stop answered and saved: no boot, no late or failing write of the   *)
(* file, no crash or shutdown, no event.  (When the save of the stop       *)
(* itself failed, which the answer does not tell, a restart resumes it.)   *)
StoppedReturnsByClose == started \cap stopped \cap DOMAIN exec \subseteq revived

(* "CRITICAL: Enforce max 1 concurrent strategy." *)
OneActive == Cardinality(Active(mem)) <= 1

(* "Don't stop if there's an open position": a strategy is paused instead  *)
(* of stopped only while the account holds a position or its executor      *)
(* still has to notice that it is gone.                                    *)
PausedHoldsPosition ==
  [][\A h \in Handlers : handler[h].pc = "idle" /\ handler'[h].pc = "paused"
         => position \/ handler'[h].s \in trading]_serviceVars

=============================================================================
