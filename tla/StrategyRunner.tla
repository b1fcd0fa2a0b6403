---------------------------- MODULE StrategyRunner -----------------------------
(***************************************************************************)
(* One strategy runner (strategy-runner/*.ts): start with reconciliation,  *)
(* the evaluation tick of every minute, the entry with its bracket, and    *)
(* the five-second monitor that notices that the position is gone.         *)
(*                                                                         *)
(* The broker (external, IBroker) executes a market entry at once with a   *)
(* stop and a target of which one cancels the other, and lists open orders *)
(* only.  The state store never has anything to load: Spark's key-value    *)
(* store does not exist under Node, and a new worker has a new key.        *)
(***************************************************************************)
EXTENDS Naturals, FiniteSets

CONSTANTS
  EvalTicks,  (* evaluation ticks that may be in flight                    *)
  StartCalls, (* start requests that may be in flight                      *)
  MaxEntries, MaxStops (* bounds on entries, on stops and restarts         *)

ASSUME RunnerAssumption == {MaxEntries, MaxStops} \subseteq Nat

VARIABLES
  running,   (* isRunning                                                  *)
  loops,     (* intervals that call tick()                                 *)
  ownLoop,   (* runInterval refers to one of them                          *)
  held,      (* StateStore.state.position: an entry, or 0                  *)
  evalTick,  (* tick -> where it is                                        *)
  starting,  (* start request -> where it is                               *)
  monitors,  (* entries with a monitor interval                            *)
  looks,     (* entry -> answers of its monitor's getOpenOrders, to come   *)
  entries,   (* entry orders executed so far                               *)
  live,      (* entries whose position is open at the exchange             *)
  bracket,   (* stops and targets that rest there                          *)
  stops,
  crowded    (* history: ticks, starts or looks overlapped, or an answer was lost *)
runnerVars == <<running, loops, ownLoop, held, evalTick, starting, monitors, looks,
                entries, live, bracket, stops, crowded>>
loopVars == <<running, loops, ownLoop, starting>>
exchangeVars == <<entries, live, bracket>>
watchVars == <<monitors, looks>>

Legs(e) == {e} \X {"stop", "target"}
TickFree == [pc |-> "idle", e |-> 0]
Busy == {t \in EvalTicks : evalTick[t] # TickFree}
Starting == {s \in StartCalls : starting[s] # "idle"}

RunnerInit ==
  /\ running = FALSE /\ loops = 0 /\ ownLoop = FALSE /\ held = 0
  /\ evalTick = [t \in EvalTicks |-> TickFree] /\ starting = [s \in StartCalls |-> "idle"]
  /\ monitors = {} /\ looks = [e \in 1..MaxEntries |-> {}]
  /\ entries = 0 /\ live = {} /\ bracket = {} /\ stops = 0 /\ crowded = FALSE

-----------------------------------------------------------------------------
(* start, with setBroker and loadStrategy before it: isRunning is checked  *)
(* first and set last, after the balance and the reconciliation.           *)
StartRequested(s) ==
  /\ starting[s] = "idle" /\ ~running
  /\ starting' = [starting EXCEPT ![s] = "balance"]
  /\ crowded' = (crowded \/ Starting # {} \/ Busy # {})
  /\ UNCHANGED <<running, loops, ownLoop, held, evalTick, watchVars, exchangeVars, stops>>

StartRefused(s) ==
  /\ starting[s] = "balance"
  /\ starting' = [starting EXCEPT ![s] = "idle"]
  /\ UNCHANGED <<running, loops, ownLoop, held, evalTick, watchVars, exchangeVars, stops, crowded>>

(* performReconciliation: the entry is never among the open orders and no  *)
(* bracket order has an id of ours, so that a saved position is dropped    *)
(* and the bracket of a position only leads to an alert.  A failed         *)
(* getOpenOrders is swallowed and ends the same way.                       *)
StartReconcile(s) ==
  /\ starting[s] = "balance"
  /\ starting' = [starting EXCEPT ![s] = "reconciled"] /\ held' = 0
  /\ UNCHANGED <<running, loops, ownLoop, evalTick, watchVars, exchangeVars, stops, crowded>>

(* executeActions is over: isRunning, then runLoop. *)
StartDone(s) ==
  /\ starting[s] = "reconciled"
  /\ starting' = [starting EXCEPT ![s] = "idle"]
  /\ running' = TRUE /\ loops' = loops + 1 /\ ownLoop' = TRUE
  /\ UNCHANGED <<held, evalTick, watchVars, exchangeVars, stops, crowded>>

StopRunning ==
  /\ running /\ stops < MaxStops
  /\ running' = FALSE /\ ownLoop' = FALSE /\ loops' = IF ownLoop THEN loops - 1 ELSE loops
  /\ stops' = stops + 1
  /\ UNCHANGED <<held, evalTick, starting, watchVars, exchangeVars, crowded>>

(* The process ends and a new worker is spawned: a fresh runner. *)
RunnerRestarts ==
  /\ stops < MaxStops /\ stops' = stops + 1
  /\ running' = FALSE /\ loops' = 0 /\ ownLoop' = FALSE /\ held' = 0
  /\ evalTick' = [t \in EvalTicks |-> TickFree] /\ starting' = [s \in StartCalls |-> "idle"]
  /\ monitors' = {} /\ looks' = [e \in 1..MaxEntries |-> {}]
  /\ UNCHANGED <<exchangeVars, crowded>>

-----------------------------------------------------------------------------
(* tick: skipped while a position is held; the check is not repeated. *)
TickMoves(t, from, to) ==
  /\ evalTick[t].pc = from
  /\ evalTick' = [evalTick EXCEPT ![t] = IF to = "idle" THEN TickFree ELSE [@ EXCEPT !.pc = to]]
  /\ UNCHANGED <<loopVars, watchVars, held, stops>>

TickBegin(t) ==
  /\ loops > 0 /\ held = 0
  /\ TickMoves(t, "idle", "candles") /\ crowded' = (crowded \/ Busy # {})
  /\ UNCHANGED exchangeVars

(* Too few candles, no signal, a risk check that fails, or an error. *)
TickEnds(t) ==
  /\ TickMoves(t, evalTick[t].pc, "idle") /\ evalTick[t].pc \in {"candles", "instrument"}
  /\ UNCHANGED <<exchangeVars, crowded>>
TickSignal(t) == TickMoves(t, "candles", "instrument") /\ UNCHANGED <<exchangeVars, crowded>>

(* placeOrder: the entry is executed, and answered or not; or refused. *)
TickOrder(t, answered) ==
  /\ evalTick[t].pc = "instrument" /\ entries < MaxEntries
  /\ entries' = entries + 1 /\ live' = live \cup {entries'} /\ bracket' = bracket \cup Legs(entries')
  /\ evalTick' = [evalTick EXCEPT ![t] = IF answered THEN [pc |-> "placed", e |-> entries'] ELSE TickFree]
  /\ crowded' = (crowded \/ ~answered)
  /\ UNCHANGED <<loopVars, watchVars, held, stops>>

(* Mutant: the store is not told of the entry.                             *)
TickPlacedUnheld(t) ==
  /\ evalTick[t].pc = "placed"
  /\ monitors' = monitors \cup {evalTick[t].e}
  /\ evalTick' = [evalTick EXCEPT ![t] = TickFree]
  /\ UNCHANGED <<loopVars, held, looks, exchangeVars, stops, crowded>>
TickPlaced(t) ==
  /\ evalTick[t].pc = "placed"
  /\ held' = evalTick[t].e /\ monitors' = monitors \cup {held'}
  /\ evalTick' = [evalTick EXCEPT ![t] = TickFree]
  /\ UNCHANGED <<loopVars, looks, exchangeVars, stops, crowded>>

-----------------------------------------------------------------------------
(* monitorPosition: the interval ends itself when the runner has stopped. *)
MonitorStops(e) ==
  /\ e \in monitors /\ ~running /\ monitors' = monitors \ {e}
  /\ UNCHANGED <<loopVars, held, evalTick, looks, exchangeVars, stops, crowded>>

(* Whether any stop or target of the instrument rests. *)
MonitorLooks(e) ==
  /\ e \in monitors /\ running /\ (bracket # {}) \notin looks[e]
  /\ looks' = [looks EXCEPT ![e] = @ \cup {bracket # {}}]
  /\ crowded' = (crowded \/ looks[e] # {})
  /\ UNCHANGED <<loopVars, held, evalTick, monitors, exchangeVars, stops>>

(* Mutant: only the monitor ends.                                          *)
MonitorForgets(e) == monitors' = monitors \ {e} /\ UNCHANGED held
MonitorClears(e) ==
  /\ monitors' = monitors \ {e} /\ held' = 0
MonitorSees(e) ==
  \E seen \in looks[e] :
    /\ looks' = [looks EXCEPT ![e] = @ \ {seen}]
    /\ IF seen THEN UNCHANGED <<monitors, held>> ELSE MonitorClears(e)
    /\ UNCHANGED <<loopVars, evalTick, exchangeVars, stops, crowded>>

(* The stop or the target fills and cancels the other; or the user cancels *)
(* one of the two.                                                         *)
LegFills(e) ==
  /\ e \in live /\ bracket \cap Legs(e) # {}
  /\ live' = live \ {e} /\ bracket' = bracket \ Legs(e)
  /\ UNCHANGED <<loopVars, held, evalTick, watchVars, entries, stops, crowded>>
LegCancelled(e) ==
  /\ Legs(e) \subseteq bracket
  /\ \E leg \in Legs(e) : bracket' = bracket \ {leg}
  /\ UNCHANGED <<loopVars, held, evalTick, watchVars, entries, live, stops, crowded>>

-----------------------------------------------------------------------------
Evaluate(t) ==
  TickBegin(t) \/ TickEnds(t) \/ TickSignal(t) \/ TickPlaced(t) \/ \E a \in BOOLEAN : TickOrder(t, a)
Watch(e) == MonitorStops(e) \/ MonitorLooks(e) \/ MonitorSees(e)

RunnerNext ==
  \/ StopRunning \/ RunnerRestarts
  \/ \E s \in StartCalls : StartRequested(s) \/ StartRefused(s) \/ StartReconcile(s) \/ StartDone(s)
  \/ \E t \in EvalTicks : Evaluate(t)
  \/ \E e \in 1..MaxEntries : Watch(e) \/ LegFills(e) \/ LegCancelled(e)

(* The monitor's interval fires, and its requests end. *)
RunnerFairness ==
  \A e \in 1..MaxEntries : WF_runnerVars(MonitorSees(e) \/ (MonitorLooks(e) /\ looks[e] = {}))

-----------------------------------------------------------------------------
RunnerTypeOK ==
  /\ running \in BOOLEAN /\ held \in 0..entries /\ entries \in 0..MaxEntries
  /\ \A t \in EvalTicks : evalTick[t].pc \in {"idle", "candles", "instrument", "placed"}
  /\ monitors \subseteq 1..entries /\ live \subseteq 1..entries
  /\ bracket \subseteq UNION {Legs(e) : e \in live}

(* "Only executes when no open position": in one run of a runner whose     *)
(* ticks, starts and looks do not overlap, there is never a second         *)
(* position, though a leg of the bracket may be cancelled.                 *)
RunnerNeverDoubles == ~crowded /\ stops = 0 => Cardinality(live) <= 1

(* A runner that runs finds out that its position is gone, and evaluates   *)
(* again, although it learns it only from orders that are no longer there. *)
FlatRunnerResumes ==
  (running /\ held # 0 /\ live = {} /\ ~crowded) ~> (held = 0 \/ ~running \/ crowded \/ live # {})

(* "Persistent state across restarts": a runner that has started again     *)
(* still holds the position it opened.                                     *)
RunnerRemembers ==
  running /\ Busy = {} /\ ~crowded /\ live # {} => held \in live

=============================================================================
