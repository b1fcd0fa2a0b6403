--------------------------- MODULE BrowserStrategies ---------------------------
(***************************************************************************)
(* The trading loops of the browser: FastTestStrategy ("fast"),            *)
(* ScalpingStrategy ("scalping") and RazorStrategy ("razor").  Interval    *)
(* callbacks look for an entry ("traders") and watch the position          *)
(* ("watchers"); nothing keeps a callback from starting while an earlier   *)
(* one still awaits an answer, so each kind may be in flight several times.*)
(*                                                                         *)
(* The exchange (external) executes a market entry at once.  How razor     *)
(* places its bracket in detail is the subject of Brackets; prices are a   *)
(* choice, sides and sizes are left out.                                   *)
(***************************************************************************)
EXTENDS Naturals, FiniteSets

CONSTANTS
  Traders, Watchers, (* callbacks that may be in flight                    *)
  MaxTrades,         (* bound on entries; razor: maxDailyTrades            *)
  MaxTroubles,       (* bound on requests that fail                        *)
  MaxMisses          (* consecutive errors that stop razor: 3              *)

ASSUME BrowserStrategiesAssumption == {MaxTrades, MaxTroubles, MaxMisses} \subseteq Nat

VARIABLES
  kind,     (* the strategy                                                *)
  on,       (* isRunning                                                   *)
  tracked,  (* entries in this.position or this.activeTrades               *)
  trading,  (* isTradeInProgress (razor)                                   *)
  misses,   (* consecutiveErrors (razor)                                   *)
  bought,   (* entries executed so far                                     *)
  exposed,  (* entries whose position is open                              *)
  guards,   (* resting stops and targets                                   *)
  trader,   (* callback -> where it is and its entry                       *)
  watcher,  (* callback -> where it is and the orders it has seen          *)
  troubles
loopStateVars == <<kind, on, tracked, trading, misses>>
accountSideVars == <<bought, exposed, guards>>
browserVars == <<loopStateVars, accountSideVars, trader, watcher, troubles>>

Guard(e, type) == [e |-> e, type |-> type]
Pair(e) == {Guard(e, "stop"), Guard(e, "target")}
Idle == [at |-> "none", e |-> 0, known |-> FALSE]
Unseen == [at |-> "none", seen |-> {}, own |-> FALSE]
Trouble == troubles < MaxTroubles /\ troubles' = troubles + 1
Smooth == UNCHANGED troubles

BrowserInit ==
  /\ kind \in {"fast", "scalping", "razor"} /\ on = FALSE /\ tracked = {} /\ trading = FALSE /\ misses = 0
  /\ bought = 0 /\ exposed = {} /\ guards = {}
  /\ trader = [t \in Traders |-> Idle] /\ watcher = [w \in Watchers |-> Unseen] /\ troubles = 0

-----------------------------------------------------------------------------
(* start: a new interval; razor's counters begin again. *)
Start ==
  /\ ~on /\ on' = TRUE /\ misses' = 0
  /\ UNCHANGED <<kind, tracked, trading, accountSideVars, trader, watcher, troubles>>

(* stop: razor also forgets its trades and the one in progress, and        *)
(* cancels their orders, whether or not their position is open.            *)
Stops(w) ==
  /\ on /\ watcher[w] = Unseen /\ on' = FALSE
  /\ IF kind = "razor"
     THEN /\ trading' = FALSE
          /\ watcher' = [watcher EXCEPT ![w] = [at |-> "drop", own |-> TRUE,
                                               seen |-> guards \cap UNION {Pair(e) : e \in tracked}]]
     ELSE UNCHANGED <<trading, watcher>>
  /\ UNCHANGED <<kind, tracked, misses, accountSideVars, trader, troubles>>

(* The exchange, and the user. *)
GuardHit(g) ==
  /\ g.e \in exposed /\ exposed' = exposed \ {g.e} /\ guards' = guards \ {g}
  /\ UNCHANGED <<loopStateVars, bought, trader, watcher, troubles>>
ClosedByUser ==
  /\ exposed # {} /\ exposed' = {}
  /\ UNCHANGED <<loopStateVars, bought, guards, trader, watcher, troubles>>

-----------------------------------------------------------------------------
TraderAt(t, at) == trader[t].at = at
To(t, at) == trader' = [trader EXCEPT ![t] = IF at = "none" THEN Idle ELSE [@ EXCEPT !.at = at]]
TradeOver(t) == To(t, "none") /\ trading' = IF kind = "razor" THEN FALSE ELSE trading

(* checkAndExecuteTrade, analyze, scanForOpportunities: the guards in      *)
(* memory, then the position at the exchange.                              *)
Look(t) ==
  /\ TraderAt(t, "none") /\ on /\ tracked = {} /\ ~trading
  /\ To(t, "look") /\ UNCHANGED <<loopStateVars, accountSideVars, watcher, troubles>>

(* Without a position and with a signal: executeTrade, once at a time for  *)
(* razor, whose errors are counted until it stops.                         *)
Looked(t) ==
  /\ TraderAt(t, "look") /\ UNCHANGED <<kind, tracked, accountSideVars, watcher>>
  /\ \/ exposed = {} /\ ~trading /\ Smooth /\ To(t, "order")
        /\ trading' = (kind = "razor") /\ misses' = 0 /\ UNCHANGED on
     \/ Smooth /\ To(t, "none") /\ UNCHANGED <<on, trading, misses>>
     \/ Trouble /\ To(t, "none")
        /\ IF kind = "razor"
           THEN /\ misses' = misses + 1
                /\ on' = (on /\ misses' < MaxMisses) /\ trading' = (trading /\ misses' < MaxMisses)
           ELSE UNCHANGED <<on, trading, misses>>

(* The market entry: not sent (instrument, size), executed, or executed    *)
(* with its answer lost.  scalping has no protective orders at all.        *)
Order(t) ==
  /\ TraderAt(t, "order") /\ UNCHANGED <<kind, on, misses, guards, watcher>>
  /\ \/ TradeOver(t) /\ UNCHANGED <<bought, exposed, tracked, troubles>>
     \/ /\ bought < MaxTrades /\ bought' = bought + 1 /\ exposed' = exposed \cup {bought'}
        /\ \/ Trouble /\ TradeOver(t) /\ UNCHANGED tracked
           \/ /\ Smooth
              /\ IF kind = "scalping" THEN tracked' = {bought'} /\ TradeOver(t)
                 ELSE /\ trader' = [trader EXCEPT ![t] = [@ EXCEPT !.at = "verify", !.e = bought']]
                      /\ UNCHANGED <<tracked, trading>>

(* The entry is looked up a few times; one that cannot be verified is left *)
(* as it is.                                                               *)
Verify(t) ==
  /\ TraderAt(t, "verify") /\ UNCHANGED <<kind, on, tracked, misses, accountSideVars, watcher>>
  /\ \/ Smooth /\ To(t, "stop") /\ UNCHANGED trading
     \/ Trouble /\ (TradeOver(t) \/ UNCHANGED <<trader, trading>>)

Sends(t, type, done) ==
  LET sent == guards' = guards \cup {Guard(trader[t].e, type)}
      failed == To(t, "undo") /\ Trouble /\ UNCHANGED <<tracked, trading>>
  IN \/ sent /\ Smooth /\ done
     \/ sent /\ failed
     \/ UNCHANGED guards /\ failed

SendStop(t) ==
  /\ TraderAt(t, "stop") /\ UNCHANGED <<kind, on, misses, bought, exposed, watcher>>
  /\ Sends(t, "stop", /\ trader' = [trader EXCEPT ![t] = [@ EXCEPT !.at = "target", !.known = TRUE]]
                      /\ UNCHANGED <<tracked, trading>>)

SendTarget(t) ==
  /\ TraderAt(t, "target") /\ UNCHANGED <<kind, on, misses, bought, exposed, watcher>>
  /\ Sends(t, "target", /\ tracked' = (IF kind = "razor" THEN tracked ELSE {}) \cup {trader[t].e}
                        /\ TradeOver(t))

(* The stop that is known is cancelled, or not; razor tries once more. *)
UndoStop(t) ==
  /\ TraderAt(t, "undo") /\ UNCHANGED <<loopStateVars, bought, exposed, watcher>>
  /\ \/ guards' = (IF trader[t].known THEN guards \ {Guard(trader[t].e, "stop")} ELSE guards) /\ Smooth
     \/ UNCHANGED guards /\ Trouble
  /\ \E next \in {"close"} \cup (IF kind = "razor" THEN {"stop"} ELSE {}) :
       trader' = [trader EXCEPT ![t] = [@ EXCEPT !.at = next, !.known = FALSE]]

(* The emergency close; fast stops itself. *)
CloseAtOnce(t) ==
  /\ TraderAt(t, "close") /\ UNCHANGED <<kind, tracked, misses, bought, guards, watcher>>
  /\ TradeOver(t) /\ on' = (on /\ kind = "razor")
  /\ \/ exposed' = {} /\ Smooth
     \/ exposed' \in {exposed, {}} /\ Trouble

-----------------------------------------------------------------------------
WatcherAt(w, at) == watcher[w].at = at
Moves(w, at) == watcher' = [watcher EXCEPT ![w] = IF at = "none" THEN Unseen ELSE [@ EXCEPT !.at = at]]

(* fast, scalping: a price beyond stop or target closes, and then the      *)
(* orders are swept; a push of the portfolio only sweeps.                  *)
WatchPrice(w) ==
  /\ WatcherAt(w, "none") /\ on /\ kind # "razor"
  /\ Moves(w, "sweep") \/ (tracked # {} /\ Moves(w, "cancelAll"))
  /\ UNCHANGED <<loopStateVars, accountSideVars, trader, troubles>>

(* closePosition: all orders, then the position, then this.position. *)
CancelAll(w) ==
  /\ WatcherAt(w, "cancelAll") /\ UNCHANGED <<loopStateVars, bought, exposed, trader>>
  /\ \/ guards' = {} /\ Moves(w, "closeAll") /\ Smooth
     \/ guards' \in {guards, {}} /\ Moves(w, "sweep") /\ Trouble
CloseAll(w) ==
  /\ WatcherAt(w, "closeAll") /\ Moves(w, "sweep") /\ UNCHANGED <<kind, on, trading, misses, bought, guards, trader>>
  /\ \/ exposed' = {} /\ tracked' = {} /\ Smooth
     \/ exposed' \in {exposed, {}} /\ UNCHANGED tracked /\ Trouble

(* cleanupOrphanedOrders of fast and scalping: the open orders are read,   *)
(* and compared with this.position as it is when they arrive.              *)
Sweep(w) ==
  /\ WatcherAt(w, "sweep") /\ UNCHANGED <<loopStateVars, accountSideVars, trader>>
  /\ \/ on /\ watcher' = [watcher EXCEPT ![w] = [@ EXCEPT !.at = "swept", !.seen = guards]] /\ Smooth
     \/ ~on /\ Moves(w, "none") /\ Smooth
     \/ Moves(w, "none") /\ Trouble

(* Mutant: orders without a tracked position are left alone.               *)
OrphansSpared(seen) == {}
Orphans(seen) == seen
Own(seen) == IF kind = "scalping" THEN {} ELSE seen \cap UNION {Pair(e) : e \in tracked}
Swept(w) ==
  /\ WatcherAt(w, "swept") /\ UNCHANGED <<kind, on, trading, misses, accountSideVars, trader, troubles>>
  /\ LET seen == watcher[w].seen
         own == Own(seen)
         drop(orders, mine) == watcher' = [watcher EXCEPT ![w] = [at |-> "drop", seen |-> orders, own |-> mine]]
     IN IF tracked = {} THEN drop(Orphans(seen), FALSE) /\ UNCHANGED tracked
        ELSE IF Cardinality(own) = 1 THEN drop(own, TRUE) /\ UNCHANGED tracked
        ELSE Moves(w, "none") /\ tracked' = IF own = {} THEN {} ELSE tracked

(* One cancellation after the other; fast and scalping go on after one     *)
(* that fails, razor gives up the rest of the trade.  Then the trade is    *)
(* forgotten.                                                              *)
CancelNext(w) ==
  /\ WatcherAt(w, "drop") /\ UNCHANGED <<kind, on, trading, misses, bought, exposed, trader>>
  /\ IF watcher[w].seen = {}
     THEN /\ Moves(w, "none") /\ tracked' = (IF watcher[w].own THEN {} ELSE tracked)
          /\ UNCHANGED <<guards, troubles>>
     ELSE \E g \in watcher[w].seen :
       /\ UNCHANGED tracked
       /\ \/ /\ guards' = guards \ {g} /\ Smooth
             /\ watcher' = [watcher EXCEPT ![w].seen = @ \ {g}]
          \/ /\ UNCHANGED guards /\ Trouble
             /\ watcher' = [watcher EXCEPT ![w].seen = IF kind = "razor" THEN @ \ Pair(g.e) ELSE @ \ {g}]

(* razor: a tick beyond stop or target counts the trade as closed and      *)
(* cancels its orders; it leaves the position to the exchange.             *)
Crossed(w) ==
  /\ WatcherAt(w, "none") /\ kind = "razor" /\ tracked # {}
  /\ watcher' = [watcher EXCEPT ![w] = [at |-> "drop", own |-> TRUE,
                                       seen |-> guards \cap UNION {Pair(e) : e \in tracked}]]
  /\ UNCHANGED <<loopStateVars, accountSideVars, trader, troubles>>

-----------------------------------------------------------------------------
Trade(t) ==
  \/ Look(t) \/ Looked(t) \/ Order(t) \/ Verify(t) \/ SendStop(t) \/ SendTarget(t)
  \/ UndoStop(t) \/ CloseAtOnce(t)
Guarding(w) ==
  WatchPrice(w) \/ CancelAll(w) \/ CloseAll(w) \/ Sweep(w) \/ Swept(w) \/ CancelNext(w)

BrowserNext ==
  \/ Start \/ ClosedByUser
  \/ \E g \in guards : GuardHit(g)
  \/ \E t \in Traders : Trade(t)
  \/ \E w \in Watchers : Stops(w) \/ Guarding(w) \/ Crossed(w)

(* The interval fires and its requests end. *)
BrowserFairness == \A w \in Watchers : WF_browserVars(Guarding(w))

-----------------------------------------------------------------------------
BrowserTypeOK ==
  /\ {on, trading} \subseteq BOOLEAN /\ misses \in 0..MaxMisses
  /\ tracked \cup exposed \subseteq 1..bought /\ bought \in 0..MaxTrades
  /\ guards \subseteq UNION {Pair(e) : e \in 1..bought}

Placing == \E t \in Traders : trader[t].at \in {"stop", "target", "undo", "close"}
Single == exposed = {} /\ Cardinality(guards) = 1

(* Stop and target are not linked at the exchange: when one has executed   *)
(* and only the other is left, a loop that keeps running cancels it,       *)
(* whatever requests fail on the way, and whether or not it still tracks   *)
(* the trade.                                                              *)
SiblingSwept ==
  (kind # "razor" /\ on /\ Single /\ ~Placing) ~> (~on \/ ~Single \/ Placing)

(* A position that is open stays tracked or protected. *)
NotForgotten == kind = "scalping" /\ on /\ exposed # {} => tracked # {}

=============================================================================
