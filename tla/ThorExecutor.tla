----------------------------- MODULE ThorExecutor -----------------------------
(***************************************************************************)
(* The trade lifecycle of the Thor executor (strategies/thor-executor.ts)  *)
(* with the part of the order lifecycle manager it relies on               *)
(* (checkPositionAndCleanup, cleanupTradeOrders), await by await.          *)
(*                                                                         *)
(* A timer of one second calls onTicker without waiting for the last call, *)
(* so that activations overlap.  The market chooses the signals and closes *)
(* the position whenever it likes; a request may be refused, or its answer *)
(* lost.  Prices, sizes and the analysis are left out; the statuses        *)
(* initializing and analyzing are one.                                     *)
(***************************************************************************)
EXTENDS Naturals, Sequences, FiniteSets

CONSTANTS
  Activations, (* calls of onTicker that may be in flight                  *)
  MaxPositions, MaxRecords, MaxThorFaults, MaxThorRestarts (* bounds       *)

ASSUME ThorAssumption == {MaxPositions, MaxRecords, MaxThorFaults, MaxThorRestarts} \subseteq Nat

VARIABLES
  lot,      (* the position: its number, and its size in entries           *)
  entries,  (* entry orders executed: the number of the next position      *)
  brackets, (* resting reduce-only orders: number of the position and leg  *)
  book,     (* the trade records: status, position, legs with a known id   *)
  thor,     (* analysisState.status, currentTradeId (0: null), alive       *)
  call,     (* activation -> where it is and what it has read              *)
  thorFaults, thorRestarts,
  overlapped (* history: executeTrade has been running twice at a time     *)
marketState == <<lot, entries, brackets>>
thorVars == <<marketState, book, thor, call, thorFaults, thorRestarts, overlapped>>

NoActivation == [at |-> "idle", trade |-> 0, no |-> 0, has |-> {}, seen |-> {}]
Flat == lot.size = 0
Unfinished == {i \in DOMAIN book : book[i].status = "open"}
Newest(s) == CHOOSE i \in s : \A j \in s : j <= i
In(a, at) == call[a].at = at
Leaves(a) == call' = [call EXCEPT ![a] = NoActivation]
Turns(a, at) == call' = [call EXCEPT ![a].at = at]
StatusIs(s) == thor' = [thor EXCEPT !.status = s]
ThorFault == thorFaults < MaxThorFaults /\ thorFaults' = thorFaults + 1
Executing == {"check", "market", "entry", "stop", "target", "record"}

ThorInit ==
  /\ lot = [no |-> 0, size |-> 0] /\ entries = 0 /\ brackets = {} /\ book = <<>>
  /\ thor = [status |-> "analyzing", trade |-> 0, alive |-> FALSE]
  /\ call = [a \in Activations |-> NoActivation] /\ thorFaults = 0 /\ thorRestarts = 0
  /\ overlapped = FALSE

-----------------------------------------------------------------------------
(* The exchange: an order executes, a resting order or the user closes.    *)
EntryExecutes ==
  /\ entries < MaxPositions /\ entries' = entries + 1
  /\ lot' = IF Flat THEN [no |-> entries + 1, size |-> 1] ELSE [lot EXCEPT !.size = @ + 1]
LotCloses ==
  /\ ~Flat /\ lot' = [lot EXCEPT !.size = 0]
  /\ \E filled \in SUBSET brackets : Cardinality(filled) <= 1 /\ brackets' = brackets \ filled
  /\ UNCHANGED <<entries, book, thor, call, thorFaults, thorRestarts>>

-----------------------------------------------------------------------------
(* initialize *)
Recorded(no, has) ==
  /\ Len(book) < MaxRecords
  /\ book' = Append(book, [status |-> "open", of |-> no, has |-> has])

(* Mutant: a trade found open is closed whatever the position.             *)
ReconcileCloses ==
  /\ Unfinished # {} /\ book' = [book EXCEPT ![Newest(Unfinished)].status = "closed"]
  /\ thor' = [thor EXCEPT !.alive = TRUE]
(* reconcileOnStartup: the latest open trade against the position.         *)
ReconcileOnStartup ==
  \/ Unfinished # {} /\ ~Flat /\ thor' = [thor EXCEPT !.trade = Newest(Unfinished), !.alive = TRUE] /\ UNCHANGED book
  \/ Unfinished = {} /\ Flat /\ thor' = [thor EXCEPT !.alive = TRUE] /\ UNCHANGED book
  \/ /\ Unfinished # {} /\ Flat /\ thor' = [thor EXCEPT !.alive = TRUE]
     /\ book' = [book EXCEPT ![Newest(Unfinished)].status = "closed"]
  \/ Unfinished = {} /\ ~Flat /\ Recorded(lot.no, {}) /\ thor' = [thor EXCEPT !.trade = Len(book'), !.alive = TRUE]

(* Whatever the reconciliation found, initialize then sets analyzing.      *)
Initialize ==
  /\ ~thor.alive /\ UNCHANGED <<marketState, call, thorRestarts>>
  /\ \/ ReconcileOnStartup /\ UNCHANGED thorFaults
     \/ ThorFault /\ thor' = [thor EXCEPT !.alive = TRUE] /\ UNCHANGED book
ThorCrash ==
  /\ thor.alive /\ thorRestarts < MaxThorRestarts /\ thorRestarts' = thorRestarts + 1
  /\ thor' = [status |-> "analyzing", trade |-> 0, alive |-> FALSE]
  /\ call' = [a \in Activations |-> NoActivation]
  /\ UNCHANGED <<marketState, book, thorFaults>>

-----------------------------------------------------------------------------
(* onTicker: a signal, once per candle, begins an executeTrade even while  *)
(* the one of the last candle is waiting for its answers.                  *)
OnTicker(a) ==
  /\ thor.alive /\ In(a, "idle") /\ UNCHANGED <<marketState, book, thorFaults, thorRestarts>>
  /\ CASE thor.status = "open" /\ thor.trade = 0 -> StatusIs("analyzing") /\ UNCHANGED call
       [] thor.status = "open" /\ thor.trade # 0 -> call' = [call EXCEPT ![a] = [NoActivation EXCEPT !.at = "positions", !.trade = thor.trade]] /\ UNCHANGED thor
       [] OTHER -> \/ StatusIs("analyzing") /\ UNCHANGED call
                   \/ Turns(a, "check") /\ UNCHANGED thor

(* executeTrade: its catch sets analyzing. *)
Fails(a) == ThorFault /\ StatusIs("analyzing") /\ Leaves(a)

(* Mutant: the position check is left out. *)
CheckNothing(a) ==
  /\ In(a, "check") /\ UNCHANGED <<marketState, book, thorRestarts>>
  /\ Turns(a, "market") /\ UNCHANGED <<thor, thorFaults>>
CheckPosition(a) ==
  /\ In(a, "check") /\ UNCHANGED <<marketState, book, thorRestarts>>
  /\ \/ ~Flat /\ StatusIs("stopped") /\ Leaves(a) /\ UNCHANGED thorFaults
     \/ Flat /\ Turns(a, "market") /\ UNCHANGED <<thor, thorFaults>>
     \/ Fails(a)

(* Instrument, ticker, spread, swings and size: a refusal just returns.    *)
ReadMarket(a) ==
  /\ In(a, "market") /\ UNCHANGED <<marketState, book, thorRestarts>>
  /\ \/ (Turns(a, "entry") \/ Leaves(a)) /\ UNCHANGED <<thor, thorFaults>>
     \/ Fails(a)
EnterMarket(a) ==
  /\ In(a, "entry") /\ UNCHANGED <<brackets, book, thorRestarts>>
  /\ \/ /\ EntryExecutes /\ call' = [call EXCEPT ![a].at = "stop", ![a].no = lot'.no] /\ UNCHANGED <<thor, thorFaults>>
     \/ Fails(a) /\ (EntryExecutes \/ UNCHANGED <<lot, entries>>)

(* A reduce-only order without a position is refused. *)
Protect(a, from, to) ==
  /\ In(a, from) /\ UNCHANGED <<lot, entries, book, thorRestarts>>
  /\ \/ /\ ~Flat /\ brackets' = brackets \cup {[of |-> lot.no, leg |-> from]}
        /\ call' = [call EXCEPT ![a].at = to, ![a].has = @ \cup {from}] /\ UNCHANGED <<thor, thorFaults>>
     \/ Flat /\ StatusIs("analyzing") /\ Leaves(a) /\ UNCHANGED <<brackets, thorFaults>>
     \/ Fails(a) /\ UNCHANGED brackets
PlaceStopOrder(a) == Protect(a, "stop", "target")
PlaceTargetOrder(a) == Protect(a, "target", "record")
RecordTrade(a) ==
  /\ In(a, "record") /\ UNCHANGED <<marketState, thorRestarts>>
  /\ \/ /\ Recorded(call[a].no, call[a].has) /\ Leaves(a)
        /\ thor' = [thor EXCEPT !.status = "open", !.trade = Len(book')] /\ UNCHANGED thorFaults
     \/ Fails(a) /\ UNCHANGED book

-----------------------------------------------------------------------------
(* checkPositionAndCleanup: false on an error, or while the position is    *)
(* there.                                                                  *)
LooksForPosition(a) ==
  /\ In(a, "positions") /\ UNCHANGED <<marketState, book, thor, thorRestarts>>
  /\ \/ ~Flat /\ Leaves(a) /\ UNCHANGED thorFaults
     \/ Flat /\ Turns(a, "reason") /\ UNCHANGED thorFaults
     \/ ThorFault /\ Leaves(a)
FindsReason(a) ==
  /\ In(a, "reason") /\ UNCHANGED <<marketState, book, thor, thorRestarts>>
  /\ \/ Turns(a, "orders") /\ UNCHANGED thorFaults
     \/ ThorFault /\ Leaves(a)

(* cleanupTradeOrders: stop and target of the trade and every reduce-only  *)
(* order there is; its errors are swallowed.                               *)
ReadsOrders(a) ==
  /\ In(a, "orders") /\ UNCHANGED <<marketState, book, thor, thorRestarts>>
  /\ \/ call' = [call EXCEPT ![a].at = "cancel", ![a].seen = brackets] /\ UNCHANGED thorFaults
     \/ ThorFault /\ Turns(a, "resume")
Cancels(a) ==
  /\ In(a, "cancel") /\ UNCHANGED <<lot, entries, book, thor, thorRestarts>>
  /\ IF call[a].seen = {} THEN Turns(a, "close") /\ UNCHANGED <<brackets, thorFaults>>
     ELSE \E o \in call[a].seen :
            /\ call' = [call EXCEPT ![a].seen = @ \ {o}]
            /\ \/ brackets' = brackets \ {o} /\ UNCHANGED thorFaults
               \/ ThorFault /\ UNCHANGED brackets
ClosesTrade(a) ==
  /\ In(a, "close") /\ Turns(a, "resume") /\ UNCHANGED <<marketState, thor, thorRestarts>>
  /\ \/ book' = [book EXCEPT ![call[a].trade].status = "closed"] /\ UNCHANGED thorFaults
     \/ ThorFault /\ UNCHANGED book

(* closed: the executor forgets its current trade, whichever it is by now. *)
Resumes(a) ==
  /\ In(a, "resume") /\ Leaves(a) /\ thor' = [thor EXCEPT !.status = "analyzing", !.trade = 0]
  /\ UNCHANGED <<marketState, book, thorFaults, thorRestarts>>

-----------------------------------------------------------------------------
ExecuteTrade(a) ==
  \/ CheckPosition(a) \/ ReadMarket(a) \/ EnterMarket(a) \/ PlaceStopOrder(a) \/ PlaceTargetOrder(a) \/ RecordTrade(a)
CheckAndCleanup(a) ==
  LooksForPosition(a) \/ FindsReason(a) \/ ReadsOrders(a) \/ Cancels(a) \/ ClosesTrade(a) \/ Resumes(a)
Twice == \E a, b \in Activations : a # b /\ {call[a].at, call[b].at} \subseteq Executing
ThorNext ==
  /\ \/ LotCloses \/ Initialize \/ ThorCrash
     \/ \E a \in Activations : OnTicker(a) \/ ExecuteTrade(a) \/ CheckAndCleanup(a)
  /\ overlapped' = (overlapped \/ Twice')

ThorSpec == ThorInit /\ [][ThorNext]_thorVars

-----------------------------------------------------------------------------
ThorTypeOK ==
  /\ overlapped \in BOOLEAN
  /\ lot.no \in 0..entries /\ lot.size \in 0..entries
  /\ \A o \in brackets : o.of \in 1..entries /\ o.leg \in {"stop", "target"}
  /\ thor.status \in {"analyzing", "open", "stopped"} /\ thor.trade \in 0..Len(book)
  /\ \A a \in Activations : call[a].trade \in 0..Len(book) /\ call[a].seen \subseteq [of : 1..entries, leg : {"stop", "target"}]

(* "Position already open, skipping": entries whose answer was lost,       *)
(* restarts and overlapping activations included, only two trades executed *)
(* at the same time add an entry to a position.                            *)
ThorNeverDoubled == lot.size > 1 => overlapped

(* Neither a late clean-up, nor the reconciliation of a restart, closes    *)
(* the record of the position that is open.                                *)
ThorClosesOwn == \A i \in DOMAIN book : book[i].status = "closed" => Flat \/ book[i].of # lot.no

(* A position found at start-up is watched.  It does not hold: initialize  *)
(* overwrites the status.                                                  *)
ThorResumes == [][~thor.alive /\ thor'.alive /\ thor'.trade # 0 => thor'.status = "open"]_thorVars

(* A position that the executor watches keeps the stop it was opened with. *)
(* It does not hold: a late clean-up sweeps every reduce-only order.       *)
ThorKeepsStop ==
  thor.status = "open" /\ thor.trade # 0 /\ ~Flat /\ book[thor.trade].of = lot.no /\ "stop" \in book[thor.trade].has
    => [of |-> lot.no, leg |-> "stop"] \in brackets

=============================================================================
