--------------------------- MODULE Strategies_proofs ---------------------------
(***************************************************************************)
(* The Thor executor, for any number of overlapping activations, entries,  *)
(* records, faults and restarts: no late clean-up and no start-up closes   *)
(* the record of the open position, and a position is never doubled unless *)
(* two trades were executed at the same time.                              *)
(*                                                                         *)
(* A clean-up goes on for several awaits after it found the account flat,  *)
(* and another activation may open a position meanwhile.  What saves its   *)
(* record is that a position opened later has another number than any      *)
(* record there was: ForgetsOwn says so of every clean-up under way.       *)
(*                                                                         *)
(* Then what the executors decide on: no candle counts twice in the longer *)
(* timeframe, for any limits and pauses.                                   *)
(***************************************************************************)
EXTENDS ThorExecutor, Candles, SequenceTheorems, WellFoundedInduction, TLAPS

Places == Executing \cup {"idle", "positions", "reason", "orders", "cancel", "close", "resume"}
CleaningUp == {"reason", "orders", "cancel", "close"}
TradeRecord == [status : {"open", "closed"}, of : Nat, has : SUBSET {"stop", "target"}]
OrderRecord == [of : Nat, leg : {"stop", "target"}]
ActivationRecord == [at : Places, trade : Nat, no : Nat, has : SUBSET {"stop", "target"}, seen : SUBSET OrderRecord]
Statuses == {"analyzing", "open", "stopped"}

ThorTyped ==
  /\ lot \in [no : Nat, size : Nat] /\ entries \in Nat /\ lot.no <= entries
  /\ book \in Seq(TradeRecord) /\ \A i \in DOMAIN book : book[i].of <= entries
  /\ thor \in [status : Statuses, trade : Nat, alive : BOOLEAN]
  /\ thor.trade <= Len(book)
  /\ call \in [Activations -> ActivationRecord]
  /\ \A a \in Activations : call[a].trade <= Len(book) /\ call[a].no <= entries
  /\ brackets \subseteq OrderRecord

(* The record i may be closed. *)
OverIn(i, records, position) == i \in DOMAIN records => position.size = 0 \/ records[i].of # position.no
Over(i) == OverIn(i, book, lot)
ForgetsOwn == \A a \in Activations : call[a].at \in CleaningUp => Over(call[a].trade)

RecordInv == ThorTyped /\ ForgetsOwn /\ ThorClosesOwn

(* As long as no executeTrade has been running next to another one. *)
OneEntry == lot.size <= 1
OneExecutes == \A a, b \in Activations : call[a].at \in Executing /\ call[b].at \in Executing => a = b
EntersFlat == \A a \in Activations : call[a].at \in {"market", "entry"} => Flat
EntryInv == OneExecutes /\ EntersFlat /\ OneEntry

-----------------------------------------------------------------------------
(* The start-up finds one of the open records, when there is one: the set  *)
(* of numbers that none of them exceeds has a least element.               *)
LEMMA NewestIsMember ==
  ASSUME NEW n \in Nat, NEW s \in SUBSET (1 .. n), s # {}
  PROVE  Newest(s) \in s
<1> DEFINE Above == {m \in Nat : \A i \in s : i <= m}
<1>1. Above \subseteq Nat /\ n \in Above
  OBVIOUS
<1> HIDE DEF Above
<1>2. PICK m \in Above : \A k \in Above : <<k, m>> \notin OpToRel(<, Nat)
  BY <1>1, NatLessThanWellFounded, WFMin
<1>3. \A k \in Above : m <= k
  <2>1. \A k \in Above : ~(k < m)
    BY <1>1, <1>2 DEF OpToRel
  <2> QED BY <1>1, <2>1
<1>4. m \in s
  <2> SUFFICES ASSUME m \notin s PROVE FALSE
    OBVIOUS
  <2>1. PICK i \in s : TRUE
    OBVIOUS
  <2>2. m \in Nat /\ \A j \in s : j < m /\ j \in Nat /\ j >= 1
    BY <1>1 DEF Above
  <2>3. m - 1 \in Above
    BY <2>1, <2>2 DEF Above
  <2> QED BY <1>3, <2>2, <2>3
<1> QED BY <1>4 DEF Newest, Above

LEMMA NewestUnfinished ==
  ASSUME ThorTyped, Unfinished # {}
  PROVE  Newest(Unfinished) \in 1 .. Len(book)
<1>1. Len(book) \in Nat /\ Unfinished \in SUBSET (1 .. Len(book))
  BY DEF ThorTyped, Unfinished
<1> QED BY <1>1, NewestIsMember

(* recordTrade appends an open record. *)
LEMMA RecordedAdds ==
  ASSUME ThorTyped, NEW no \in Nat, no <= entries, NEW has \in SUBSET {"stop", "target"}, Recorded(no, has)
  PROVE  /\ book' \in Seq(TradeRecord) /\ Len(book') = Len(book) + 1
         /\ \A i \in DOMAIN book : i \in DOMAIN book' /\ book'[i] = book[i]
         /\ \A i \in DOMAIN book' : book'[i].of <= entries
         /\ \A i \in DOMAIN book' : i \in DOMAIN book \/ book'[i].status = "open"
<1> DEFINE r == [status |-> "open", of |-> no, has |-> has]
<1>1. r \in TradeRecord /\ book' = Append(book, r)
  BY DEF Recorded, TradeRecord
<1>2. /\ book' \in Seq(TradeRecord) /\ Len(book') = Len(book) + 1
      /\ book'[Len(book) + 1] = r /\ \A i \in 1 .. Len(book) : book'[i] = book[i]
  BY <1>1 DEF ThorTyped
<1>3. DOMAIN book' = 1 .. (Len(book) + 1) /\ DOMAIN book = 1 .. Len(book) /\ Len(book) \in Nat
  BY <1>2 DEF ThorTyped
<1>4. \A i \in DOMAIN book' : i \in DOMAIN book \/ i = Len(book) + 1
  BY <1>3
<1>5. r.of = no /\ r.status = "open"
  OBVIOUS
<1> HIDE DEF r
<1>6. \A i \in DOMAIN book : i \in DOMAIN book' /\ book'[i] = book[i] /\ book[i].of <= entries
  BY <1>2, <1>3 DEF ThorTyped
<1> QED BY <1>2, <1>4, <1>5, <1>6

(* closeTrade changes the status of one record. *)
ClosesRecord(i) == book' = [book EXCEPT ![i].status = "closed"]

LEMMA CloseChanges ==
  ASSUME ThorTyped, NEW i \in Nat, ClosesRecord(i)
  PROVE  /\ book' \in Seq(TradeRecord) /\ Len(book') = Len(book) /\ DOMAIN book' = DOMAIN book
         /\ \A j \in DOMAIN book : book'[j].of = book[j].of
         /\ \A j \in DOMAIN book : j # i => book'[j].status = book[j].status
<1>1. DOMAIN book = 1 .. Len(book) /\ \A j \in DOMAIN book : book[j] \in TradeRecord
  BY DEF ThorTyped
<1> USE DEF ClosesRecord
<1>2. CASE i \in DOMAIN book
  <2>1. [book[i] EXCEPT !.status = "closed"] \in TradeRecord
    BY <1>1, <1>2 DEF TradeRecord
  <2>2. book' = [book EXCEPT ![i] = [book[i] EXCEPT !.status = "closed"]]
    OBVIOUS
  <2>3. book' \in Seq(TradeRecord) /\ Len(book') = Len(book)
    BY <1>1, <1>2, <2>1, <2>2, ExceptSeq DEF ThorTyped
  <2> QED BY <1>1, <1>2, <2>3 DEF TradeRecord
<1>3. CASE i \notin DOMAIN book
  BY <1>1, <1>3, book' = book DEF ThorTyped
<1> QED BY <1>2, <1>3

-----------------------------------------------------------------------------
(* Types *)

LEMMA CallMoves ==
  ASSUME ThorTyped, NEW a \in Activations, NEW r \in ActivationRecord,
         call' = [call EXCEPT ![a] = r]
  PROVE  /\ call' \in [Activations -> ActivationRecord]
         /\ \A b \in Activations : call'[b] = IF b = a THEN r ELSE call[b]
BY DEF ThorTyped

LEMMA LeavesMoves ==
  ASSUME ThorTyped, NEW a \in Activations, Leaves(a)
  PROVE  /\ call' \in [Activations -> ActivationRecord]
         /\ \A b \in Activations : call'[b] = IF b = a THEN NoActivation ELSE call[b]
<1>1. NoActivation \in ActivationRecord
  BY DEF NoActivation, ActivationRecord, Places
<1> QED BY <1>1, CallMoves DEF Leaves

LEMMA TurnsMoves ==
  ASSUME ThorTyped, NEW a \in Activations, NEW at \in Places, Turns(a, at)
  PROVE  /\ call' \in [Activations -> ActivationRecord]
         /\ \A b \in Activations : call'[b] = IF b = a THEN [call[a] EXCEPT !.at = at] ELSE call[b]
<1>1. [call[a] EXCEPT !.at = at] \in ActivationRecord
  BY DEF ThorTyped, ActivationRecord
<1> QED BY <1>1, CallMoves DEF Turns

LEMMA CallTyped ==
  ASSUME ThorTyped, NEW a \in Activations
  PROVE  /\ call[a] \in ActivationRecord /\ call[a].at \in Places /\ call[a].trade \in Nat /\ call[a].no \in Nat
         /\ call[a].has \in SUBSET {"stop", "target"} /\ call[a].seen \in SUBSET OrderRecord
         /\ call[a].trade <= Len(book) /\ call[a].no <= entries
BY DEF ThorTyped, ActivationRecord

(* Steps that touch neither position, entries nor records. *)
LEMMA QuietTyped ==
  ASSUME ThorTyped, UNCHANGED <<lot, entries, book>>, brackets' \subseteq OrderRecord,
         thor' \in [status : Statuses, trade : Nat, alive : BOOLEAN], thor'.trade <= Len(book),
         call' \in [Activations -> ActivationRecord],
         \A a \in Activations : call'[a].trade <= Len(book) /\ call'[a].no <= entries
  PROVE  ThorTyped'
BY DEF ThorTyped

LEMMA StatusTyped ==
  ASSUME ThorTyped, NEW s \in Statuses, StatusIs(s)
  PROVE  thor' \in [status : Statuses, trade : Nat, alive : BOOLEAN] /\ thor'.trade = thor.trade
BY DEF ThorTyped, StatusIs

LEMMA LeavesTyped ==
  ASSUME ThorTyped, NEW a \in Activations, Leaves(a), UNCHANGED <<lot, entries, book>>,
         brackets' \subseteq OrderRecord, thor' = thor \/ (\E s \in Statuses : StatusIs(s))
  PROVE  ThorTyped'
<1>1. thor' \in [status : Statuses, trade : Nat, alive : BOOLEAN] /\ thor'.trade <= Len(book)
  BY StatusTyped DEF ThorTyped
<1>2. \A b \in Activations : call'[b].trade <= Len(book) /\ call'[b].no <= entries
  BY LeavesMoves, CallTyped DEF NoActivation, ThorTyped
<1> QED BY <1>1, <1>2, LeavesMoves, QuietTyped

LEMMA TurnsTyped ==
  ASSUME ThorTyped, NEW a \in Activations, NEW at \in Places, Turns(a, at), UNCHANGED <<lot, entries, book, thor>>,
         brackets' \subseteq OrderRecord
  PROVE  ThorTyped'
<1>1. \A b \in Activations : call'[b].trade <= Len(book) /\ call'[b].no <= entries
  BY TurnsMoves, CallTyped DEF ActivationRecord
<1> QED BY <1>1, TurnsMoves, QuietTyped DEF ThorTyped

LEMMA EntryTyped ==
  ASSUME ThorTyped, EntryExecutes
  PROVE  /\ entries' = entries + 1 /\ entries' \in Nat /\ lot' \in [no : Nat, size : Nat] /\ lot'.no <= entries'
         /\ lot'.no = IF Flat THEN entries + 1 ELSE lot.no
BY DEF ThorTyped, EntryExecutes, Flat

LEMMA NumbersGrow ==
  ASSUME ThorTyped, EntryExecutes, UNCHANGED book
  PROVE  \A i \in DOMAIN book' : book'[i].of <= entries'
<1>1. \A i \in DOMAIN book : book[i].of \in Nat /\ book[i].of <= entries
  <2>1. \A i \in DOMAIN book : book[i] \in TradeRecord /\ book[i].of <= entries
    BY DEF ThorTyped
  <2> QED BY <2>1 DEF TradeRecord
<1>2. entries \in Nat /\ entries' = entries + 1
  BY DEF ThorTyped, EntryExecutes
<1> QED BY <1>1, <1>2

LEMMA MarketTyped == ASSUME ThorTyped, LotCloses PROVE ThorTyped'
BY DEF ThorTyped, LotCloses

LEMMA StartTyped == ASSUME ThorTyped, Initialize PROVE ThorTyped'
<1>1. UNCHANGED <<lot, entries, brackets, call>>
  BY DEF Initialize, marketState
<1>2. ASSUME thor' = [thor EXCEPT !.alive = TRUE], UNCHANGED book PROVE ThorTyped'
  BY <1>1, <1>2 DEF ThorTyped
<1>3. ASSUME Unfinished # {}, thor' = [thor EXCEPT !.trade = Newest(Unfinished), !.alive = TRUE], UNCHANGED book
      PROVE  ThorTyped'
  <2>1. Newest(Unfinished) \in Nat /\ Newest(Unfinished) <= Len(book) /\ Len(book) \in Nat
    BY <1>3, NewestUnfinished DEF ThorTyped
  <2>2. thor' \in [status : Statuses, trade : Nat, alive : BOOLEAN] /\ thor'.trade = Newest(Unfinished)
    BY <1>3, <2>1 DEF ThorTyped
  <2> QED BY <1>1, <1>3, <2>1, <2>2, CallTyped, QuietTyped DEF ThorTyped
<1>4. ASSUME Unfinished # {}, thor' = [thor EXCEPT !.alive = TRUE],
             book' = [book EXCEPT ![Newest(Unfinished)].status = "closed"]
      PROVE  ThorTyped'
  <2>1. Newest(Unfinished) \in Nat /\ ClosesRecord(Newest(Unfinished))
    BY <1>4, NewestUnfinished DEF ClosesRecord
  <2>2. /\ book' \in Seq(TradeRecord) /\ Len(book') = Len(book) /\ DOMAIN book' = DOMAIN book
        /\ \A j \in DOMAIN book : book'[j].of = book[j].of
    BY <2>1, CloseChanges, Zenon
  <2>3. thor' \in [status : Statuses, trade : Nat, alive : BOOLEAN] /\ thor'.trade = thor.trade
    BY <1>4 DEF ThorTyped
  <2> QED BY <1>1, <2>2, <2>3 DEF ThorTyped
<1>5. ASSUME Recorded(lot.no, {}), thor' = [thor EXCEPT !.trade = Len(book'), !.alive = TRUE]
      PROVE  ThorTyped'
  <2>1. /\ book' \in Seq(TradeRecord) /\ Len(book') = Len(book) + 1
        /\ \A i \in DOMAIN book' : book'[i].of <= entries
    BY <1>5, RecordedAdds DEF ThorTyped
  <2>2. Len(book) \in Nat
    BY DEF ThorTyped
  <2>3. \A a \in Activations : call'[a].trade <= Len(book') /\ call'[a].no <= entries
    BY <1>1, <2>1, <2>2, CallTyped
  <2>4. thor' \in [status : Statuses, trade : Nat, alive : BOOLEAN] /\ thor'.trade = Len(book')
    <3>1. thor \in [status : Statuses, trade : Nat, alive : BOOLEAN] /\ Len(book') \in Nat
      BY <2>1, <2>2 DEF ThorTyped
    <3> QED BY <1>5, <3>1
  <2> QED BY <1>1, <2>1, <2>2, <2>3, <2>4 DEF ThorTyped
<1> QED BY <1>2, <1>3, <1>4, <1>5 DEF Initialize, ReconcileOnStartup

LEMMA CrashTyped == ASSUME ThorTyped, ThorCrash PROVE ThorTyped'
<1>1. NoActivation \in ActivationRecord /\ NoActivation.trade = 0 /\ NoActivation.no = 0
  BY DEF NoActivation, ActivationRecord, Places
<1> QED BY <1>1 DEF ThorTyped, ThorCrash, marketState, Statuses

LEMMA TickerTyped == ASSUME ThorTyped, NEW a \in Activations, OnTicker(a) PROVE ThorTyped'
<1>1. UNCHANGED <<lot, entries, brackets, book>>
  BY DEF OnTicker, marketState
<1>2. CASE StatusIs("analyzing") /\ UNCHANGED call
  BY <1>1, <1>2, StatusTyped DEF ThorTyped, Statuses
<1>3. CASE UNCHANGED thor /\ call' = [call EXCEPT ![a] = [NoActivation EXCEPT !.at = "positions", !.trade = thor.trade]]
  <2>1. /\ [NoActivation EXCEPT !.at = "positions", !.trade = thor.trade] \in ActivationRecord
        /\ [NoActivation EXCEPT !.at = "positions", !.trade = thor.trade].trade = thor.trade
        /\ [NoActivation EXCEPT !.at = "positions", !.trade = thor.trade].no = 0
    BY DEF NoActivation, ActivationRecord, Places, ThorTyped
  <2> QED BY <1>1, <1>3, <2>1, CallMoves, QuietTyped, CallTyped DEF ThorTyped
<1>4. CASE Turns(a, "check") /\ UNCHANGED thor
  BY <1>1, <1>4, TurnsTyped DEF Places, Executing, ThorTyped
<1> QED BY <1>2, <1>3, <1>4 DEF OnTicker

LEMMA ProtectTyped ==
  ASSUME ThorTyped, NEW a \in Activations, NEW from \in {"stop", "target"}, NEW to \in Places, Protect(a, from, to)
  PROVE  ThorTyped'
<1>1. UNCHANGED <<lot, entries, book>>
  BY DEF Protect
<1>2. CASE /\ brackets' = brackets \cup {[of |-> lot.no, leg |-> from]} /\ UNCHANGED thor
           /\ call' = [call EXCEPT ![a].at = to, ![a].has = @ \cup {from}]
  <2> DEFINE r == [call[a] EXCEPT !.at = to, !.has = @ \cup {from}]
  <2>1. r \in ActivationRecord /\ r.trade = call[a].trade /\ r.no = call[a].no
    BY CallTyped DEF ActivationRecord
  <2>2. call' = [call EXCEPT ![a] = r]
    BY <1>2
  <2> HIDE DEF r
  <2>3. /\ call' \in [Activations -> ActivationRecord]
        /\ \A b \in Activations : call'[b].trade <= Len(book) /\ call'[b].no <= entries
    BY <2>1, <2>2, CallMoves, CallTyped
  <2>4. brackets' \subseteq OrderRecord
    BY <1>2 DEF ThorTyped, OrderRecord
  <2> QED BY <1>1, <1>2, <2>3, <2>4, QuietTyped DEF ThorTyped
<1>3. CASE StatusIs("analyzing") /\ Leaves(a) /\ UNCHANGED brackets
  BY <1>1, <1>3, LeavesTyped DEF Statuses, ThorTyped
<1> QED BY <1>2, <1>3 DEF Protect, Fails

LEMMA EnterTyped == ASSUME ThorTyped, NEW a \in Activations, EnterMarket(a) PROVE ThorTyped'
<1>1. UNCHANGED <<brackets, book>>
  BY DEF EnterMarket
<1>2. CASE EntryExecutes /\ call' = [call EXCEPT ![a].at = "stop", ![a].no = lot'.no] /\ UNCHANGED thor
  <2> DEFINE r == [call[a] EXCEPT !.at = "stop", !.no = lot'.no]
  <2>1. r \in ActivationRecord /\ r.trade = call[a].trade /\ r.no = lot'.no
    BY <1>2, CallTyped, EntryTyped DEF ActivationRecord, Places, Executing
  <2>2. call' = [call EXCEPT ![a] = r]
    BY <1>2
  <2> HIDE DEF r
  <2>3. /\ call' \in [Activations -> ActivationRecord]
        /\ \A b \in Activations : call'[b].trade <= Len(book) /\ call'[b].no <= entries'
    <3>1. \A b \in Activations : call[b].trade \in Nat /\ call[b].no \in Nat /\ call[b].no <= entries
      BY CallTyped
    <3>2. lot'.no <= entries' /\ entries' = entries + 1 /\ entries \in Nat
      BY <1>2, EntryTyped DEF ThorTyped
    <3>3. call' \in [Activations -> ActivationRecord] /\ \A b \in Activations : call'[b] = IF b = a THEN r ELSE call[b]
      BY <2>1, <2>2, CallMoves
    <3> QED BY <2>1, <3>1, <3>2, <3>3, CallTyped
  <2>4. \A i \in DOMAIN book' : book'[i].of <= entries'
    BY <1>1, <1>2, NumbersGrow
  <2> QED BY <1>1, <1>2, <2>3, <2>4, EntryTyped DEF ThorTyped
<1>3. CASE EntryExecutes /\ Fails(a)
  <2>1. thor' \in [status : Statuses, trade : Nat, alive : BOOLEAN] /\ thor'.trade <= Len(book)
    BY <1>3, StatusTyped DEF Fails, Statuses, ThorTyped
  <2>2. /\ call' \in [Activations -> ActivationRecord]
        /\ \A b \in Activations : call'[b].trade <= Len(book) /\ call'[b].no <= entries'
    <3>1. \A b \in Activations : call[b].trade \in Nat /\ call[b].no \in Nat /\ call[b].no <= entries
      BY CallTyped
    <3>2. entries' = entries + 1 /\ entries \in Nat /\ Len(book) \in Nat
      BY <1>3, EntryTyped DEF ThorTyped
    <3>3. /\ call' \in [Activations -> ActivationRecord]
          /\ \A b \in Activations : call'[b] = IF b = a THEN NoActivation ELSE call[b]
      BY <1>3, LeavesMoves DEF Fails
    <3> QED BY <3>1, <3>2, <3>3, CallTyped DEF NoActivation
  <2>3. \A i \in DOMAIN book' : book'[i].of <= entries'
    BY <1>1, <1>3, NumbersGrow
  <2> QED BY <1>1, <1>3, <2>1, <2>2, <2>3, EntryTyped DEF ThorTyped
<1>4. CASE Fails(a) /\ UNCHANGED <<lot, entries>>
  BY <1>1, <1>4, LeavesTyped DEF Fails, Statuses, ThorTyped
<1> QED BY <1>2, <1>3, <1>4 DEF EnterMarket

LEMMA RecordTyped == ASSUME ThorTyped, NEW a \in Activations, RecordTrade(a) PROVE ThorTyped'
<1>1. UNCHANGED <<lot, entries, brackets>>
  BY DEF RecordTrade, marketState
<1>2. CASE /\ Recorded(call[a].no, call[a].has) /\ Leaves(a)
           /\ thor' = [thor EXCEPT !.status = "open", !.trade = Len(book')]
  <2>1. /\ book' \in Seq(TradeRecord) /\ Len(book') = Len(book) + 1 /\ Len(book) \in Nat
        /\ \A i \in DOMAIN book' : book'[i].of <= entries
    BY <1>2, CallTyped, RecordedAdds DEF ThorTyped
  <2>2. /\ call' \in [Activations -> ActivationRecord]
        /\ \A b \in Activations : call'[b].trade <= Len(book') /\ call'[b].no <= entries
    BY <1>2, <2>1, LeavesMoves, CallTyped DEF NoActivation, ThorTyped
  <2>3. thor' \in [status : Statuses, trade : Nat, alive : BOOLEAN] /\ thor'.trade = Len(book')
    <3>1. thor \in [status : Statuses, trade : Nat, alive : BOOLEAN] /\ Len(book') \in Nat /\ "open" \in Statuses
      BY <2>1 DEF ThorTyped, Statuses
    <3> QED BY <1>2, <3>1
  <2> QED BY <1>1, <2>1, <2>2, <2>3 DEF ThorTyped
<1>3. CASE Fails(a) /\ UNCHANGED book
  BY <1>1, <1>3, LeavesTyped DEF Fails, Statuses, ThorTyped
<1> QED BY <1>2, <1>3 DEF RecordTrade

LEMMA ExecuteTyped == ASSUME ThorTyped, NEW a \in Activations, ExecuteTrade(a) PROVE ThorTyped'
<1>1. CASE CheckPosition(a) \/ ReadMarket(a)
  BY <1>1, LeavesTyped, TurnsTyped
     DEF CheckPosition, ReadMarket, Fails, marketState, Places, Executing, Statuses, ThorTyped
<1>2. CASE PlaceStopOrder(a) \/ PlaceTargetOrder(a)
  BY <1>2, ProtectTyped DEF PlaceStopOrder, PlaceTargetOrder, Places, Executing
<1> QED BY <1>1, <1>2, EnterTyped, RecordTyped DEF ExecuteTrade

LEMMA CleanupTyped == ASSUME ThorTyped, NEW a \in Activations, CheckAndCleanup(a) PROVE ThorTyped'
<1>1. CASE LooksForPosition(a) \/ FindsReason(a)
  BY <1>1, LeavesTyped, TurnsTyped DEF LooksForPosition, FindsReason, marketState, Places, ThorTyped
<1>2. CASE ReadsOrders(a)
  <2>1. CASE call' = [call EXCEPT ![a].at = "cancel", ![a].seen = brackets]
    <3> DEFINE r == [call[a] EXCEPT !.at = "cancel", !.seen = brackets]
    <3>1. r \in ActivationRecord /\ r.trade = call[a].trade /\ r.no = call[a].no
      BY CallTyped DEF ActivationRecord, Places, ThorTyped
    <3>2. call' = [call EXCEPT ![a] = r]
      BY <2>1
    <3> HIDE DEF r
    <3> QED BY <1>2, <3>1, <3>2, CallMoves, CallTyped, QuietTyped DEF ReadsOrders, marketState, ThorTyped
  <2>2. CASE Turns(a, "resume")
    BY <1>2, <2>2, TurnsTyped DEF ReadsOrders, marketState, Places, ThorTyped
  <2> QED BY <1>2, <2>1, <2>2 DEF ReadsOrders
<1>3. CASE Cancels(a)
  <2>1. CASE Turns(a, "close") /\ UNCHANGED brackets
    BY <1>3, <2>1, TurnsTyped DEF Cancels, Places, ThorTyped
  <2>2. ASSUME NEW o \in call[a].seen, call' = [call EXCEPT ![a].seen = @ \ {o}], brackets' \subseteq brackets
        PROVE  ThorTyped'
    <3> DEFINE r == [call[a] EXCEPT !.seen = @ \ {o}]
    <3>1. r \in ActivationRecord /\ r.trade = call[a].trade /\ r.no = call[a].no
      BY CallTyped DEF ActivationRecord
    <3>2. call' = [call EXCEPT ![a] = r]
      BY <2>2
    <3> HIDE DEF r
    <3> QED BY <1>3, <2>2, <3>1, <3>2, CallMoves, CallTyped, QuietTyped DEF Cancels, ThorTyped
  <2> QED BY <1>3, <2>1, <2>2 DEF Cancels
<1>4. CASE ClosesTrade(a)
  <2>1. CASE UNCHANGED book
    BY <1>4, <2>1, TurnsTyped DEF ClosesTrade, marketState, Places, ThorTyped
  <2>2. CASE book' = [book EXCEPT ![call[a].trade].status = "closed"]
    <3>1. /\ book' \in Seq(TradeRecord) /\ Len(book') = Len(book) /\ DOMAIN book' = DOMAIN book
          /\ \A j \in DOMAIN book : book'[j].of = book[j].of
      <4>1. call[a].trade \in Nat /\ ClosesRecord(call[a].trade)
        BY <2>2, CallTyped DEF ClosesRecord
      <4> QED BY <4>1, CloseChanges, Zenon
    <3>2. /\ call' \in [Activations -> ActivationRecord]
          /\ \A b \in Activations : call'[b].trade <= Len(book) /\ call'[b].no <= entries
      <4>1. Turns(a, "resume") /\ "resume" \in Places
        BY <1>4 DEF ClosesTrade, Places
      <4>2. /\ call' \in [Activations -> ActivationRecord]
            /\ \A b \in Activations : call'[b] = IF b = a THEN [call[a] EXCEPT !.at = "resume"] ELSE call[b]
        BY <4>1, TurnsMoves
      <4>3. [call[a] EXCEPT !.at = "resume"].trade = call[a].trade /\ [call[a] EXCEPT !.at = "resume"].no = call[a].no
        BY CallTyped DEF ActivationRecord
      <4> QED BY <4>2, <4>3, CallTyped
    <3> QED BY <1>4, <3>1, <3>2 DEF ClosesTrade, marketState, ThorTyped
  <2> QED BY <1>4, <2>1, <2>2 DEF ClosesTrade
<1>5. CASE Resumes(a)
  <2>1. thor' \in [status : Statuses, trade : Nat, alive : BOOLEAN] /\ thor'.trade = 0
    BY <1>5 DEF Resumes, ThorTyped, Statuses
  <2>2. \A b \in Activations : call'[b].trade <= Len(book) /\ call'[b].no <= entries
    BY <1>5, LeavesMoves, CallTyped DEF Resumes, NoActivation, ThorTyped
  <2>3. Len(book) \in Nat
    BY DEF ThorTyped
  <2> QED BY <1>5, <2>1, <2>2, <2>3, LeavesMoves, QuietTyped DEF Resumes, marketState, ThorTyped
<1> QED BY <1>1, <1>2, <1>3, <1>4, <1>5 DEF CheckAndCleanup

LEMMA TypedStep == ThorTyped /\ [ThorNext]_thorVars => ThorTyped'
<1> SUFFICES ASSUME ThorTyped, [ThorNext]_thorVars PROVE ThorTyped'
  OBVIOUS
<1>1. CASE UNCHANGED thorVars
  BY <1>1 DEF thorVars, marketState, ThorTyped
<1> QED BY <1>1, MarketTyped, StartTyped, CrashTyped, TickerTyped, ExecuteTyped, CleanupTyped DEF ThorNext

-----------------------------------------------------------------------------
(* Only records of positions that are over are closed *)

LEMMA RecordInvKept ==
  ASSUME RecordInv, ThorTyped',
         \A i \in Nat : i <= Len(book) /\ Over(i) => Over(i)',
         \A i \in DOMAIN book' :
           book'[i].status = "closed" => Over(i)' \/ (i \in DOMAIN book /\ book[i].status = "closed"),
         \A a \in Activations :
           call'[a].at \in CleaningUp =>
             OverIn(call'[a].trade, book', lot') \/ (call[a].at \in CleaningUp /\ call'[a].trade = call[a].trade)
  PROVE  RecordInv'
<1> USE DEF Over
<1>1. ForgetsOwn'
  <2>1. \A a \in Activations : call[a].trade \in Nat /\ call[a].trade <= Len(book)
    BY CallTyped DEF RecordInv
  <2>2. \A a \in Activations : call[a].at \in CleaningUp => OverIn(call[a].trade, book', lot')
    BY <2>1 DEF RecordInv, ForgetsOwn
  <2>3. SUFFICES ASSUME NEW a \in Activations, call'[a].at \in CleaningUp PROVE OverIn(call'[a].trade, book', lot')
    BY DEF ForgetsOwn
  <2> QED BY <2>2, <2>3
<1>2. ThorClosesOwn'
  <2>1. \A i \in DOMAIN book : i \in Nat /\ i <= Len(book)
    BY DEF RecordInv, ThorTyped
  <2>2. \A i \in DOMAIN book : book[i].status = "closed" => Over(i)
    BY DEF RecordInv, ThorClosesOwn, Over, OverIn, Flat
  <2>3. \A i \in DOMAIN book' : book'[i].status = "closed" => Over(i)'
    BY <2>1, <2>2
  <2> QED BY <2>3 DEF Over, OverIn, Flat, ThorClosesOwn
<1> QED BY <1>1, <1>2 DEF RecordInv

(* Positions and records as they were. *)
LEMMA QuietKeeps ==
  ASSUME RecordInv, ThorTyped', UNCHANGED <<lot, book>>,
         \A a \in Activations :
           call'[a].at \in CleaningUp =>
             OverIn(call'[a].trade, book', lot') \/ (call[a].at \in CleaningUp /\ call'[a].trade = call[a].trade)
  PROVE  RecordInv'
<1>1. \A i : Over(i)' = Over(i)
  BY DEF Over, OverIn, Flat
<1>2. \A i \in DOMAIN book' : book'[i].status = "closed" => i \in DOMAIN book /\ book[i].status = "closed"
  OBVIOUS
<1> QED BY <1>1, <1>2, RecordInvKept

(* One activation goes on, and does not begin a clean-up. *)
LEMMA MovesKeep ==
  ASSUME RecordInv, ThorTyped', UNCHANGED <<lot, book>>, NEW a \in Activations,
         \A b \in Activations \ {a} : call'[b] = call[b],
         call'[a].at \in CleaningUp => call[a].at \in CleaningUp /\ call'[a].trade = call[a].trade
  PROVE  RecordInv'
<1>1. \A b \in Activations : call'[b].at \in CleaningUp =>
                               call[b].at \in CleaningUp /\ call'[b].trade = call[b].trade
  OBVIOUS
<1> QED BY <1>1, QuietKeeps

LEMMA LeavesKeeps ==
  ASSUME RecordInv, ThorTyped', UNCHANGED <<lot, book>>, NEW a \in Activations, Leaves(a)
  PROVE  RecordInv'
<1>1. /\ \A b \in Activations \ {a} : call'[b] = call[b]
      /\ call'[a] = NoActivation /\ NoActivation.at \notin CleaningUp
  BY LeavesMoves DEF RecordInv, NoActivation, CleaningUp
<1> QED BY <1>1, MovesKeep

LEMMA TurnsKeeps ==
  ASSUME RecordInv, ThorTyped', UNCHANGED <<lot, book>>, NEW a \in Activations,
         NEW at \in Places, Turns(a, at), at \in CleaningUp => call[a].at \in CleaningUp
  PROVE  RecordInv'
<1>1. /\ \A b \in Activations \ {a} : call'[b] = call[b]
      /\ call'[a] = [call[a] EXCEPT !.at = at]
  BY TurnsMoves DEF RecordInv
<1>2. call'[a].at = at /\ call'[a].trade = call[a].trade
  BY <1>1, CallTyped DEF RecordInv, ActivationRecord
<1> QED BY <1>1, <1>2, MovesKeep

(* A position that is opened has a number that no record has. *)
LEMMA EntryKeepsOver ==
  ASSUME ThorTyped, EntryExecutes, UNCHANGED book, NEW i, Over(i)
  PROVE  Over(i)'
<1>1. \A j \in DOMAIN book : book[j] \in TradeRecord /\ book[j].of <= entries
  BY DEF ThorTyped
<1>2. \A j \in DOMAIN book : book[j].of \in Nat /\ book[j].of # entries + 1
  BY <1>1 DEF TradeRecord, ThorTyped
<1>3. Flat => lot'.no = entries + 1
  BY EntryTyped
<1>4. ~Flat => lot'.no = lot.no
  BY EntryTyped
<1> QED BY <1>2, <1>3, <1>4 DEF Over, OverIn, Flat

LEMMA EnterKeeps ==
  ASSUME RecordInv, ThorTyped', NEW a \in Activations, EnterMarket(a)
  PROVE  RecordInv'
<1>1. UNCHANGED book
  BY DEF EnterMarket
<1>2. \A b \in Activations : call'[b].at \in CleaningUp =>
                               call[b].at \in CleaningUp /\ call'[b].trade = call[b].trade
  <2>1. CASE Fails(a)
    BY <2>1, LeavesMoves DEF Fails, RecordInv, NoActivation, CleaningUp
  <2>2. CASE call' = [call EXCEPT ![a].at = "stop", ![a].no = lot'.no]
    BY <2>2 DEF RecordInv, ThorTyped, ActivationRecord, CleaningUp
  <2> QED BY <2>1, <2>2 DEF EnterMarket
<1>3. CASE UNCHANGED lot
  BY <1>1, <1>2, <1>3, QuietKeeps
<1>4. CASE EntryExecutes
  BY <1>1, <1>2, <1>4, EntryKeepsOver, RecordInvKept DEF RecordInv
<1> QED BY <1>3, <1>4 DEF EnterMarket

LEMMA RecordKeeps ==
  ASSUME RecordInv, ThorTyped', NEW no \in Nat, no <= entries, NEW has \in SUBSET {"stop", "target"},
         Recorded(no, has), UNCHANGED lot,
         \A b \in Activations : call'[b].at \in CleaningUp =>
                               call[b].at \in CleaningUp /\ call'[b].trade = call[b].trade
  PROVE  RecordInv'
<1>1. /\ \A i \in DOMAIN book : i \in DOMAIN book' /\ book'[i] = book[i]
      /\ \A i \in DOMAIN book' : i \in DOMAIN book \/ book'[i].status = "open"
  BY RecordedAdds DEF RecordInv
<1>2. \A i \in Nat : i <= Len(book) /\ Over(i) => Over(i)'
  <2> SUFFICES ASSUME NEW i \in Nat, i <= Len(book), Over(i), i \in DOMAIN book' PROVE Flat \/ book'[i].of # lot.no
    BY DEF Over, OverIn, Flat
  <2>1. i \in DOMAIN book
    <3>1. DOMAIN book = 1 .. Len(book) /\ DOMAIN book' = 1 .. Len(book')
      BY DEF RecordInv, ThorTyped
    <3> QED BY <3>1
  <2> QED BY <1>1, <2>1 DEF Over, OverIn, Flat
<1> QED BY <1>1, <1>2, RecordInvKept

(* The record i, whose position is over, is closed. *)
LEMMA CloseKeeps ==
  ASSUME RecordInv, ThorTyped', NEW i \in Nat, Over(i), ClosesRecord(i), UNCHANGED lot,
         \A b \in Activations : call'[b].at \in CleaningUp =>
                               call[b].at \in CleaningUp /\ call'[b].trade = call[b].trade
  PROVE  RecordInv'
<1>1. /\ DOMAIN book' = DOMAIN book
      /\ \A j \in DOMAIN book : book'[j].of = book[j].of
      /\ \A j \in DOMAIN book : j # i => book'[j].status = book[j].status
  <2>1. ThorTyped
    BY DEF RecordInv
  <2> QED BY <2>1, CloseChanges, Zenon
<1>2. \A j : Over(j)' = Over(j)
  BY <1>1 DEF Over, OverIn, Flat
<1> QED BY <1>1, <1>2, RecordInvKept

LEMMA ExecuteKeeps ==
  ASSUME RecordInv, ThorTyped', NEW a \in Activations, ExecuteTrade(a)
  PROVE  RecordInv'
<1>1. CASE CheckPosition(a) \/ ReadMarket(a)
  BY <1>1, LeavesKeeps, TurnsKeeps
     DEF CheckPosition, ReadMarket, Fails, marketState, Places, Executing, CleaningUp
<1>2. CASE PlaceStopOrder(a) \/ PlaceTargetOrder(a)
  <2>1. PICK from \in {"stop", "target"}, to \in {"target", "record"} : Protect(a, from, to)
    BY <1>2 DEF PlaceStopOrder, PlaceTargetOrder
  <2>2. CASE Leaves(a)
    BY <2>1, <2>2, LeavesKeeps DEF Protect
  <2>3. CASE call' = [call EXCEPT ![a].at = to, ![a].has = @ \cup {from}]
    <3>1. (\A b \in Activations \ {a} : call'[b] = call[b]) /\ call'[a].at \notin CleaningUp
      BY <2>3 DEF RecordInv, ThorTyped, ActivationRecord, CleaningUp
    <3> QED BY <2>1, <3>1, MovesKeep DEF Protect
  <2> QED BY <2>1, <2>2, <2>3 DEF Protect, Fails
<1>3. CASE RecordTrade(a)
  <2>1. CASE Recorded(call[a].no, call[a].has) /\ Leaves(a)
    <3>1. \A b \in Activations : call'[b].at \in CleaningUp =>
                               call[b].at \in CleaningUp /\ call'[b].trade = call[b].trade
      BY <2>1, LeavesMoves DEF RecordInv, NoActivation, CleaningUp
    <3>2. call[a].no \in Nat /\ call[a].no <= entries /\ call[a].has \in SUBSET {"stop", "target"}
      BY CallTyped DEF RecordInv
    <3> QED BY <1>3, <2>1, <3>1, <3>2, RecordKeeps DEF RecordTrade, marketState
  <2>2. CASE Fails(a) /\ UNCHANGED book
    BY <1>3, <2>2, LeavesKeeps DEF RecordTrade, Fails, marketState
  <2> QED BY <1>3, <2>1, <2>2 DEF RecordTrade
<1> QED BY <1>1, <1>2, <1>3, EnterKeeps DEF ExecuteTrade

LEMMA CleanupKeeps ==
  ASSUME RecordInv, ThorTyped', NEW a \in Activations, CheckAndCleanup(a)
  PROVE  RecordInv'
(* The account is flat when the clean-up begins. *)
<1>1. CASE LooksForPosition(a)
  <2>1. CASE Leaves(a)
    BY <1>1, <2>1, LeavesKeeps DEF LooksForPosition, marketState
  <2>2. CASE Flat /\ Turns(a, "reason")
    <3>1. \A i : Over(i)
      BY <2>2 DEF Over, OverIn, Flat
    <3>2. \A b \in Activations :
            OverIn(call'[b].trade, book', lot') \/ (call[b].at \in CleaningUp /\ call'[b].trade = call[b].trade)
      BY <1>1, <3>1 DEF LooksForPosition, marketState, Over
    <3> QED BY <1>1, <3>2, QuietKeeps DEF LooksForPosition, marketState
  <2> QED BY <1>1, <2>1, <2>2 DEF LooksForPosition
<1>2. CASE FindsReason(a)
  BY <1>2, LeavesKeeps, TurnsKeeps DEF FindsReason, marketState, Places, CleaningUp, In
<1>3. CASE ReadsOrders(a)
  <2>1. CASE call' = [call EXCEPT ![a].at = "cancel", ![a].seen = brackets]
    <3>1. (\A b \in Activations \ {a} : call'[b] = call[b]) /\ call'[a].trade = call[a].trade
      BY <2>1 DEF RecordInv, ThorTyped, ActivationRecord
    <3> QED BY <1>3, <3>1, MovesKeep DEF ReadsOrders, marketState, CleaningUp, In
  <2>2. CASE Turns(a, "resume")
    BY <1>3, <2>2, TurnsKeeps DEF ReadsOrders, marketState, Places, CleaningUp
  <2> QED BY <1>3, <2>1, <2>2 DEF ReadsOrders
<1>4. CASE Cancels(a)
  <2>1. CASE Turns(a, "close")
    BY <1>4, <2>1, TurnsKeeps DEF Cancels, Places, CleaningUp, In
  <2>2. ASSUME NEW o, call' = [call EXCEPT ![a].seen = @ \ {o}] PROVE RecordInv'
    <3>1. /\ \A b \in Activations \ {a} : call'[b] = call[b]
          /\ call'[a].trade = call[a].trade
      BY <2>2 DEF RecordInv, ThorTyped, ActivationRecord
    <3> QED BY <1>4, <3>1, MovesKeep DEF Cancels, CleaningUp, In
  <2> QED BY <1>4, <2>1, <2>2 DEF Cancels
(* What is closed is what was over when the clean-up began, and still is.  *)
<1>5. CASE ClosesTrade(a)
  <2>1. CASE UNCHANGED book
    BY <1>5, <2>1, TurnsKeeps DEF ClosesTrade, marketState, Places, CleaningUp
  <2>2. CASE ClosesRecord(call[a].trade)
    <3>1. call[a].trade \in Nat /\ Over(call[a].trade)
      BY <1>5, CallTyped DEF RecordInv, ForgetsOwn, ClosesTrade, In, CleaningUp
    <3>2. \A b \in Activations : call'[b].at \in CleaningUp =>
                               call[b].at \in CleaningUp /\ call'[b].trade = call[b].trade
      BY <1>5 DEF RecordInv, ThorTyped, ActivationRecord, ClosesTrade, Turns, CleaningUp
    <3> QED BY <1>5, <2>2, <3>1, <3>2, CloseKeeps DEF ClosesTrade, marketState
  <2> QED BY <1>5, <2>1, <2>2 DEF ClosesTrade, ClosesRecord
<1>6. CASE Resumes(a)
  BY <1>6, LeavesKeeps DEF Resumes, marketState
<1> QED BY <1>1, <1>2, <1>3, <1>4, <1>5, <1>6 DEF CheckAndCleanup

LEMMA StartKeeps == ASSUME RecordInv, ThorTyped', Initialize PROVE RecordInv'
<1>1. UNCHANGED <<lot, call>>
  BY DEF Initialize, marketState
<1>2. CASE UNCHANGED book
  BY <1>1, <1>2, QuietKeeps
<1>3. CASE Recorded(lot.no, {})
  BY <1>1, <1>3, RecordKeeps DEF RecordInv, ThorTyped
<1>4. CASE Unfinished # {} /\ Flat /\ book' = [book EXCEPT ![Newest(Unfinished)].status = "closed"]
  <2>1. Newest(Unfinished) \in Nat /\ ClosesRecord(Newest(Unfinished))
    BY <1>4, NewestUnfinished DEF RecordInv, ClosesRecord
  <2>2. Over(Newest(Unfinished))
    BY <1>4 DEF Over, OverIn, Flat
  <2> QED BY <1>1, <2>1, <2>2, CloseKeeps
<1> QED BY <1>2, <1>3, <1>4 DEF Initialize, ReconcileOnStartup

LEMMA LotClosesKeeps == ASSUME RecordInv, ThorTyped', LotCloses PROVE RecordInv'
<1>1. UNCHANGED <<book, call>> /\ Flat'
  BY DEF LotCloses, Flat, RecordInv, ThorTyped
<1>2. \A i : Over(i)'
  BY <1>1 DEF Over, OverIn, Flat
<1> QED BY <1>1, <1>2, RecordInvKept

LEMMA RecordInvStep == RecordInv /\ [ThorNext]_thorVars => RecordInv'
<1> SUFFICES ASSUME RecordInv, [ThorNext]_thorVars PROVE RecordInv'
  OBVIOUS
<1>1. ThorTyped'
  BY TypedStep DEF RecordInv
<1>2. CASE UNCHANGED thorVars
  BY <1>1, <1>2, QuietKeeps DEF thorVars, marketState
<1>3. CASE ThorCrash
  BY <1>1, <1>3, QuietKeeps DEF ThorCrash, marketState, NoActivation, CleaningUp
<1>4. ASSUME NEW a \in Activations, OnTicker(a) PROVE RecordInv'
  <2>1. UNCHANGED <<lot, book>>
    BY <1>4 DEF OnTicker, marketState
  <2>2. CASE UNCHANGED call
    BY <1>1, <2>1, <2>2, MovesKeep
  <2>3. CASE call' = [call EXCEPT ![a] = [NoActivation EXCEPT !.at = "positions", !.trade = thor.trade]]
    <3>1. [NoActivation EXCEPT !.at = "positions", !.trade = thor.trade].at \notin CleaningUp
      BY DEF NoActivation, CleaningUp
    <3>2. (\A b \in Activations \ {a} : call'[b] = call[b]) /\ call'[a].at \notin CleaningUp
      BY <2>3, <3>1 DEF RecordInv, ThorTyped
    <3> QED BY <1>1, <2>1, <3>2, MovesKeep
  <2>4. CASE Turns(a, "check")
    BY <1>1, <2>1, <2>4, TurnsKeeps DEF Places, Executing, CleaningUp
  <2> QED BY <1>4, <2>2, <2>3, <2>4 DEF OnTicker
<1> QED BY <1>1, <1>2, <1>3, <1>4, LotClosesKeeps, StartKeeps, ExecuteKeeps, CleanupKeeps DEF ThorNext

LEMMA RecordInvInit == ThorInit => RecordInv
BY DEF ThorInit, RecordInv, ThorTyped, ForgetsOwn, ThorClosesOwn, NoActivation, ActivationRecord, Places,
       CleaningUp, Statuses

LEMMA RecordInvAlways == ThorSpec => []RecordInv
BY RecordInvInit, RecordInvStep, PTL DEF ThorSpec

(* Neither a late clean-up nor a start-up closes the record of the open    *)
(* position (checkPositionAndCleanup, reconcileOnStartup), however many    *)
(* activations overlap.                                                    *)
THEOREM OnlyOverIsClosed == ThorSpec => []ThorClosesOwn
BY RecordInvAlways, PTL DEF RecordInv

-----------------------------------------------------------------------------
(* A position is never doubled, when no two trades are executed at once *)

(* One activation goes on, and enters the market only when flat. *)
LEMMA MovesOnce ==
  ASSUME EntryInv, UNCHANGED lot, NEW a \in Activations,
         \A b \in Activations \ {a} : call'[b] = call[b],
         call'[a].at \in Executing => call[a].at \in Executing,
         call'[a].at \in {"market", "entry"} => Flat \/ call[a].at \in {"market", "entry"}
  PROVE  EntryInv'
<1>1. OneExecutes'
  <2> SUFFICES ASSUME NEW b \in Activations, NEW c \in Activations,
                      call'[b].at \in Executing, call'[c].at \in Executing
               PROVE  b = c
    BY DEF OneExecutes
  <2>1. call[b].at \in Executing /\ call[c].at \in Executing
    OBVIOUS
  <2> QED BY <2>1 DEF EntryInv, OneExecutes
<1>2. EntersFlat'
  BY DEF EntryInv, EntersFlat, Flat
<1>3. OneEntry'
  BY DEF EntryInv, OneEntry
<1> QED BY <1>1, <1>2, <1>3 DEF EntryInv

(* The types: an order that rests, or was read, is of a position there has *)
(* been, and the position is made of entries.                              *)
PastOrder == [of : 1..entries, leg : {"stop", "target"}]
LotsTyped ==
  /\ lot.size <= entries /\ (lot.size > 0 => lot.no > 0)
  /\ brackets \subseteq PastOrder /\ \A a \in Activations : call[a].seen \subseteq PastOrder

LEMMA LotsKept ==
  ASSUME ThorTyped, LotsTyped, [ThorNext]_thorVars
  PROVE  LotsTyped'
<1>0. /\ entries \in Nat /\ lot \in [no : Nat, size : Nat] /\ lot.no \in 0..entries /\ DOMAIN call = Activations
      /\ \A a \in Activations : DOMAIN call[a] = {"at", "trade", "no", "has", "seen"}
      /\ NoActivation.seen = {}
  BY DEF ThorTyped, ActivationRecord, NoActivation
<1>1. ASSUME UNCHANGED <<lot, entries>>, brackets' \subseteq brackets,
             \A a \in Activations : call'[a].seen \subseteq call[a].seen \cup brackets
      PROVE  LotsTyped'
  BY <1>1 DEF LotsTyped, PastOrder
<1>2. CASE UNCHANGED thorVars
  BY <1>1, <1>2 DEF thorVars, marketState
<1>3. CASE LotCloses
  <2>1. lot' = [lot EXCEPT !.size = 0] /\ brackets' \subseteq brackets /\ UNCHANGED <<entries, call>>
    BY <1>3 DEF LotCloses
  <2> QED BY <1>0, <2>1 DEF LotsTyped, PastOrder
<1>4. CASE Initialize
  BY <1>1, <1>4 DEF Initialize, marketState
<1>5. CASE ThorCrash
  BY <1>0, <1>1, <1>5 DEF ThorCrash, marketState
<1>6. ASSUME NEW a \in Activations, OnTicker(a) PROVE LotsTyped'
  <2>1. \/ call' = call \/ \E s : call' = [call EXCEPT ![a].at = s]
        \/ \E r : call' = [call EXCEPT ![a] = r] /\ r.seen = {}
    <3>1. [NoActivation EXCEPT !.at = "positions", !.trade = thor.trade].seen = {}
      BY DEF NoActivation
    <3> QED BY <1>6, <3>1 DEF OnTicker, Turns
  <2>3. \A b \in Activations : call'[b].seen \subseteq call[b].seen
    BY <1>0, <2>1
  <2> QED BY <1>1, <1>6, <2>3 DEF OnTicker, marketState
<1>7. ASSUME NEW a \in Activations, NEW at, Leaves(a) \/ Turns(a, at)
      PROVE  \A b \in Activations : call'[b].seen \subseteq call[b].seen
  BY <1>0, <1>7 DEF Leaves, Turns
<1>8. ASSUME NEW a \in Activations, CheckPosition(a) \/ ReadMarket(a) \/ RecordTrade(a) PROVE LotsTyped'
  <2>1. Leaves(a) \/ \E at : Turns(a, at)
    BY <1>8 DEF CheckPosition, ReadMarket, RecordTrade, Fails
  <2> QED BY <1>1, <1>7, <1>8, <2>1 DEF CheckPosition, ReadMarket, RecordTrade, marketState
<1>9. ASSUME NEW a \in Activations, EnterMarket(a) PROVE LotsTyped'
  <2>1. Leaves(a) \/ call' = [call EXCEPT ![a].at = "stop", ![a].no = lot'.no]
    BY <1>9 DEF EnterMarket, Fails
  <2>2. \A b \in Activations : call'[b].seen \subseteq call[b].seen
    BY <1>0, <1>7, <2>1
  <2>3. brackets' = brackets /\ (EntryExecutes \/ UNCHANGED <<lot, entries>>)
    BY <1>9 DEF EnterMarket
  <2>4. CASE EntryExecutes
    <3>1. entries' = entries + 1 /\ lot' = IF Flat THEN [no |-> entries + 1, size |-> 1] ELSE [lot EXCEPT !.size = @ + 1]
      BY <2>4 DEF EntryExecutes
    <3>2. PastOrder \subseteq PastOrder'
      BY <1>0, <3>1 DEF PastOrder
    <3>3. lot'.size <= entries' /\ lot'.no > 0
      BY <1>0, <3>1 DEF LotsTyped, Flat
    <3> QED BY <2>2, <2>3, <3>2, <3>3 DEF LotsTyped
  <2> QED BY <1>1, <2>2, <2>3, <2>4
<1>10. ASSUME NEW a \in Activations, NEW from \in {"stop", "target"}, NEW to, Protect(a, from, to) PROVE LotsTyped'
  <2>1. Leaves(a) \/ call' = [call EXCEPT ![a].at = to, ![a].has = @ \cup {from}]
    BY <1>10 DEF Protect, Fails
  <2>2. \A b \in Activations : call'[b].seen \subseteq call[b].seen
    BY <1>0, <1>7, <2>1
  <2>3. UNCHANGED <<lot, entries>> /\ (brackets' = brackets \/ (~Flat /\ brackets' = brackets \cup {[of |-> lot.no, leg |-> from]}))
    BY <1>10 DEF Protect
  <2>4. ~Flat => [of |-> lot.no, leg |-> from] \in PastOrder
    BY <1>0 DEF LotsTyped, Flat, PastOrder
  <2>5. brackets' \subseteq PastOrder
    BY <2>3, <2>4 DEF LotsTyped
  <2> QED BY <2>2, <2>3, <2>5 DEF LotsTyped, PastOrder
<1>11. ASSUME NEW a \in Activations, LooksForPosition(a) \/ FindsReason(a) \/ ClosesTrade(a) \/ Resumes(a)
       PROVE  LotsTyped'
  <2>1. Leaves(a) \/ \E at : Turns(a, at)
    BY <1>11 DEF LooksForPosition, FindsReason, ClosesTrade, Resumes
  <2> QED BY <1>1, <1>7, <1>11, <2>1 DEF LooksForPosition, FindsReason, ClosesTrade, Resumes, marketState
<1>12. ASSUME NEW a \in Activations, ReadsOrders(a) PROVE LotsTyped'
  <2>1. (\E at : Turns(a, at)) \/ call' = [call EXCEPT ![a].at = "cancel", ![a].seen = brackets]
    BY <1>12 DEF ReadsOrders
  <2>2. \A b \in Activations : call'[b].seen \subseteq call[b].seen \cup brackets
    BY <1>0, <1>7, <2>1
  <2> QED BY <1>1, <1>12, <2>2 DEF ReadsOrders, marketState
<1>13. ASSUME NEW a \in Activations, Cancels(a) PROVE LotsTyped'
  <2>1. (\E at : Turns(a, at)) \/ \E o : call' = [call EXCEPT ![a].seen = @ \ {o}]
    BY <1>13 DEF Cancels
  <2>2. \A b \in Activations : call'[b].seen \subseteq call[b].seen
    BY <1>0, <1>7, <2>1
  <2> QED BY <1>1, <1>13, <2>2 DEF Cancels
<1> QED BY <1>2, <1>3, <1>4, <1>5, <1>6, <1>8, <1>9, <1>10, <1>11, <1>12, <1>13
        DEF ThorNext, ExecuteTrade, CheckAndCleanup, PlaceStopOrder, PlaceTargetOrder

(* The types hold through every activation, cleanup and cancel: no order   *)
(* that rests or was read is of a position there has not been.             *)
THEOREM ThorTypeCorrect == ThorSpec => []ThorTypeOK
<1> DEFINE Inv == LotsTyped /\ overlapped \in BOOLEAN
<1>1. ThorInit => Inv
  <2>1. ThorInit => LotsTyped
    BY DEF ThorInit, LotsTyped, PastOrder, NoActivation
  <2> QED BY <2>1 DEF ThorInit
<1>2. ThorTyped /\ Inv /\ [ThorNext]_thorVars => Inv'
  <2>1. overlapped \in BOOLEAN /\ [ThorNext]_thorVars => (overlapped \in BOOLEAN)'
    BY DEF ThorNext, thorVars
  <2> QED BY <2>1, LotsKept
<1>3. ThorTyped /\ Inv => ThorTypeOK
  BY DEF ThorTyped, LotsTyped, PastOrder, ThorTypeOK, ActivationRecord, Statuses, OrderRecord
<1>4. RecordInv => ThorTyped
  BY DEF RecordInv
<1> QED BY <1>1, <1>2, <1>3, <1>4, RecordInvAlways, PTL DEF ThorSpec

LEMMA LeavesOnce ==
  ASSUME ThorTyped, EntryInv, UNCHANGED lot, NEW a \in Activations, Leaves(a)
  PROVE  EntryInv'
<1>1. /\ \A b \in Activations \ {a} : call'[b] = call[b]
      /\ call'[a].at \notin Executing /\ call'[a].at \notin {"market", "entry"}
  BY LeavesMoves DEF NoActivation, Executing
<1> QED BY <1>1, MovesOnce

LEMMA TurnsOnce ==
  ASSUME ThorTyped, EntryInv, UNCHANGED lot, NEW a \in Activations, NEW at \in Places, Turns(a, at),
         at \in Executing => call[a].at \in Executing,
         at \in {"market", "entry"} => Flat \/ call[a].at \in {"market", "entry"}
  PROVE  EntryInv'
<1>1. /\ \A b \in Activations \ {a} : call'[b] = call[b]
      /\ call'[a] = [call[a] EXCEPT !.at = at]
  BY TurnsMoves
<1>2. call'[a].at = at
  BY <1>1, CallTyped DEF ActivationRecord
<1> QED BY <1>1, <1>2, MovesOnce

(* The entry order executes in a flat account, and no other activation is  *)
(* between its position check and its entry.                               *)
LEMMA EnterOnce == ASSUME ThorTyped, EntryInv, NEW a \in Activations, EnterMarket(a) PROVE EntryInv'
<1>1. Flat /\ call[a].at \in Executing
  BY DEF EnterMarket, In, EntryInv, EntersFlat, Executing
<1>2. /\ \A b \in Activations \ {a} : call'[b] = call[b]
      /\ call'[a].at \in {"stop", "idle"}
  <2>1. CASE Fails(a)
    BY <2>1, LeavesMoves DEF Fails, NoActivation
  <2>2. CASE call' = [call EXCEPT ![a].at = "stop", ![a].no = lot'.no]
    BY <2>2 DEF ThorTyped, ActivationRecord
  <2> QED BY <2>1, <2>2 DEF EnterMarket
<1>3. OneEntry'
  BY <1>1 DEF EnterMarket, EntryExecutes, Flat, EntryInv, OneEntry
<1>4. OneExecutes'
  <2> SUFFICES ASSUME NEW b \in Activations, NEW c \in Activations,
                      call'[b].at \in Executing, call'[c].at \in Executing
               PROVE  b = c
    BY DEF OneExecutes
  <2>1. call[b].at \in Executing /\ call[c].at \in Executing
    BY <1>1, <1>2
  <2> QED BY <2>1 DEF EntryInv, OneExecutes
<1>5. EntersFlat'
  <2> SUFFICES ASSUME NEW b \in Activations, call'[b].at \in {"market", "entry"} PROVE FALSE
    BY DEF EntersFlat
  <2>1. b # a /\ call[b].at \in Executing
    BY <1>2 DEF Executing
  <2> QED BY <1>1, <2>1 DEF EntryInv, OneExecutes
<1> QED BY <1>3, <1>4, <1>5 DEF EntryInv

LEMMA ExecuteOnce == ASSUME ThorTyped, EntryInv, NEW a \in Activations, ExecuteTrade(a) PROVE EntryInv'
<1>1. CASE CheckPosition(a)
  BY <1>1, LeavesOnce, TurnsOnce DEF CheckPosition, Fails, marketState, Places, Executing, In
<1>2. CASE ReadMarket(a)
  BY <1>2, LeavesOnce, TurnsOnce DEF ReadMarket, Fails, marketState, Places, Executing, In
<1>3. CASE PlaceStopOrder(a) \/ PlaceTargetOrder(a)
  <2>1. PICK from \in {"stop", "target"}, to \in {"target", "record"} : Protect(a, from, to)
    BY <1>3 DEF PlaceStopOrder, PlaceTargetOrder
  <2>2. CASE Leaves(a)
    BY <2>1, <2>2, LeavesOnce DEF Protect
  <2>3. CASE call' = [call EXCEPT ![a].at = to, ![a].has = @ \cup {from}]
    <3>1. (\A b \in Activations \ {a} : call'[b] = call[b]) /\ call'[a].at = to
      BY <2>3 DEF ThorTyped, ActivationRecord
    <3>2. call[a].at \in Executing /\ to \notin {"market", "entry"}
      BY <2>1 DEF Protect, In, Executing
    <3> QED BY <2>1, <3>1, <3>2, MovesOnce DEF Protect
  <2> QED BY <2>1, <2>2, <2>3 DEF Protect, Fails
<1>4. CASE RecordTrade(a)
  BY <1>4, LeavesOnce DEF RecordTrade, Fails, marketState
<1> QED BY <1>1, <1>2, <1>3, <1>4, EnterOnce DEF ExecuteTrade

LEMMA CleanupOnce == ASSUME ThorTyped, EntryInv, NEW a \in Activations, CheckAndCleanup(a) PROVE EntryInv'
<1>1. CASE Leaves(a)
  BY <1>1, LeavesOnce
     DEF CheckAndCleanup, LooksForPosition, FindsReason, ReadsOrders, Cancels, ClosesTrade, Resumes, marketState
<1>2. ASSUME NEW at \in {"reason", "orders", "close", "resume"}, Turns(a, at), UNCHANGED lot PROVE EntryInv'
  BY <1>2, TurnsOnce DEF Places, Executing
<1>3. CASE ReadsOrders(a)
  <2>1. CASE call' = [call EXCEPT ![a].at = "cancel", ![a].seen = brackets]
    <3>1. (\A b \in Activations \ {a} : call'[b] = call[b]) /\ call'[a].at = "cancel"
      BY <2>1 DEF ThorTyped, ActivationRecord
    <3> QED BY <1>3, <3>1, MovesOnce DEF ReadsOrders, marketState, Executing
  <2> QED BY <1>2, <1>3, <2>1 DEF ReadsOrders, marketState
<1>4. CASE Cancels(a)
  <2>1. ASSUME NEW o, call' = [call EXCEPT ![a].seen = @ \ {o}] PROVE EntryInv'
    <3>1. (\A b \in Activations \ {a} : call'[b] = call[b]) /\ call'[a].at = "cancel"
      BY <1>4, <2>1 DEF ThorTyped, ActivationRecord, Cancels, In
    <3> QED BY <1>4, <3>1, MovesOnce DEF Cancels, Executing
  <2> QED BY <1>2, <1>4, <2>1 DEF Cancels
<1> QED BY <1>1, <1>2, <1>3, <1>4
     DEF CheckAndCleanup, LooksForPosition, FindsReason, ClosesTrade, Resumes, marketState

LEMMA TickerOnce ==
  ASSUME OneExecutes', ThorTyped, EntryInv, NEW a \in Activations, OnTicker(a)
  PROVE  EntryInv'
<1>1. UNCHANGED lot
  BY DEF OnTicker, marketState
<1>2. CASE UNCHANGED call
  BY <1>1, <1>2, MovesOnce
<1>3. CASE call' = [call EXCEPT ![a] = [NoActivation EXCEPT !.at = "positions", !.trade = thor.trade]]
  <2>1. [NoActivation EXCEPT !.at = "positions", !.trade = thor.trade].at = "positions"
    BY DEF NoActivation
  <2>2. (\A b \in Activations \ {a} : call'[b] = call[b]) /\ call'[a].at = "positions"
    BY <1>3, <2>1 DEF ThorTyped
  <2> QED BY <1>1, <2>2, MovesOnce DEF Executing
<1>4. CASE Turns(a, "check")
  <2>1. /\ \A b \in Activations \ {a} : call'[b] = call[b]
        /\ call'[a] = [call[a] EXCEPT !.at = "check"]
    BY <1>4, TurnsMoves DEF Places, Executing
  <2>2. call'[a].at = "check"
    BY <2>1, CallTyped DEF ActivationRecord
  <2>4. EntersFlat'
    BY <1>1, <2>1, <2>2 DEF EntryInv, EntersFlat, Flat
  <2>5. OneEntry'
    BY <1>1 DEF EntryInv, OneEntry
  <2> QED BY <2>4, <2>5 DEF EntryInv
<1> QED BY <1>2, <1>3, <1>4 DEF OnTicker

LEMMA EntryInvStep ==
  ASSUME ~overlapped', ThorTyped, EntryInv, [ThorNext]_thorVars
  PROVE  EntryInv'
<1>4. ThorNext => OneExecutes'
  BY DEF ThorNext, Twice, OneExecutes
<1>1. CASE UNCHANGED <<lot, call>>
  BY <1>1 DEF EntryInv, OneExecutes, EntersFlat, OneEntry, Flat
<1>2. CASE LotCloses
  BY <1>2 DEF LotCloses, ThorTyped, EntryInv, OneExecutes, EntersFlat, OneEntry, Flat
<1>3. CASE ThorCrash
  BY <1>3 DEF ThorCrash, marketState, NoActivation, Executing, EntryInv, OneExecutes, EntersFlat, OneEntry
<1> QED BY <1>1, <1>2, <1>3, <1>4, TickerOnce, ExecuteOnce, CleanupOnce
     DEF ThorNext, thorVars, marketState, Initialize

(* An activation enters only after it found the account flat, so that a    *)
(* position is doubled only when an executeTrade outlasts its candle and   *)
(* the next one begins: restarts, lost answers and clean-ups do not.       *)
THEOREM EntersOnce == ThorSpec => []ThorNeverDoubled
<1> DEFINE Inv == ~overlapped => EntryInv
<1>1. ThorInit => Inv
  BY DEF ThorInit, EntryInv, OneExecutes, EntersFlat, OneEntry, NoActivation, Executing
<1>2. ThorTyped /\ Inv /\ [ThorNext]_thorVars => Inv'
  BY EntryInvStep DEF ThorNext, thorVars
<1>3. RecordInv => ThorTyped
  BY DEF RecordInv
<1>4. ThorTyped /\ Inv => ThorNeverDoubled
  BY DEF EntryInv, OneEntry, ThorNeverDoubled, ThorTyped
<1> QED BY <1>1, <1>2, <1>3, <1>4, RecordInvAlways, PTL DEF ThorSpec

-----------------------------------------------------------------------------
(* Candles *)

CandlesSpec == CandlesInit /\ [][CandlesNext]_candleVars

LastOf(s) == s[Len(s)]
(* The newest sample is not newer than the newest close, and older once a  *)
(* minute has begun since.                                                 *)
ClosesInv ==
  /\ closes \in Seq(Nat) /\ numbered \in Nat /\ forming \in {0, numbered}
  /\ opened \in Nat /\ minute \in Nat \ {0}
  /\ closes # <<>> => LastOf(closes) <= numbered /\ (forming # 0 => LastOf(closes) < forming)
GroupsInv ==
  /\ grouped \in Seq(Nat) /\ GroupsRise
  /\ grouped # <<>> =>
       /\ closes # <<>> /\ forming # 0 /\ sampled \in Nat \ {0} /\ sampled <= opened
       /\ LastOf(grouped) <= LastOf(closes) /\ (sampled < opened => LastOf(grouped) < LastOf(closes))
CandlesInv == ClosesInv /\ GroupsInv

(* The latest elements are those after some index. *)
LEMMA LatestOf ==
  ASSUME NEW S, NEW s \in Seq(S), NEW n \in Nat
  PROVE  /\ Latest(s, n) \in Seq(S)
         /\ \E k \in 0..Len(s) : /\ Len(Latest(s, n)) = Len(s) - k
                                 /\ \A i \in 1..(Len(s) - k) : Latest(s, n)[i] = s[i + k]
<1> DEFINE k == IF Len(s) > n THEN Len(s) - n ELSE 0
<1>1. k \in 0..Len(s) /\ Latest(s, n) = SubSeq(s, k + 1, Len(s))
  BY DEF Latest
<1> HIDE DEF k
<1>2. \A i \in (k + 1)..Len(s) : s[i] \in S
  BY <1>1
<1>3. /\ SubSeq(s, k + 1, Len(s)) \in Seq(S)
      /\ Len(SubSeq(s, k + 1, Len(s))) = IF k + 1 <= Len(s) THEN Len(s) - (k + 1) + 1 ELSE 0
      /\ \A i \in 1..(Len(s) - (k + 1) + 1) : SubSeq(s, k + 1, Len(s))[i] = s[k + 1 + i - 1]
  <2>1. k + 1 \in Int /\ Len(s) \in Int
    BY <1>1
  <2> QED BY <1>2, <2>1, SubSeqProperties
<1>4. Len(Latest(s, n)) = Len(s) - k
  BY <1>1, <1>3
<1>5. ASSUME NEW i \in 1..(Len(s) - k) PROVE Latest(s, n)[i] = s[i + k]
  <2>1. i \in 1..(Len(s) - (k + 1) + 1) /\ k + 1 + i - 1 = i + k
    BY <1>1
  <2> QED BY <1>1, <1>3, <2>1
<1> QED BY <1>1, <1>3, <1>4, <1>5

LEMMA LatestAppended ==
  ASSUME NEW s \in Seq(Nat), NEW c \in Nat, NEW n \in Nat,
         \A i, j \in DOMAIN s : i < j => s[i] < s[j],
         s # <<>> => LastOf(s) < c
  PROVE  LET t == Latest(Append(s, c), n)
         IN /\ t \in Seq(Nat) /\ \A i, j \in DOMAIN t : i < j => t[i] < t[j]
            /\ t # <<>> => LastOf(t) = c
<1> DEFINE a == Append(s, c)
<1> DEFINE t == Latest(a, n)
<1>1. /\ a \in Seq(Nat) /\ Len(a) = Len(s) + 1 /\ \A i \in 1..Len(s) : a[i] = s[i]
      /\ a[Len(s) + 1] = c
  BY AppendProperties
<1>2. \A i, j \in 1..Len(a) : i < j => a[i] < a[j]
  <2> SUFFICES ASSUME NEW i \in 1..Len(a), NEW j \in 1..Len(a), i < j PROVE a[i] < a[j]
    OBVIOUS
  <2>1. CASE j \in 1..Len(s)
    BY <1>1, <2>1
  <2>2. CASE j = Len(s) + 1
    <3>1. i \in 1..Len(s) /\ s[i] \in Nat /\ s # <<>> /\ Len(s) \in 1..Len(s)
      BY <1>1, <2>2
    <3>2. s[Len(s)] < c /\ (i < Len(s) => s[i] < s[Len(s)]) /\ s[Len(s)] \in Nat
      BY <3>1 DEF LastOf
    <3> QED BY <1>1, <2>2, <3>1, <3>2
  <2> QED BY SMTT(30), <1>1, <2>1, <2>2
<1> HIDE DEF a
<1>3. a \in Seq(Nat)
  BY <1>1
<1>4. t \in Seq(Nat) /\ \E k \in 0..Len(a) : Len(t) = Len(a) - k /\ \A i \in 1..(Len(a) - k) : t[i] = a[i + k]
  BY <1>3, LatestOf, Zenon
<1>7. PICK k \in 0..Len(a) : Len(t) = Len(a) - k /\ \A i \in 1..(Len(a) - k) : t[i] = a[i + k]
  BY <1>4
<1>8. t \in Seq(Nat) /\ DOMAIN t = 1..Len(t) /\ Len(t) \in Nat /\ (t # <<>> => Len(t) > 0)
  BY <1>4, LenProperties, EmptySeq
<1> HIDE DEF t
<1>5. \A i, j \in DOMAIN t : i < j => t[i] < t[j]
  <2> SUFFICES ASSUME NEW i \in 1..Len(t), NEW j \in 1..Len(t), i < j PROVE t[i] < t[j]
    BY <1>8
  <2>1. i + k \in 1..Len(a) /\ j + k \in 1..Len(a) /\ i + k < j + k
    BY <1>1, <1>7
  <2> QED BY <1>2, <1>7, <2>1
<1>6. t # <<>> => LastOf(t) = c
  <2> SUFFICES ASSUME t # <<>> PROVE t[Len(t)] = c
    BY DEF LastOf
  <2>1. Len(t) \in 1..(Len(a) - k) /\ Len(t) + k = Len(s) + 1
    BY <1>1, <1>7, <1>8
  <2> QED BY <1>1, <1>7, <2>1
<1> QED BY <1>8, <1>5, <1>6 DEF a, t

(* A close that is appended is the newest, dropped or not what was first.  *)
LEMMA AppendedOf ==
  ASSUME NEW s \in Seq(Nat), forming \in Nat, NEW over
  PROVE  LET t == Appended(s, over)
         IN t \in Seq(Nat) /\ (s # <<>> => t # <<>>) /\ (t # <<>> => LastOf(t) = forming)
<1> DEFINE a == Append(s, forming)
<1>1. /\ a \in Seq(Nat) /\ a # <<>> /\ Len(a) = Len(s) + 1 /\ a[Len(s) + 1] = forming
  BY AppendProperties
<1> HIDE DEF a
<1>2. Tail(a) \in Seq(Nat) /\ Len(Tail(a)) = Len(a) - 1 /\ \A i \in 1..Len(Tail(a)) : Tail(a)[i] = a[i + 1]
  BY <1>1, HeadTailProperties
<1>3. Tail(a) # <<>> => LastOf(Tail(a)) = forming
  <2> SUFFICES ASSUME Tail(a) # <<>> PROVE Tail(a)[Len(Tail(a))] = forming
    BY DEF LastOf
  <2>1. Len(Tail(a)) \in 1..Len(Tail(a)) /\ Len(Tail(a)) = Len(s)
    BY <1>1, <1>2
  <2> QED BY <1>1, <1>2, <2>1
<1>4. s # <<>> => Tail(a) # <<>>
  <2>1. s # <<>> => Len(s) # 0
    BY EmptySeq
  <2>2. Tail(a) = <<>> => Len(Tail(a)) = 0
    BY EmptySeq
  <2> QED BY <1>1, <1>2, <2>1, <2>2
<1>5. Appended(s, over) = IF over THEN Tail(a) ELSE a
  BY DEF Appended, a
<1>6. LastOf(a) = forming
  BY <1>1 DEF LastOf
<1> QED BY <1>1, <1>2, <1>3, <1>4, <1>5, <1>6

(* What a tick does to the closes, before the groups are looked at. *)
LEMMA TickCloses ==
  ASSUME ClosesInv, TickWithin \/ TickAfter
  PROVE  /\ ClosesInv' /\ forming' # 0 /\ opened <= minute /\ opened' = minute /\ minute' = minute
         /\ forming # 0 /\ closes # <<>> =>
              closes' # <<>> /\ ((closes' = closes /\ opened = minute) \/ LastOf(closes) < LastOf(closes'))
<1> USE DEF ClosesInv
<1>0. closes # <<>> => LastOf(closes) \in Nat
  BY DEF LastOf
<1>1. CASE TickWithin
  <2>1. closes' = closes /\ LastOf(closes)' = LastOf(closes)
    BY <1>1 DEF TickWithin, LastOf
  <2> QED BY <1>0, <1>1, <2>1 DEF TickWithin, Starts
<1>2. CASE TickAfter /\ forming = 0
  <2>1. closes' = closes /\ LastOf(closes)' = LastOf(closes)
    BY <1>2 DEF TickAfter, LastOf
  <2> QED BY <1>0, <1>2, <2>1 DEF TickAfter, Starts
<1>3. CASE TickAfter /\ forming # 0
  <2>1. PICK over : closes' = Appended(closes, over)
    BY <1>3 DEF TickAfter, CloseCandle
  <2>2. /\ forming' = numbered + 1 /\ numbered' = numbered + 1 /\ opened' = minute /\ minute' = minute
    BY <1>3 DEF TickAfter, Starts
  <2>3. closes' \in Seq(Nat) /\ (closes # <<>> => closes' # <<>>) /\ (closes' # <<>> => LastOf(closes') = forming)
    BY <2>1, AppendedOf
  <2>4. opened <= minute
    BY <1>3 DEF TickAfter
  <2> QED BY <1>3, <2>2, <2>3, <2>4
<1> QED BY <1>1, <1>2, <1>3

LEMMA TickGroups ==
  ASSUME ClosesInv, GroupsInv, TickWithin \/ TickAfter
  PROVE  GroupsInv'
<1>1. /\ ClosesInv' /\ forming' # 0 /\ opened <= minute /\ opened' = minute
      /\ forming # 0 /\ closes # <<>> =>
           closes' # <<>> /\ ((closes' = closes /\ opened = minute) \/ LastOf(closes) < LastOf(closes'))
  BY TickCloses
<1> DEFINE last == IF sampled = 0 THEN (minute \div Group) * Group ELSE sampled
           due == minute - last >= Group /\ Len(closes') >= Group
<1>2. \/ UNCHANGED <<grouped, sampled>>
      \/ /\ grouped' = (IF due THEN Latest(Append(grouped, LastOf(closes')), KeepLimit) ELSE grouped)
         /\ sampled' = (IF due THEN minute ELSE last)
  BY DEF TickWithin, TickAfter, UpdateGroups, LastOf
<1>3. closes' # <<>> => LastOf(closes') \in Nat
  BY <1>1 DEF ClosesInv, LastOf
<1>4. closes # <<>> => LastOf(closes) \in Nat
  BY DEF ClosesInv, LastOf
<1>5. grouped # <<>> => LastOf(grouped) \in Nat
  BY DEF GroupsInv, LastOf
<1>6. CASE grouped' = grouped /\ (grouped # <<>> => sampled' = sampled)
  <2>1. GroupsRise'
    BY <1>6 DEF GroupsRise, GroupsInv
  <2>2. LastOf(grouped') = LastOf(grouped) /\ (closes' = closes => LastOf(closes') = LastOf(closes))
    BY <1>6
  <2>3. opened' \in Nat /\ opened \in Nat /\ minute \in Nat
    BY <1>1 DEF ClosesInv
  <2> QED BY <1>1, <1>3, <1>4, <1>5, <1>6, <2>1, <2>2, <2>3 DEF GroupsInv
<1>7. ASSUME due, grouped' = Latest(Append(grouped, LastOf(closes')), KeepLimit), sampled' = minute
      PROVE  GroupsInv'
  <2>1. closes' # <<>>
    BY <1>1, <1>7, CandlesAssumption DEF ClosesInv
  <2>2. grouped # <<>> => LastOf(grouped) < LastOf(closes')
    <3>1. sampled # 0 /\ sampled \in Nat => last = sampled
      OBVIOUS
    <3>2. grouped # <<>> /\ closes' = closes /\ opened = minute => sampled < opened
      BY <1>7, <3>1, CandlesAssumption DEF GroupsInv, ClosesInv
    <3> QED BY <1>1, <1>3, <1>4, <1>5, <3>2 DEF GroupsInv
  <2>3. /\ grouped' \in Seq(Nat) /\ \A i, j \in DOMAIN grouped' : i < j => grouped'[i] < grouped'[j]
        /\ grouped' # <<>> => LastOf(grouped') = LastOf(closes')
    BY <1>3, <1>7, <2>1, <2>2, LatestAppended, CandlesAssumption DEF GroupsInv, GroupsRise
  <2> QED BY <1>1, <1>3, <1>7, <2>1, <2>3 DEF GroupsInv, GroupsRise, ClosesInv
<1>8. grouped # <<>> => last = sampled
  BY DEF GroupsInv
<1> HIDE DEF last, due
<1> QED BY <1>2, <1>6, <1>7, <1>8

LEMMA CandlesInvInit == CandlesInit => CandlesInv
<1> SUFFICES ASSUME CandlesInit PROVE CandlesInv
  OBVIOUS
<1>1. closes \in Seq(Nat)
  <2>1. \A n \in Nat : UpTo(n) \in Seq(Nat)
    BY DEF UpTo
  <2>2. \A n, k \in Nat : Latest(UpTo(n), k) \in Seq(Nat)
    BY <2>1, LatestOf, Zenon
  <2>3. LoadLimit \in Nat /\ \A n \in Offered : n \in Nat
    BY CandlesAssumption
  <2>4. MockCandles \in Seq(Nat)
    BY <2>1, <2>3 DEF MockCandles
  <2> QED BY <2>2, <2>3, <2>4 DEF CandlesInit
<1>2. minute \in Nat \ {0}
  BY CandlesAssumption DEF CandlesInit
<1>3. closes # <<>> => closes[Len(closes)] \in Nat
  BY <1>1
<1> QED BY <1>1, <1>2, <1>3 DEF CandlesInit, CandlesInv, ClosesInv, GroupsInv, GroupsRise, LastOf

LEMMA CandlesInvStep == CandlesInv /\ [CandlesNext]_candleVars => CandlesInv'
<1> SUFFICES ASSUME CandlesInv, [CandlesNext]_candleVars PROVE CandlesInv'
  OBVIOUS
<1>1. CASE TickWithin \/ TickAfter
  BY <1>1, TickCloses, TickGroups DEF CandlesInv
<1>2. CASE TimePasses \/ DoingChanges \/ UNCHANGED candleVars
  <2>1. UNCHANGED <<closes, numbered, forming, opened, grouped, sampled>>
    BY <1>2 DEF TimePasses, DoingChanges, candleVars
  <2>2. minute \in Nat \ {0} /\ (minute' = minute \/ \E k \in 1..MaxPause : minute' = minute + k)
    BY <1>2 DEF TimePasses, DoingChanges, candleVars, CandlesInv, ClosesInv
  <2>3. minute' \in Nat \ {0}
    BY <2>2, CandlesAssumption
  <2>4. ClosesInv'
    BY <2>1, <2>3 DEF CandlesInv, ClosesInv
  <2>5. GroupsInv'
    BY <2>1 DEF CandlesInv, GroupsInv, GroupsRise
  <2> QED BY <2>4, <2>5 DEF CandlesInv
<1> QED BY <1>1, <1>2 DEF CandlesNext

(* No candle counts twice in the trend of the longer timeframe, whatever   *)
(* pauses the ticks make: a sample is Group minutes after the last, and    *)
(* between two minutes in which ticks came a candle has closed.            *)
THEOREM TimeframeRises == CandlesSpec => []GroupsRise
<1>1. CandlesInv => GroupsRise
  BY DEF CandlesInv, GroupsInv
<1> QED BY <1>1, CandlesInvInit, CandlesInvStep, PTL DEF CandlesSpec

-----------------------------------------------------------------------------
MostKept == IF LoadLimit < KeepLimit THEN KeepLimit ELSE LoadLimit

(* All three histories are cut by the length of the closes: highs and lows *)
(* have to stay no longer than those.                                      *)
HistoryInv ==
  /\ Len(closes) <= MostKept
  /\ \A h \in {highs, lows} : h \in Seq(Nat) /\ Len(h) <= Len(closes)

LEMMA LatestLength ==
  ASSUME NEW s \in Seq(Nat), NEW n \in Nat
  PROVE  Latest(s, n) \in Seq(Nat) /\ Len(Latest(s, n)) <= n
<1> DEFINE k == IF Len(s) > n THEN Len(s) - n + 1 ELSE 1
<1>1. k \in Int /\ Len(s) \in Int /\ \A i \in k..Len(s) : s[i] \in Nat
  OBVIOUS
<1>2. Latest(s, n) = SubSeq(s, k, Len(s))
  BY DEF Latest
<1>3. IF k <= Len(s) THEN Len(s) - k + 1 <= n ELSE 0 <= n
  OBVIOUS
<1> HIDE DEF k
<1> QED BY <1>1, <1>2, <1>3, SubSeqProperties

LEMMA AppendedLength ==
  ASSUME NEW s \in Seq(Nat), forming \in Nat, NEW over \in BOOLEAN
  PROVE  /\ Appended(s, over) \in Seq(Nat)
         /\ Len(Appended(s, over)) = IF over THEN Len(s) ELSE Len(s) + 1
<1> DEFINE a == Append(s, forming)
<1>1. a \in Seq(Nat) /\ a # <<>> /\ Len(a) = Len(s) + 1
  BY AppendProperties
<1>2. Appended(s, over) = IF over THEN Tail(a) ELSE a
  BY DEF Appended
<1> HIDE DEF a
<1>3. Tail(a) \in Seq(Nat) /\ Len(Tail(a)) = Len(a) - 1
  BY <1>1, HeadTailProperties
<1> QED BY <1>1, <1>2, <1>3

LEMMA HistoryInvInit == CandlesInit => HistoryInv
<1> SUFFICES ASSUME CandlesInit PROVE HistoryInv
  OBVIOUS
<1>1. LoadLimit \in Nat /\ KeepLimit \in Nat /\ \A n \in Offered : n \in Nat
  BY CandlesAssumption
<1>2. \A n \in Nat : UpTo(n) \in Seq(Nat) /\ Len(UpTo(n)) = n
  BY DEF UpTo
<1>3. closes \in Seq(Nat) /\ Len(closes) <= LoadLimit
  <2>1. ASSUME NEW n \in Offered, closes = Latest(UpTo(n), LoadLimit)
        PROVE  closes \in Seq(Nat) /\ Len(closes) <= LoadLimit
    BY <1>1, <1>2, <2>1, LatestLength
  <2>2. MockCandles \in Seq(Nat) /\ Len(MockCandles) <= LoadLimit
    BY <1>1, <1>2 DEF MockCandles
  <2> QED BY <2>1, <2>2 DEF CandlesInit
<1>4. highs \in {<<>>, closes} /\ lows = highs
  BY DEF CandlesInit
<1>5. <<>> \in Seq(Nat) /\ Len(<<>>) = 0
  OBVIOUS
<1>6. Len(closes) \in Nat /\ Len(closes) <= MostKept
  BY <1>1, <1>3 DEF MostKept
<1>7. highs \in Seq(Nat) /\ Len(highs) <= Len(closes)
  <2>1. CASE highs = <<>>
    BY <1>5, <1>6, <2>1
  <2>2. CASE highs = closes
    BY <1>3, <1>6, <2>2
  <2> QED BY <1>4, <2>1, <2>2
<1> QED BY <1>4, <1>6, <1>7 DEF HistoryInv

LEMMA HistoryInvStep ==
  ASSUME CandlesInv, HistoryInv, [CandlesNext]_candleVars
  PROVE  HistoryInv'
<1>1. closes \in Seq(Nat) /\ forming \in Nat /\ KeepLimit \in Nat /\ LoadLimit \in Nat
  BY CandlesAssumption DEF CandlesInv, ClosesInv
<1>2. CASE UNCHANGED <<closes, highs, lows>>
  BY <1>2 DEF HistoryInv
<1>3. CASE CloseCandle
  <2> DEFINE over == Len(closes) + 1 > KeepLimit
  <2>1. closes' = Appended(closes, over) /\ highs' = Appended(highs, over) /\ lows' = Appended(lows, over)
    BY <1>3 DEF CloseCandle
  <2>2. over \in BOOLEAN
    OBVIOUS
  <2>3. ~over => Len(closes) + 1 <= MostKept
    BY <1>1 DEF MostKept
  <2> HIDE DEF over
  <2>4. Len(closes') <= MostKept
    BY <1>1, <2>1, <2>2, <2>3, AppendedLength DEF HistoryInv
  <2>5. ASSUME NEW h \in {highs, lows}
        PROVE  Appended(h, over) \in Seq(Nat) /\ Len(Appended(h, over)) <= Len(closes')
    <3>1. h \in Seq(Nat) /\ Len(h) <= Len(closes)
      BY DEF HistoryInv
    <3>2. /\ Appended(h, over) \in Seq(Nat)
          /\ Len(Appended(h, over)) = IF over THEN Len(h) ELSE Len(h) + 1
      BY <1>1, <2>2, <3>1, AppendedLength
    <3>3. Len(closes') = IF over THEN Len(closes) ELSE Len(closes) + 1
      BY <1>1, <2>1, <2>2, AppendedLength
    <3>4. Len(h) \in Nat /\ Len(closes) \in Nat
      BY <1>1, <3>1
    <3> QED BY <3>1, <3>2, <3>3, <3>4
  <2> QED BY <2>1, <2>4, <2>5 DEF HistoryInv
<1> QED BY <1>2, <1>3 DEF CandlesNext, TickWithin, TickAfter, TimePasses, DoingChanges, candleVars

(* No history grows without bound, however many candles were loaded and    *)
(* however long the executor runs.                                         *)
THEOREM HistoriesStayShort == CandlesSpec => []HistoryBounded
<1>1. HistoryInv /\ CandlesInv => HistoryBounded
  BY CandlesAssumption DEF HistoryInv, HistoryBounded, MostKept, CandlesInv, ClosesInv
<1> QED
  BY <1>1, CandlesInvInit, CandlesInvStep, HistoryInvInit, HistoryInvStep, PTL DEF CandlesSpec

===============================================================================
