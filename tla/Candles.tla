-------------------------------- MODULE Candles -------------------------------
(***************************************************************************)
(* The candles of an executor (razor-executor.ts: initializeHistoricalData,*)
(* onTicker, update5mCandles; thor-executor.ts: initialize, onTicker) from *)
(* the ticks of the exchange, which may pause, and the candles the worker  *)
(* aggregates.  A candle is its number; time is counted in candles.        *)
(*                                                                         *)
(* Razor keeps closes, highs and lows apart and loads only closes; Thor    *)
(* keeps whole candles.  While a position is open no tick is looked at; in *)
(* the cooldown after a trade candles close, but nothing is calculated.    *)
(***************************************************************************)
EXTENDS Naturals, Sequences

CONSTANTS
  Offered,    (* candles the exchange may return, or mock ones             *)
  LoadLimit,  (* closes kept of them, in the code 150 (Thor 200)           *)
  KeepLimit,  (* length from which the oldest is dropped: 100 (Thor 300)   *)
  Enough,     (* closes before the indicators are calculated: 5            *)
  Group,      (* minutes of the longer timeframe: 5 (and 15)               *)
  MaxMinutes, MaxPause (* bounds on time, and on the time without a tick   *)
ASSUME CandlesAssumption ==
  /\ Offered \subseteq Nat
  /\ {LoadLimit, KeepLimit, Enough, Group, MaxMinutes, MaxPause} \subseteq Nat /\ Group > 0

VARIABLES
  executorOf, (* "razor" or "thor"                                         *)
  closes, highs, lows, (* priceHistory, highHistory, lowHistory            *)
  forming,    (* currentCandle, 0: none                                    *)
  opened,     (* candleStartTime                                           *)
  numbered,   (* candles there have been                                   *)
  minute,     (* the time                                                  *)
  grouped, sampled, (* candles5m; last5mCandleTime, in minutes, 0: unset    *)
  doing       (* analyzing, in cooldown, or position open                  *)
candleVars == <<executorOf, closes, highs, lows, forming, opened, numbered, minute, grouped, sampled, doing>>

Razor == executorOf = "razor"
Latest(s, n) == SubSeq(s, IF Len(s) > n THEN Len(s) - n + 1 ELSE 1, Len(s))
UpTo(n) == [i \in 1..n |-> i]

(* The history of the start; without an answer Razor makes up LoadLimit    *)
(* closes and Thor goes on without.                                        *)
MockCandles == IF Razor THEN UpTo(LoadLimit) ELSE <<>>
CandlesInit ==
  /\ executorOf \in {"razor", "thor"}
  /\ \/ \E n \in Offered : closes = Latest(UpTo(n), LoadLimit)
     \/ closes = MockCandles
  /\ highs = (IF Razor THEN <<>> ELSE closes) /\ lows = highs
  /\ numbered = (IF closes = <<>> THEN 0 ELSE closes[Len(closes)])
  /\ forming = 0 /\ minute \in Group..(2 * Group - 1) /\ opened = minute
  /\ grouped = <<>> /\ sampled = 0 /\ doing = "analyzing"

(* A closed candle is appended, and above the limit the first one dropped: *)
(* of the three histories by the length of the closes alone.               *)
Appended(s, over) == IF over THEN Tail(Append(s, forming)) ELSE Append(s, forming)
CloseCandle ==
  LET over == Len(closes) + 1 > KeepLimit
  IN /\ closes' = Appended(closes, over)
     /\ highs' = Appended(highs, over) /\ lows' = Appended(lows, over)

(* Mutant: the time of the last sample is not set. *)
UpdateGroupsAgain ==
  LET last == IF sampled = 0 THEN (minute \div Group) * Group ELSE sampled
      due == minute - last >= Group /\ Len(closes') >= Group
  IN IF ~Razor \/ doing = "cooldown" \/ Len(closes') < Enough THEN UNCHANGED <<grouped, sampled>>
     ELSE /\ grouped' = (IF due THEN Latest(Append(grouped, closes'[Len(closes')]), KeepLimit) ELSE grouped)
          /\ sampled' = last
(* update5mCandles, when the indicators are calculated: the newest close,  *)
(* Group minutes after the last one that was taken.                        *)
UpdateGroups ==
  LET last == IF sampled = 0 THEN (minute \div Group) * Group ELSE sampled
      due == minute - last >= Group /\ Len(closes') >= Group
  IN IF ~Razor \/ doing = "cooldown" \/ Len(closes') < Enough THEN UNCHANGED <<grouped, sampled>>
     ELSE /\ grouped' = (IF due THEN Latest(Append(grouped, closes'[Len(closes')]), KeepLimit) ELSE grouped)
          /\ sampled' = (IF due THEN minute ELSE last)

Starts == forming' = numbered + 1 /\ numbered' = numbered + 1
(* onTicker: a tick in the running candle, or the first one after its end. *)
TickWithin ==
  /\ doing # "position" /\ minute = opened
  /\ IF forming = 0 THEN Starts ELSE UNCHANGED <<forming, numbered>>
  /\ UNCHANGED <<closes, highs, lows>> /\ UpdateGroups
  /\ UNCHANGED <<executorOf, opened, minute, doing>>
TickAfter ==
  /\ doing # "position" /\ minute > opened /\ opened' = minute /\ Starts
  /\ IF forming = 0 THEN UNCHANGED <<closes, highs, lows>> ELSE CloseCandle
  /\ UpdateGroups /\ UNCHANGED <<executorOf, minute, doing>>
TimePasses ==
  /\ \E k \in 1..MaxPause : minute' = minute + k /\ minute + k <= MaxMinutes
  /\ UNCHANGED <<executorOf, closes, highs, lows, forming, opened, numbered, grouped, sampled, doing>>
DoingChanges ==
  /\ doing' \in {"analyzing", "cooldown", "position"} \ {doing}
  /\ UNCHANGED <<executorOf, closes, highs, lows, forming, opened, numbered, minute, grouped, sampled>>
CandlesNext == TickWithin \/ TickAfter \/ TimePasses \/ DoingChanges

-----------------------------------------------------------------------------
(* CandleAggregator: candles of n minutes from the oldest on; the last one *)
(* may be incomplete.  A candle is the set of those it is made of.         *)
AddCandle(s, c, most) == Latest(Append(s, c), most)
AggregateCandles(s, n) ==
  [i \in 1..((Len(s) + n - 1) \div n) |-> {s[j] : j \in {k \in DOMAIN s : (k - 1) \div n = i - 1}}]
GetCandles(s, n, limit) == Latest(IF n = 1 THEN [i \in DOMAIN s |-> {s[i]}] ELSE AggregateCandles(s, n), limit)

-----------------------------------------------------------------------------
(* No candle counts twice in the trend of the longer timeframe, whatever   *)
(* pauses the ticks make and however long a position is open.              *)
GroupsRise == \A i, j \in DOMAIN grouped : i < j => grouped[i] < grouped[j]

(* Neither history grows without bound. *)
HistoryBounded == \A h \in {closes, highs, lows} : Len(h) <= (IF LoadLimit < KeepLimit THEN KeepLimit ELSE LoadLimit)

(* Highs and lows are those of the closes beside them.  It does not hold   *)
(* for Razor: with a loaded history they are dropped as soon as they come. *)
HistoriesAligned == highs = closes /\ lows = closes

=============================================================================
