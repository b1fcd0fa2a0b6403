-------------------------------- MODULE Signals -------------------------------
(***************************************************************************)
(* What the strategies decide from their indicators, and what they show of *)
(* it: Razor (analyzeEntry), Thor (analyzeSignal), the engine of the       *)
(* worker (evaluate), the browser's Razor (generateMicroSignal) and its    *)
(* scalper (generateSignal).                                               *)
(*                                                                         *)
(* A reading holds what the decision tells apart: for Razor also that of a *)
(* short series of closes (with shorter periods).  Scores are the code's,  *)
(* those of the engine doubled; percentages are whole numbers of the unit  *)
(* that is named.  Reasons, wording and target prices are left out.        *)
(***************************************************************************)
EXTENDS Indicators, FiniteSets

CONSTANTS
  ClosePrices, MaxCloses,          (* the series: prices, longest           *)
  Period, FastPeriod, SlowPeriod,  (* periods of the indicators             *)
  MomentumSpan, WarmUp, Window     (* in the code 5, 20 and 10              *)
ASSUME SignalsAssumption ==
  /\ ClosePrices \subseteq Nat \ {0}
  /\ {MaxCloses, Period, FastPeriod, SlowPeriod, MomentumSpan, WarmUp, Window} \subseteq Nat \ {0}

VARIABLES reading, verdict
signalVars == <<reading, verdict>>

Sides == {"long", "short"}
Other(side) == CASE side = "long" -> "short" [] side = "short" -> "long" [] OTHER -> side
Verdict(type, strength) == [type |-> type, strength |-> strength]
NoSignal == Verdict("none", 0)
Pending == Verdict("pending", 0)
Capped(x, most) == IF x < most THEN x ELSE most
(* The levels a relative strength is compared with, by side. *)
Beyond(rsi, low, high, side) == IF side = "long" THEN rsi < low ELSE rsi > high

-----------------------------------------------------------------------------
(* Razor: two scores.  trend is the sign of fast minus slow, gap whether   *)
(* they are more than 0.02 % apart, move the sign of the momentum;         *)
(* alignment is 0 without multiple timeframes, pullback is FALSE only with *)
(* the advanced filters.                                                   *)
Oversold == 40
Overbought == 60
Threshold == 58

RsiScore(r, side) ==
  IF ~Beyond(r.rsi, Oversold, Overbought, side) THEN 0
  ELSE Capped(35 + (IF side = "long" THEN Oversold - r.rsi ELSE r.rsi - Overbought), 48)
       + (IF r.trend = side THEN 20 ELSE 5)
AlignmentScore(r, side) ==
  LET aligned == IF side = "long" THEN r.alignment ELSE -r.alignment
  IN CASE aligned = 3 -> 10 [] aligned = 2 -> 6 [] OTHER -> 0
GatedByPullback(r, score) ==
  CASE r.pullback = "ready" -> score + 5
    [] r.pullback = "gated" -> (IF score < 5 THEN 0 ELSE score - 5)
    [] OTHER -> score
Collected(r, side) ==
  GatedByPullback(r, (IF r.volatility = "sweet" THEN 8 ELSE 0) + RsiScore(r, side) + (IF r.move = side THEN 15 ELSE 0)
                     + (IF r.atrInBand THEN 6 ELSE 0) + AlignmentScore(r, side))
  + (IF r.squeezed THEN 4 ELSE 0)

(* Mutant: the bonus is added to every score. *)
CrossBonusAlways(r, side) == IF r.gap /\ r.trend = side THEN 25 ELSE 0
CrossBonus(r, side) ==
  IF r.gap /\ r.trend = side /\ \A s \in Sides : Collected(r, s) < 20 THEN 25 ELSE 0
Score(r, side) == Collected(r, side) + CrossBonus(r, side)

AnalyzeEntry(r) ==
  LET best == IF Score(r, "long") > Score(r, "short") THEN "long" ELSE "short"
      won == Score(r, best) # Score(r, Other(best)) /\ Score(r, best) >= Threshold
  IN IF r.limit \/ r.volatility \in {"low", "high"} THEN NoSignal
     ELSE IF won THEN Verdict(best, Capped(Score(r, best), 100)) ELSE Verdict("none", Score(r, best))

(* updateCheckpoints: those that are shown as met. *)
Checkpoints(r) ==
  {"strategy_active", "feature_flags"}
  \cup (IF r.volatility \in {"low", "high"} THEN {} ELSE {"volatility"})
  \cup (IF \E s \in Sides : Beyond(r.rsi, Oversold, Overbought, s) THEN {"rsi_extreme"} ELSE {})
  \cup (IF r.atrInBand THEN {"atr_band"} ELSE {}) \cup {"ema_trend"}
  \cup (IF r.alignment \in {-3, -2, 2, 3} THEN {"mtf_trend"} ELSE {})
  \cup (IF r.pullback = "ready" THEN {"pullback"} ELSE {}) \cup (IF r.move # "none" THEN {"momentum"} ELSE {})

(* calculateIndicators on a series, as right after the start: the highs,   *)
(* the lows and the longer timeframes are still missing.                   *)
TrendOf(s) ==
  LET fast == RazorEMA(s, FastPeriod)
      slow == RazorEMA(s, SlowPeriod)
  IN CASE Less(slow, fast) -> "long" [] Less(fast, slow) -> "short" [] OTHER -> "none"
GapOf(s) ==
  LET fast == RazorEMA(s, FastPeriod)
      slow == RazorEMA(s, SlowPeriod)
  IN Apart(fast[1] * slow[2], slow[1] * fast[2]) * 5000 > fast[1] * slow[2]
MoveOf(s) ==
  LET old == s[Len(s) - MomentumSpan + 1]
      move == (s[Len(s)] - old) * 2000
  IN IF Len(s) < MomentumSpan THEN "none"
     ELSE CASE move > old -> "long" [] move < -old -> "short" [] OTHER -> "none"
VolatilityOf(s) ==
  CASE Less(<<500, 1>>, Volatility(s)) -> "high"
    [] ~Less(Volatility(s), <<8, 1>>) /\ ~Less(<<60, 1>>, Volatility(s)) -> "sweet"
    [] OTHER -> "plain"
CalculateIndicators(s, multi, filters) ==
  LET ready == PullbackReady(s, WarmUp, Window, 15)
  IN [of |-> "razor", limit |-> FALSE, volatility |-> VolatilityOf(s), rsi |-> RazorRSI(s, Period),
      trend |-> TrendOf(s), gap |-> GapOf(s), move |-> MoveOf(s), atrInBand |-> FALSE, squeezed |-> FALSE,
      alignment |-> IF multi THEN (IF TrendOf(s) = "long" THEN 1 ELSE -1) ELSE 0,
      pullback |-> CASE ready = "ready" -> "ready" [] ready = "not" /\ filters -> "gated" [] OTHER -> "none"]

-----------------------------------------------------------------------------
(* Thor: an extreme on its side of the middle of the bands.                *)
AnalyzeSignal(r) ==
  LET type == CASE r.rsi <= 30 /\ r.place = "below" -> "long"
                [] r.rsi >= 70 /\ r.place = "above" -> "short"
                [] OTHER -> "none"
  IN IF r.limit \/ ~r.atrInBand \/ type = "none" THEN NoSignal ELSE Verdict(type, 70)

(* The engine: a rule votes, volume with half a vote and only to buy; six  *)
(* tenths of the rules decide.                                             *)
Votes(r, side) ==
  LET rules == CASE side = "long" -> {"oversold", "lower"} [] OTHER -> {"overbought", "upper"}
      signals == (IF r.trend = side THEN {"ema"} ELSE {}) \cup (rules \cap r.holds)
  IN 2 * Cardinality(signals \cap r.rules) + (IF side = "long" /\ "volume" \in r.rules \cap r.holds THEN 1 ELSE 0)
Evaluate(r) ==
  LET best == IF Votes(r, "long") > Votes(r, "short") THEN "long" ELSE "short"
      won == Votes(r, best) # Votes(r, Other(best)) /\ Votes(r, best) * 5 >= Cardinality(r.rules) * 6
  IN Verdict(IF won THEN best ELSE "none", Votes(r, best))

-----------------------------------------------------------------------------
(* The browser's Razor: momentum in hundredths of a percent, volume in     *)
(* tenths of its average, deviation from the middle in hundredths of a     *)
(* percent.                                                                *)
Bonus(x, steps) == IF \E p \in steps : x > p[1] THEN (CHOOSE p \in steps : x > p[1] /\ \A q \in steps : x > q[1] => q[2] <= p[2])[2] ELSE 0
CalculateConfidence(r, side) ==
  Capped(50 + Bonus(IF side = "long" THEN 100 - r.rsi ELSE r.rsi, {<<85, 25>>, <<80, 20>>, <<75, 15>>})
            + Bonus(r.deviation, {<<150, 15>>, <<100, 10>>, <<50, 5>>})
            + Bonus(r.spike, {<<20, 15>>, <<15, 10>>, <<12, 5>>})
            + Bonus(IF r.momentum < 0 THEN -r.momentum ELSE r.momentum, {<<30, 10>>, <<20, 7>>, <<10, 5>>}), 100)
Runs(r, side, x) == IF side = "long" THEN r.momentum < -x ELSE r.momentum > x

Reverts(r, side) == side \in r.touches /\ Beyond(r.rsi, 25, 75, side) /\ Runs(r, side, 10) /\ r.spike > 12
Aggressive(r, side) == r.wide /\ Beyond(r.rsi, 30, 70, side) /\ Runs(r, side, 5)
GenerateMicroSignal(r) ==
  LET reverting == {s \in Sides : Reverts(r, s)}
      aggressive == {s \in Sides : Aggressive(r, s)}
      side == CHOOSE s \in IF reverting # {} THEN reverting ELSE aggressive : TRUE
  IN CASE reverting # {} -> Verdict(side, CalculateConfidence(r, side))
       [] reverting = {} /\ aggressive # {} -> Verdict(side, (CalculateConfidence(r, side) * 9) \div 10)
       [] OTHER -> NoSignal
MechanicalCheckpoints(r) ==
  (IF r.touches # {} THEN {"price-bb"} ELSE {})
  \cup (IF \E s \in Sides : Beyond(r.rsi, 25, 75, s) THEN {"rsi-extreme"} ELSE {})
  \cup (IF r.spike > 12 THEN {"volume-spike"} ELSE {})
  \cup (IF \E s \in Sides : Runs(r, s, 10) THEN {"momentum"} ELSE {})

(* The scalper: strength of the cross in hundredths of a percent; the      *)
(* confidence in percent.                                                  *)
GenerateSignal(r) ==
  LET favours(side) == r.trend = side /\ r.cross > 5 /\ (IF side = "long" THEN 30 < r.rsi /\ r.rsi < 50 ELSE 50 < r.rsi /\ r.rsi < 70)
      side == CHOOSE s \in Sides : favours(s)
      confidence == 60 + r.cross + Apart(r.rsi, 50)
  IN IF r.cooldown \/ r.wideSpread \/ (\A s \in Sides : ~favours(s)) \/ confidence < 65 THEN NoSignal
     ELSE Verdict(side, confidence)

-----------------------------------------------------------------------------
Series == UNION {[1..n -> ClosePrices] : n \in 3..MaxCloses}
Strengths == {0, 17, 22, 27, 30, 35, 40, 45, 50}
BothWays(s) == s \cup {100 - x : x \in s}
RazorReadings ==
  [of : {"razor"}, limit : {FALSE}, volatility : {"sweet", "plain"}, rsi : BothWays({22, 35, 40}),
   trend : {"long", "short", "none"}, gap : BOOLEAN, move : {"long", "short", "none"}, atrInBand : BOOLEAN,
   alignment : {-3, -2, -1, 1, 2, 3}, pullback : {"none", "gated", "ready"}, squeezed : BOOLEAN]
  \cup [of : {"razor"}, limit : BOOLEAN, volatility : {"low", "high"}, rsi : {22, 78},
        trend : {"long", "short"}, gap : {TRUE}, move : {"none"}, atrInBand : {TRUE},
        alignment : {-3, 3}, pullback : {"ready"}, squeezed : {TRUE}]
SeriesReadings ==
  {CalculateIndicators(s, m, f) : s \in Series, m \in BOOLEAN, f \in BOOLEAN}
ThorReadings ==
  [of : {"thor"}, limit : BOOLEAN, atrInBand : BOOLEAN, rsi : BothWays(Strengths), place : {"below", "at", "above"}]
EngineReadings ==
  [of : {"engine"}, rules : SUBSET {"ema", "oversold", "overbought", "lower", "upper", "volume"},
   trend : {"long", "short", "none"},
   holds : {h \in SUBSET {"oversold", "overbought", "lower", "upper", "volume"} : ~({"oversold", "overbought"} \subseteq h)}]
MicroReadings ==
  [of : {"micro"}, touches : SUBSET Sides, rsi : BothWays(Strengths), spike : {12, 13, 21}, deviation : {40, 120},
   momentum : UNION {{-x, x} : x \in {0, 5, 7, 10, 15, 31}}, wide : BOOLEAN]
ScalperReadings ==
  [of : {"scalper"}, cooldown : BOOLEAN, wideSpread : BOOLEAN, trend : {"long", "short", "none"}, cross : {0, 5, 6, 40},
   rsi : BothWays(Strengths)]

Decide(r) ==
  CASE r.of = "razor" -> AnalyzeEntry(r)
    [] r.of = "thor" -> AnalyzeSignal(r)
    [] r.of = "engine" -> Evaluate(r)
    [] r.of = "micro" -> GenerateMicroSignal(r)
    [] r.of = "scalper" -> GenerateSignal(r)

Readings == RazorReadings \cup SeriesReadings \cup ThorReadings \cup EngineReadings \cup MicroReadings \cup ScalperReadings
SignalsInit == verdict = Pending /\ reading \in Readings
Decides == verdict = Pending /\ verdict' = Decide(reading) /\ UNCHANGED reading
SignalsNext == Decides

-----------------------------------------------------------------------------
(* Whatever adds up, Razor never enters without an extreme of the relative *)
(* strength in the direction of the trade, and never while a checkpoint    *)
(* the user is shown as a requirement (volatility, extreme) is not met; nor *)
(* does the browser's Razor trade against the reversion it looks for.      *)
SignalNeedsExtreme ==
  verdict.type \in Sides =>
    CASE reading.of = "razor" ->
           Beyond(reading.rsi, Oversold, Overbought, verdict.type) /\ {"volatility", "rsi_extreme"} \subseteq Checkpoints(reading)
      [] reading.of = "micro" -> Beyond(reading.rsi, 30, 70, verdict.type) /\ Runs(reading, verdict.type, 0)
      [] OTHER -> TRUE

(* Long and short are treated alike: the mirrored market gives the         *)
(* opposite signal, as strong.  (The engine's volume rule only buys.)      *)
Mirrored(r) ==
  CASE r.of = "razor" -> [r EXCEPT !.rsi = 100 - @, !.trend = Other(@), !.move = Other(@), !.alignment = -@]
    [] r.of = "thor" -> [r EXCEPT !.rsi = 100 - @, !.place = CASE @ = "below" -> "above" [] @ = "above" -> "below" [] OTHER -> @]
    [] r.of = "micro" -> [r EXCEPT !.rsi = 100 - @, !.touches = {Other(s) : s \in @}, !.momentum = -@]
    [] r.of = "scalper" -> [r EXCEPT !.rsi = 100 - @, !.trend = Other(@)]
    [] OTHER -> r
SignalsMirrored ==
  \A r \in Readings :
    LET given == Decide(r)
        mirror == Decide(Mirrored(r))
    IN mirror.type = (IF r.of = "engine" THEN given.type ELSE Other(given.type)) /\ mirror.strength = given.strength

(* The five versions of the relative strength agree on what they decide on. *)
StrengthsAgreeEverywhere == \A s \in Series : StrengthsAgree(s, Period)
EngineBandsFit == \A s \in Series : EngineBandsHold(s, 5)

(* A market that does not move gives no signal.  It does not hold for      *)
(* Razor with several timeframes: without a loss its relative strength is  *)
(* 100, an extreme, and equal averages count as a falling trend.           *)
FlatIsQuiet ==
  \A p \in ClosePrices, n \in 3..MaxCloses, a \in {0, -3} :
    AnalyzeEntry([CalculateIndicators([i \in 1..n |-> p], FALSE, FALSE) EXCEPT !.alignment = a]).type = "none"

(* The engine sells as readily as it buys.  It does not hold with the      *)
(* volume rule: of {ema, volume} only buying reaches six tenths.           *)
EngineSells ==
  \A r \in EngineReadings : r.rules # {} =>
    ((\E q \in EngineReadings : q.rules = r.rules /\ Evaluate(q).type = "long")
      => \E q \in EngineReadings : q.rules = r.rules /\ Evaluate(q).type = "short")

=============================================================================
