------------------------------ MODULE Indicators ------------------------------
(***************************************************************************)
(* The technical indicators of the executors, of the strategy engine and   *)
(* of the browser's strategies, each over a sequence of closing prices     *)
(* (or of highs, lows and closes) and a period.  The same indicator is     *)
(* written five times in the code; the versions differ in what they return *)
(* when there are too few prices.  Averages are exact fractions            *)
(* <<numerator, denominator>>; the relative strength is rounded down to a  *)
(* whole number.  Missing stands for null, undefined and NaN.              *)
(***************************************************************************)
EXTENDS Integers, Sequences
Seqs == INSTANCE SequencesExt

Missing == "missing"
Recent(s, n) == SubSeq(s, IF Len(s) > n THEN Len(s) - n + 1 ELSE 1, Len(s))
Total(s) == Seqs!FoldLeft(LAMBDA sum, x : sum + x, 0, s)
Highest(s) == CHOOSE x \in {s[i] : i \in DOMAIN s} : \A i \in DOMAIN s : s[i] <= x
Lowest(s) == CHOOSE x \in {s[i] : i \in DOMAIN s} : \A i \in DOMAIN s : x <= s[i]
Apart(x, y) == IF x < y THEN y - x ELSE x - y
Fewer(m, n) == IF m < n THEN m ELSE n

Less(p, q) == p[1] * q[2] < q[1] * p[2]
Mean(s) == <<Total(s), Len(s)>>

-----------------------------------------------------------------------------
(* Relative strength: 100 - 100 / (1 + gain / loss), 100 without a loss.   *)
Changes(s) == [i \in 1..(Len(s) - 1) |-> s[i + 1] - s[i]]
Gain(c) == Total([i \in DOMAIN c |-> IF c[i] > 0 THEN c[i] ELSE 0])
Loss(c) == Total([i \in DOMAIN c |-> IF c[i] < 0 THEN -c[i] ELSE 0])
Strength(gain, loss) == IF loss = 0 THEN 100 ELSE (100 * gain) \div (gain + loss)
StrengthOf(c) == Strength(Gain(c), Loss(c))

(* With too few prices the executor takes the changes there are. *)
RazorRSI(s, period) ==
  IF Len(s) < 3 THEN 50 ELSE StrengthOf(Recent(Changes(s), period))
ThorRSI(s, period) ==
  IF Len(s) < period + 1 THEN 50 ELSE StrengthOf(Recent(Changes(s), period))
(* The last period + 1 prices, and the changes between them. *)
BrowserRSI(s, period) ==
  IF Len(s) < period + 1 THEN Missing ELSE StrengthOf(Changes(Recent(s, period + 1)))
ScalperRSI(s, period) ==
  IF Len(s) < period + 1 THEN Missing ELSE StrengthOf(Recent(Changes(s), period))
LibraryRSI(s, period) ==
  IF Len(s) < period + 1 THEN Missing
  ELSE StrengthOf([i \in 1..period |-> s[Len(s) - period + i] - s[Len(s) - period + i - 1]])

(* The engine smooths: each change replaces a part 1 / period of the       *)
(* averages, here multiplied by a power of the period; without any change  *)
(* it divides zero by zero.                                                *)
EngineRSI(s, period) ==
  LET c == Changes(s)
      Smooth(avg, x) ==
        [gain |-> avg.gain * (period - 1) + (IF x > 0 THEN x ELSE 0) * avg.unit,
         loss |-> avg.loss * (period - 1) + (IF x < 0 THEN -x ELSE 0) * avg.unit,
         unit |-> avg.unit * period]
      first == SubSeq(c, 1, period)
      avg == Seqs!FoldLeft(Smooth, [gain |-> Gain(first), loss |-> Loss(first), unit |-> period],
                      SubSeq(c, period + 1, Len(c)))
  IN IF Len(s) < period + 1 \/ avg.gain + avg.loss = 0 THEN Missing ELSE Strength(avg.gain, avg.loss)

-----------------------------------------------------------------------------
(* Exponential average: the mean of the first prices, then two parts of    *)
(* each further price to period - 1 parts of what there was.               *)
Smoothed(s, period) ==
  Seqs!FoldLeft(LAMBDA e, x : <<2 * x * e[2] + (period - 1) * e[1], (period + 1) * e[2]>>,
           Mean(SubSeq(s, 1, period)), SubSeq(s, period + 1, Len(s)))
RazorEMA(s, period) == IF Len(s) < period THEN Mean(s) ELSE Smoothed(s, period)
ScalperEMA(s, period) == IF Len(s) < period THEN <<s[Len(s)], 1>> ELSE Smoothed(s, period)
LibraryEMA(s, period) == IF Len(s) < period THEN Missing ELSE Smoothed(s, period)
EngineEMA(s, period) == IF Len(s) < period THEN <<0, 1>> ELSE Smoothed(s, period)

BrowserSMA(s, period) == IF Len(s) < period THEN <<s[Len(s)], 1>> ELSE Mean(Recent(s, period))
EngineSMA(s, period) == IF Len(s) < period THEN <<0, 1>> ELSE Mean(Recent(s, period))

-----------------------------------------------------------------------------
(* Range of the prices over their mean (never less than the standard       *)
(* deviation, so that the larger of the two is the range), as a fraction   *)
(* of which 1 is one hundredth of a percent; at least that much.           *)
Volatility(s) ==
  LET range == <<(Highest(s) - Lowest(s)) * 10000 * Len(s), Total(s)>>
  IN IF Len(s) < 2 THEN <<5, 1>> ELSE IF Less(range, <<1, 1>>) THEN <<1, 1>> ELSE range

(* The true range of candle i, with the close at index i - 1. *)
TrueRange(h, l, c, i) ==
  Highest(<<h[i] - l[i], Apart(h[i], c[i - 1]), Apart(l[i], c[i - 1])>>)
RangesFrom(h, l, c, first, last) == [i \in 1..(last - first + 1) |-> TrueRange(h, l, c, first + i - 1)]
Shortest(h, l, c) == Fewer(Len(h), Fewer(Len(l), Len(c)))

RazorATR(h, l, c, period) ==
  CASE Shortest(h, l, c) < 2 -> Missing
    [] Shortest(h, l, c) \in 2..period -> Mean(RangesFrom(h, l, c, 2, Shortest(h, l, c)))
    [] OTHER -> Mean(RangesFrom(h, l, c, Len(h) - period + 1, Len(h)))
ThorATR(h, l, c, period) ==
  IF Shortest(h, l, c) < period + 1 THEN Missing
  ELSE Mean(RangesFrom(h, l, c, Len(h) - period + 1, Len(h)))
EngineATR(h, l, c, period) ==
  LET ranges == RangesFrom(h, l, c, 2, Len(c))
  IN IF Len(c) < period + 1 THEN <<0, 1>>
     ELSE Seqs!FoldLeft(LAMBDA a, r : <<a[1] * (period - 1) + r * a[2], a[2] * period>>,
                   Mean(SubSeq(ranges, 1, period)), SubSeq(ranges, period + 1, Len(ranges)))

(* Bollinger bands: sum of the window, its length n, and the sum of the    *)
(* squares of n times the deviations.  A price x is at a band of width k   *)
(* when it is off the mean by k standard deviations.                       *)
Bands(s, period) ==
  IF Len(s) < period THEN Missing
  ELSE LET r == Recent(s, period)
           off == [i \in DOMAIN r |-> (r[i] * period - Total(r)) * (r[i] * period - Total(r))]
       IN [sum |-> Total(r), n |-> period, off |-> Total(off)]
(* The engine slices the prices a second time: of the last window only the *)
(* last close is left, and the deviation is of that price alone.           *)
EngineBands(s, period) ==
  IF Len(s) < period THEN [sum |-> 0, n |-> 1, off |-> 0]
  ELSE LET off == s[Len(s)] * period - Total(Recent(s, period))
       IN [sum |-> Total(Recent(s, period)), n |-> period, off |-> off * off]
AtBand(x, b, k) == (b.sum - x * b.n) * (b.sum - x * b.n) * b.n >= k * k * b.off
AtLower(x, b, k) == x * b.n <= b.sum /\ AtBand(x, b, k)
AtUpper(x, b, k) == x * b.n >= b.sum /\ AtBand(x, b, k)

(* An impulse of a tenth of a percent over the window, of which the given  *)
(* part of a hundred has been taken back.                                  *)
PullbackReady(s, warmUp, window, part) ==
  LET r == Recent(s, window)
      move == r[Len(r)] - r[1]
      back == IF move > 0 THEN Highest(r) - r[Len(r)] ELSE r[Len(r)] - Lowest(r)
      whole == IF move > 0 THEN Highest(r) - r[1] ELSE r[1] - Lowest(r)
  IN CASE Len(s) < warmUp -> Missing
       [] Len(s) >= warmUp /\ Apart(r[Len(r)], r[1]) * 1000 >= r[1] /\ back * 100 >= part * whole -> "ready"
       [] OTHER -> "not"

-----------------------------------------------------------------------------
(* The versions agree wherever all have enough prices, and the smoothed    *)
(* one with them while there is nothing to smooth.                         *)
StrengthsAgree(s, period) ==
  Len(s) > period =>
    /\ RazorRSI(s, period) = ThorRSI(s, period) \/ Len(s) < 3
    /\ {ThorRSI(s, period), ScalperRSI(s, period), LibraryRSI(s, period)} = {BrowserRSI(s, period)}
    /\ Len(s) = period + 1 /\ Highest(s) # Lowest(s) => EngineRSI(s, period) = BrowserRSI(s, period)

(* Some price of the window is within two deviations. *)
BandsHold(s, period) ==
  \E i \in 1..period : LET x == Recent(s, period)[i]
                          b == Bands(s, period)
                      IN b.off = 0 \/ (~AtLower(x, b, 2) /\ ~AtUpper(x, b, 2))

(* The averages agree and lie between the prices they are of, ...          *)
AveragesAgree(s, period) ==
  Len(s) >= period =>
    /\ {RazorEMA(s, period), ScalperEMA(s, period), LibraryEMA(s, period)} = {EngineEMA(s, period)}
    /\ ~Less(EngineEMA(s, period), <<Lowest(s), 1>>) /\ ~Less(<<Highest(s), 1>>, EngineEMA(s, period))
    /\ BrowserSMA(s, period) = EngineSMA(s, period)
    /\ BandsHold(s, period)

(* ... and the average true ranges, that of the engine while there is      *)
(* nothing to smooth; none is below the range of a candle alone.           *)
RangesAgree(h, l, c, period) ==
  Len(c) > period =>
    /\ RazorATR(h, l, c, period) = ThorATR(h, l, c, period)
    /\ Len(c) = period + 1 => EngineATR(h, l, c, period) = ThorATR(h, l, c, period)
    /\ ~Less(ThorATR(h, l, c, period), <<Lowest([i \in DOMAIN h |-> h[i] - l[i]]), 1>>)

(* A price below the mean may be inside the bands.  Not so in the engine:  *)
(* with its period of 20, every price off the mean is at a band.           *)
EngineBandsHold(s, period) ==
  LET b == EngineBands(s, period)
  IN Len(s) >= period /\ period > 4 /\ s[Len(s)] * period < b.sum => ~AtLower(s[Len(s)], b, 2)

=============================================================================
