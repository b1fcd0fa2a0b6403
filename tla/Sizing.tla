-------------------------------- MODULE Sizing --------------------------------
(***************************************************************************)
(* How large an order is: the worker's risk engine (strategy-runner), the  *)
(* PositionSizer of the risk-managed orders, and the browser's risk engine *)
(* with its bracket and the amount check the strategies put behind it.     *)
(* Each action is one call with one input; `sized` is the last call.       *)
(*                                                                         *)
(* Amounts are integers in some unit, money at risk is in hundredths of    *)
(* it.  Quotients are compared by cross-multiplying, so that no operator   *)
(* rounds where the code does not; the code's floating point adds its own  *)
(* rounding, which shows only in Affordable.                               *)
(***************************************************************************)
EXTENDS Integers

CONSTANTS
  Equities, Prices,   (* balances, entry and stop prices                   *)
  RiskValues,         (* percentages or fixed amounts                      *)
  Steps,              (* tick, lot and contract sizes                      *)
  Leverages, Minima, MaxOrder, (* limits of the instrument                 *)
  Ratios              (* risk/reward ratios                                *)

ASSUME SizingAssumption ==
  /\ Equities \cup Prices \cup RiskValues \subseteq Nat
  /\ Steps \cup Leverages \cup Minima \cup Ratios \cup {MaxOrder} \subseteq Nat \ {0}

VARIABLE sized

SizingInit == sized = [by |-> "nobody"]

Distance(entry, stop) == IF entry > stop THEN entry - stop ELSE stop - entry
FloorTo(num, den, step) == (num \div (den * step)) * step
(* Math.round(num / step) * step *)
RoundTo(num, step) == ((2 * num + step) \div (2 * step)) * step
Refused == [success |-> FALSE]
Size(q) == [success |-> TRUE, quantity |-> q]

-----------------------------------------------------------------------------
(* strategy-runner/RiskEngine.ts: quantity = risk / (distance / entry), at *)
(* most the leverage; the minimum is compared before that, and before the  *)
(* quantity is rounded down to ticks.                                      *)

WorkerRisk(x) ==
  LET asked == IF x.mode = "percent" THEN x.equity * x.risk ELSE 100 * x.risk
  IN  IF asked > 100 * x.equity THEN 100 * x.equity ELSE asked

(* The stop by a fixed distance, on the tick.                              *)
WorkerStop(x) ==
  RoundTo(IF x.side = "buy" THEN x.entry - x.away ELSE x.entry + x.away, x.step)

(* The target by a ratio, on the tick.                                     *)
WorkerTarget(x) ==
  LET reward == Distance(x.entry, WorkerStop(x)) * x.ratio
  IN  RoundTo(IF x.side = "buy" THEN x.entry + reward ELSE x.entry - reward, x.step)

WorkerPosition(x) ==
  LET d == Distance(x.entry, WorkerStop(x))
      worth == WorkerRisk(x) * x.entry
  IN  IF \/ x.equity <= 0 \/ 10000 * d < x.entry
         \/ worth < 100 * d * x.minimum
        THEN Refused
      ELSE IF worth * x.entry > 100 * d * x.leverage * x.equity
        THEN Size(FloorTo(x.equity * x.leverage, x.entry, x.step))
      ELSE Size(FloorTo(worth, 100 * d, x.step))

-----------------------------------------------------------------------------
(* risk/PositionSizer.ts: the quantity is in dollars; a balance in coins   *)
(* is worth the current price.                                             *)

InDollars(amount, x) == IF x.currency = "coin" THEN amount * x.price ELSE amount

SizerPosition(x) ==
  LET d == Distance(x.entry, x.stop)
      q == FloorTo(InDollars(x.equity * x.risk, x) * x.entry, 100 * d, x.step)
  IN  IF \/ x.equity <= 0 \/ x.entry <= 0 \/ x.stop <= 0 \/ x.risk \notin 1..100 \/ x.price <= 0
         \/ d = 0 \/ q < x.minimum \/ q > MaxOrder
         \/ q > x.leverage * InDollars(x.equity, x)
        THEN Refused ELSE Size(q)

(* The margin q / (q / balance) equals the balance; in floating point it   *)
(* may come out above it, and the call throws InsufficientBalanceError.    *)
Affordable(x) == {SizerPosition(x), Refused}

-----------------------------------------------------------------------------
(* lib/riskEngine.ts: the quantity is in coins; the cap comes first, then  *)
(* the rounding, then the minimum.                                         *)

BrowserRisk(x) == IF x.mode = "percent" THEN x.equity * x.risk ELSE 100 * x.risk

BrowserPosition(x) ==
  LET d == Distance(x.entry, x.stop)
      capped == BrowserRisk(x) * x.entry > 100 * d * x.leverage * x.equity
      q == IF capped THEN FloorTo(x.equity * x.leverage, x.entry, x.step)
           ELSE FloorTo(BrowserRisk(x), 100 * d, x.step)
  IN  IF \/ x.equity <= 0 \/ x.entry <= 0 \/ x.stop <= 0 \/ x.risk <= 0 \/ d = 0
         \/ x.mode = "percent" /\ x.risk > 50
         \/ x.mode = "fixed" /\ 2 * x.risk > x.equity
         \/ q < x.minimum
         \/ q * x.entry > x.leverage * x.equity
        THEN Refused ELSE Size(q)

(* Mutant: the distance of the target is taken for the stop as well.       *)
BuildBracketWide(x) ==
  LET reward == Distance(x.entry, x.stop) * x.ratio
      long == x.side = "buy"
      target == RoundTo(IF long THEN x.entry + reward ELSE x.entry - reward, x.tick)
  IN  IF \/ x.entry <= 0 \/ x.stop <= 0 \/ (IF long THEN x.stop >= x.entry ELSE x.stop <= x.entry)
         \/ target <= 0
        THEN Refused
        ELSE [success |-> TRUE, target |-> target,
              stop |-> RoundTo(IF long THEN x.entry - reward ELSE x.entry + reward, x.tick)]

BuildBracket(x) ==
  LET reward == Distance(x.entry, x.stop) * x.ratio
      long == x.side = "buy"
      target == RoundTo(IF long THEN x.entry + reward ELSE x.entry - reward, x.tick)
  IN  IF \/ x.entry <= 0 \/ x.stop <= 0 \/ (IF long THEN x.stop >= x.entry ELSE x.stop <= x.entry)
         \/ target <= 0
        THEN Refused
        ELSE [success |-> TRUE, stop |-> RoundTo(x.stop, x.tick), target |-> target]

(* validateAndNormalizeAmount, between the sizing and the order in the     *)
(* strategies of the browser; normalizeDeribitAmount, the same check.      *)
Normalized(amount, x) ==
  LET q == FloorTo(amount, 1, x.step)
  IN  IF amount <= 0 \/ q < x.minimum THEN Refused ELSE Size(q)

-----------------------------------------------------------------------------
WorkerSizes ==
  \E x \in [equity: Equities, entry: Prices \ {0}, away: Prices, risk: RiskValues, step: Steps,
            minimum: Minima, leverage: Leverages, ratio: Ratios,
            mode: {"percent", "fixed"}, side: {"buy", "sell"}] :
    sized' = [by |-> "worker", in |-> x, out |-> WorkerPosition(x),
              bracket |-> [stop |-> WorkerStop(x), target |-> WorkerTarget(x)]]

SizerSizes ==
  \E x \in [equity: Equities, entry: Prices, stop: Prices, price: Prices, risk: RiskValues,
            step: Steps, minimum: Minima, leverage: Leverages, currency: {"coin", "dollar"}] :
    \E out \in Affordable(x) : sized' = [by |-> "sizer", in |-> x, out |-> out]

BrowserSizes ==
  \E x \in [equity: Equities, entry: Prices, stop: Prices, risk: RiskValues,
            step: Steps, tick: Steps, minimum: Minima, leverage: Leverages, ratio: Ratios,
            mode: {"percent", "fixed"}, side: {"buy", "sell"}] :
    sized' = [by |-> "browser", in |-> x, out |-> BrowserPosition(x), bracket |-> BuildBracket(x)]

SizingNext == sized.by = "nobody" /\ (WorkerSizes \/ SizerSizes \/ BrowserSizes)

-----------------------------------------------------------------------------
SizingTypeOK == sized.by \in {"nobody", "worker", "sizer", "browser"}

(* What is lost at the stop is never more than what was to be risked, also *)
(* when the leverage cap or the rounding changes the quantity; a stop that *)
(* is only put on the tick afterwards may add half a tick of the quantity. *)
WithinRisk ==
  LET x == sized.in
      q == sized.out.quantity
  IN  /\ sized.by = "worker" => (sized.out.success =>
           100 * q * Distance(x.entry, sized.bracket.stop) <= WorkerRisk(x) * x.entry)
      /\ sized.by = "sizer" => (sized.out.success =>
           100 * q * Distance(x.entry, x.stop) <= InDollars(x.equity * x.risk, x) * x.entry)
      /\ sized.by = "browser" => (sized.out.success /\ sized.bracket.success =>
           100 * q * (2 * Distance(x.entry, sized.bracket.stop) - x.tick) <= 2 * BrowserRisk(x))

(* Nothing is sized beyond the leverage allowed: the worker's engine cuts  *)
(* the size down to it, the others refuse; rounding comes after the cut    *)
(* and the other way round before the refusal.                             *)
WithinLeverage ==
  LET x == sized.in
      q == sized.out.quantity
  IN  /\ sized.by \in {"worker", "browser"} => (sized.out.success => q * x.entry <= x.leverage * x.equity)
      /\ sized.by = "sizer" => (sized.out.success => q <= x.leverage * InDollars(x.equity, x))

(* What the browser's strategies order is what their risk engine weighed:  *)
(* the second rounding and the second minimum change and refuse nothing.   *)
AsWeighed ==
  LET q == sized.out.quantity
  IN  sized.by = "browser" => (sized.out.success => Normalized(q, sized.in) = Size(q))

(* All three, of whichever of the sizings: what is ordered loses at its    *)
(* stop at most what was to be risked, keeps to the leverage and is the    *)
(* size that was weighed (RiskEngine.ts, PositionSizer.ts, riskEngine.ts). *)
SizedSafely == WithinRisk /\ WithinLeverage /\ AsWeighed

=============================================================================
