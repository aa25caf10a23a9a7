----------------------------- MODULE RiskSizing -----------------------------
(***************************************************************************)
(* The risk engine's assessment of an entry (risk/engine.py).  Money and   *)
(* units are whole numbers and a unit is one step; fractions are given in  *)
(* basis points, so a budget is its whole part, which decides the same     *)
(* comparisons (a budget below one is refused before the search instead of *)
(* after it).  The notional cost rate is left at its default, zero, and of *)
(* the request's checks the ones are kept that can fail for the requests   *)
(* run_backtest builds.                                                    *)
(***************************************************************************)
EXTENDS Integers, FiniteSets, FiniteSetsExt

CONSTANTS
  Allocated, RiskBp, DailyLossBp, GrossBp, PositionBp, SpreadBp, DeviationBp,
  MaxOpen,          \* max_positions
  RiskTTL,          \* the risk limits' own signal_ttl_seconds, in ticks
  QuoteAge,         \* max_quote_age_seconds, in ticks
  MaximumUnits, MinimumNotional, MaximumNotional,
  FixedPerSide, MinimumPerSide, PerUnitPerSide, SlippagePerUnit,
  HalfImpact        \* half of quadratic_impact

(* RiskConfig, CostConfig and InstrumentRules: nothing is negative.        *)
ASSUME RiskAssumption ==
  /\ Allocated \in Nat \ {0}
  /\ {RiskBp, DailyLossBp, GrossBp, PositionBp, SpreadBp, DeviationBp, MaxOpen, RiskTTL, QuoteAge,
       MaximumUnits, MinimumNotional, MaximumNotional, FixedPerSide, MinimumPerSide,
       PerUnitPerSide, SlippagePerUnit, HalfImpact} \subseteq Nat

Bp(amount, fraction) == (amount * fraction) \div 10000
Larger(a, b)  == IF a > b THEN a ELSE b

Commission(u) == Larger(MinimumPerSide, u * PerUnitPerSide)

\* The round-trip reserve of an order of u units.
Estimate(u) ==
  IF u = 0 THEN 0
  ELSE 2 * (FixedPerSide + Commission(u)) + u * SlippagePerUnit + 2 * HalfImpact * u * u

-----------------------------------------------------------------------------
(* Why an entry is refused before it is sized, the first reason that holds.*)
RejectChecks(r, p) ==
  << <<p.cash < 0 \/ p.reference <= 0 \/ p.equity <= 0, "INVALID_PORTFOLIO">>,
     <<p.paused, "ENTRIES_PAUSED">>,
     <<10000 * p.pnl <= -(p.reference * DailyLossBp), "DAILY_LOSS_LIMIT">>,
     <<p.positions >= MaxOpen, "POSITION_LIMIT">>,
     <<r.stop <= 0 \/ r.ask <= r.stop, "INVALID_STOP_DISTANCE">>,
     <<r.bid <= 0 \/ r.ask < r.bid, "INVALID_EXECUTABLE_QUOTE">>,
     <<r.now < r.available, "FUTURE_DATA">>,
     <<~r.window_open, "ENTRY_WINDOW_CLOSED">>,
     <<r.now >= r.expires \/ r.now - r.available > RiskTTL, "SIGNAL_EXPIRED">>,
     <<r.now - r.available > QuoteAge, "STALE_QUOTE">>,
     <<10000 * (r.ask - r.bid) > SpreadBp * r.ask, "SPREAD_LIMIT">>,
     <<10000 * (r.ask - r.reference) > DeviationBp * r.reference, "PRICE_DEVIATION">> >>

RejectReason(r, p) ==
  LET checks == RejectChecks(r, p)
      failed == {i \in DOMAIN checks : checks[i][1]}
  IN  IF failed = {} THEN "none" ELSE checks[Min(failed)][2]

-----------------------------------------------------------------------------
(* The budgets and the search for the number of units.                     *)
Capital(p) == Min({Allocated, p.reference, p.equity})
RiskBudget(p) ==
  Min({Bp(Capital(p), RiskBp), Bp(p.reference, DailyLossBp) + Min({0, p.pnl}) - p.reserved_risk})
CashBudget(p) ==
  Min({p.cash - p.reserved_cash, Bp(Capital(p), GrossBp) - p.gross - p.reserved_cash,
       Bp(Capital(p), PositionBp)})

Feasible(u, r, p) ==
  /\ u * (r.ask - r.stop) + Estimate(u) <= RiskBudget(p)
  /\ u * r.ask + Estimate(u) <= CashBudget(p)

\* No more units than this fit the budgets even without costs.
Ceiling(r, p) ==
  Min({MaximumUnits, MaximumNotional \div r.ask, RiskBudget(p) \div (r.ask - r.stop),
       CashBudget(p) \div r.ask})

\* A search that stops while two candidates are left.
SearchEarly(r, p) ==
  LET top == Ceiling(r, p)
      left[low \in 0..top] ==
        [high \in 0..top |->
           LET middle == (low + high + 1) \div 2
           IN  IF low + 1 >= high THEN low
               ELSE IF Feasible(middle, r, p) THEN left[middle][high] ELSE left[low][middle - 1]]
  IN  left[0][top]

\* The bisection of assess, as the function of the interval that is left.
Search(r, p) ==
  LET top == Ceiling(r, p)
      left[low \in 0..top] ==
        [high \in 0..top |->
           LET middle == (low + high + 1) \div 2
           IN  IF low >= high THEN low
               ELSE IF Feasible(middle, r, p) THEN left[middle][high] ELSE left[low][middle - 1]]
  IN  left[0][top]

Refusal(reason) ==
  [approved |-> FALSE, reason |-> reason, units |-> 0, risk |-> 0, notional |-> 0, cost |-> 0]

\* The decision about u units, once the search is over.
Sized(u, r) ==
  IF u = 0 \/ u * r.ask < MinimumNotional
  THEN Refusal("MINIMUM_INCOMPATIBLE")
  ELSE [approved |-> TRUE, reason |-> "APPROVED", units |-> u,
        risk |-> u * (r.ask - r.stop) + Estimate(u), notional |-> u * r.ask, cost |-> Estimate(u)]

Assess(r, p) ==
  IF RejectReason(r, p) # "none" THEN Refusal(RejectReason(r, p))
  ELSE IF RiskBudget(p) <= 0 \/ CashBudget(p) <= 0 THEN Refusal("BUDGET_EXHAUSTED")
  ELSE Sized(Search(r, p), r)

\* The risk of a position as it was really filled.
PostFillRisk(u, price, stop) == Larger(0, u * (price - stop)) + Estimate(u)
=============================================================================
