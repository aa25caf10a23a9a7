-------------------------- MODULE StoreAccounting --------------------------
(***************************************************************************)
(* What the books of StateStore must add up to, whatever order the broker's*)
(* cumulative reports, the executor's transitions and late fills arrive in.*)
(* The sums are folds over functions, so that they can be proved about.    *)
(***************************************************************************)
EXTENDS StateStore, Functions

(* The store without the two writers of the gates, which no book depends on. *)
BookSpec == StoreInit /\ [][BookNext]_storeVars

Owned(s) == {p \in PositionIds : positions[p].owner_intent_id = s}
FillsOf(i) == {f \in fills : f.intent_id = i}
Bought == {f \in fills : f.intent_id \in Symbols}
Sold == fills \ Bought

(* What each position, fill row and cost row adds to a sum.                *)
Accounted  == [p \in PositionIds |-> positions[p].units + intents[p].filled_units]
CostBasis  == [p \in PositionIds |-> positions[p].units * positions[p].average_entry]
PositionPnl == [p \in PositionIds |-> positions[p].realized_pnl]
RowUnits    == [f \in fills |-> f.units]
RowNotional == [f \in fills |-> f.notional]

(* Units are conserved: what an entry bought is still held in the positions *)
(* it owns or was sold by their closes, so no close ever sells what the     *)
(* entry did not buy (store.py apply_broker_order, _apply_fill).            *)
UnitsConserved ==
  \A s \in Symbols : SumFunctionOnSet(Accounted, Owned(s)) = intents[s].filled_units

(* The incremental rows of table fills add up to the cumulative quantity    *)
(* and notional of their intent: no report is booked twice or skipped.      *)
FillsMatchCumulative ==
  \A i \in IntentIds :
    /\ SumFunctionOnSet(RowUnits, FillsOf(i)) = intents[i].filled_units
    /\ SumFunctionOnSet(RowNotional, FillsOf(i))
         = Notional(intents[i].filled_units, intents[i].average_price)

(* The cash of portfolio(), which is the realized pnl minus the cost basis  *)
(* of the open positions, moves exactly with the money that changed hands:  *)
(* sales less purchases less the costs the broker reported last.            *)
CashConserved ==
  realized_pnl - SumFunction(CostBasis)
    = SumFunctionOnSet(RowNotional, Sold) - SumFunctionOnSet(RowNotional, Bought)
        - SumFunction(broker_costs)

(* The realized pnl of the session is that of its positions less the costs  *)
(* of the entries, which are never charged to a position.                   *)
SessionPnlMatchesPositions ==
  realized_pnl = SumFunction(PositionPnl) - SumFunctionOnSet(broker_costs, Symbols)
=============================================================================
