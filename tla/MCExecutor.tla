----------------------------- MODULE MCExecutor -----------------------------
(* TLC instances of the executor: each entry opens a position of its own,  *)
(* and the broker numbers an order after its intent.  A symbol may be       *)
(* renamed together with its position.                                     *)
EXTENDS Executor, TLC

MCPositionOf ==
  CHOOSE f \in [Symbols -> PositionIds] : \A s, t \in Symbols : f[s] = f[t] => s = t

MCBrokerIds == Symbols \cup PositionIds

Symmetry ==
  {f \in Permutations(MCBrokerIds) :
     \A s \in Symbols : f[s] \in Symbols /\ f[MCPositionOf[s]] = MCPositionOf[f[s]]}

(* Bound: at most one order the broker reports as unprotected.             *)
OneUnprotected == Cardinality({i \in IntentIds : Accepted(i) /\ ~orders[i].protected}) <= 1
=============================================================================
