---------------------------- MODULE MCStateStore ----------------------------
(* TLC instances of the store: broker identifiers are interchangeable.     *)
EXTENDS StoreAccounting, TLC

(* Bound: one entry of several units at most, of those that compete.       *)
OneLargeEntry == Cardinality({s \in Symbols : intents[s].units > 1}) <= 1

Symmetry == Permutations(BrokerIds) \cup Permutations(Symbols)
=============================================================================
