----------------------------- MODULE QuotaBudget -----------------------------
(***************************************************************************)
(* QuotaBudget of brokers/transport.py: rolling pools of request times,    *)
(* one of them shared by every route, and a not-before mark a 429 sets.    *)
(* The clock is monotonic, so the times a deque drops from its left are    *)
(* those outside the window; here they stay and are not counted.           *)
(***************************************************************************)
EXTENDS Naturals, Sequences, FiniteSets

CONSTANTS
  Pools,    \* the documented quota groups
  All,      \* the pool shared by every authenticated request
  Quota,    \* requests a pool admits in one window
  Window,   \* the window's length in ticks
  Reserve   \* slots only priority requests may take

ASSUME QuotaAssumption ==
  /\ All \in Pools
  /\ Quota \in [Pools -> Nat \ {0}]
  /\ Window \in Nat \ {0} /\ Reserve \in Nat

NewBudget == [uses |-> [p \in Pools |-> <<>>], blocked_until |-> 0]

Recent(uses, now) == {i \in DOMAIN uses : uses[i] + Window > now}

HasRoom(q, pool, priority, now) ==
  LET reserved == IF priority THEN 0 ELSE Reserve
  IN Cardinality(Recent(q.uses[pool], now)) + reserved < Quota[pool]

(* take refuses before it appends anything: both pools must have room.     *)
MayTake(q, pool, priority, now) ==
  /\ now >= q.blocked_until
  /\ \A p \in {All, pool} : HasRoom(q, p, priority, now)

(* A mutant: only the documented pool is charged, not the shared one.      *)
TakeOwnPool(q, pool, now) ==
  [q EXCEPT !.uses[pool] = Append(@, now)]

Take(q, pool, now) ==
  [q EXCEPT !.uses = [p \in Pools |-> IF p \in {All, pool}
                                      THEN Append(@[p], now) ELSE @[p]]]

(* A mutant: each pool is charged as soon as it has room itself.           *)
RefusedTakeCharges(q, pool, priority, now) ==
  IF now >= q.blocked_until /\ HasRoom(q, All, priority, now)
  THEN [q EXCEPT !.uses[All] = Append(@, now)] ELSE q

Refused(q, pool, priority, now) == q

(* A mutant: the delay is taken for a time of the clock.                   *)
LimitedFromZero(q, now, delay) ==
  [q EXCEPT !.blocked_until = IF @ > delay THEN @ ELSE delay]

(* A 429 moves the mark forward, never back.                               *)
Limited(q, now, delay) ==
  [q EXCEPT !.blocked_until = IF @ > now + delay THEN @ ELSE now + delay]
=============================================================================
