----------------------------- MODULE StateStore -----------------------------
(***************************************************************************)
(* The durable store of persistence/store.py: intents, reservations,       *)
(* positions, fills, broker costs, the session row and the reconciliation  *)
(* flag.  Every method runs in one SQLite transaction, so every method is  *)
(* one action; a method that raises is rolled back and changes nothing, so *)
(* its conditions are guards.                                              *)
(*                                                                         *)
(* One trading session and one strategy version.  The table's uniqueness   *)
(* key makes the identity of an intent: the symbol of an entry, the        *)
(* position of a close.  Money and units are whole numbers.                *)
(***************************************************************************)
EXTENDS OrderLifecycle, Integers, FiniteSets

CONSTANTS
  Symbols,      \* symbols that may be traded; also the identities of entries
  PositionIds,  \* broker position identifiers; also the identities of closes
  BrokerIds,    \* broker order identifiers
  MaxUnits,     \* bound: the largest order
  Prices,       \* cumulative average prices the broker may report
  MaxCost,      \* bound: the largest cumulative cost the broker may report
  StopPrices,   \* stop prices
  Protection,   \* whether a filled position may be reported protected, unprotected
  MaxTime,      \* bound: the last instant of a snapshot; 0 for a broker without them
  Nil           \* an absent value or row (None)

ASSUME StoreAssumption ==
  /\ MaxUnits \in Nat \ {0} /\ MaxCost \in Nat /\ MaxTime \in Nat
  /\ Prices \subseteq Nat \ {0} /\ StopPrices \subseteq Nat /\ Protection \subseteq BOOLEAN
  /\ Symbols \cap PositionIds = {}
  /\ Nil \notin Int \cup Symbols \cup PositionIds \cup BrokerIds \cup OrderState

(* The configured universe and the broker's numbering are finite.          *)
ASSUME FiniteIdsAssumption == IsFiniteSet(Symbols) /\ IsFiniteSet(PositionIds)

VARIABLES
  intents,            \* table intents: the payload of each row, by identity
  reservations,       \* table reservations: the units whose cash and risk stay reserved
  positions,          \* table positions
  fills,              \* table fills
  broker_costs,       \* table broker_costs: cumulative cost, 0 without a row
  realized_pnl,       \* sessions.realized_pnl
  entries_paused,     \* sessions.entries_paused
  reconciliation_ok,  \* metadata reconciliation_ok = "true"
  late_fills          \* intents with an INCIDENT_LATE_FILL row in the audit

orderVars == <<intents, reservations>>
bookVars  == <<positions, fills, broker_costs, realized_pnl, late_fills>>
gateVars  == <<entries_paused, reconciliation_ok>>
storeVars == <<orderVars, bookVars, gateVars>>

-----------------------------------------------------------------------------
IntentIds == Symbols \cup PositionIds
Units == 0..MaxUnits
Times == 1..MaxTime

Kind(i) == IF i \in Symbols THEN "entry" ELSE "close"

(* An OrderIntent row; state Nil means there is no row.                    *)
OrderIntent ==
  [state : OrderState \cup {Nil}, units : Units, stop_price : StopPrices \cup {Nil},
   broker_order_id : BrokerIds \cup {Nil}, filled_units : Units,
   average_price : Prices \cup {Nil}]

NoIntent ==
  [state |-> Nil, units |-> 0, stop_price |-> Nil, broker_order_id |-> Nil,
   filled_units |-> 0, average_price |-> Nil]

(* A Position row; owner Nil means there is no row.                        *)
Position ==
  [owner_intent_id : Symbols \cup {Nil}, units : Units, average_entry : Nat,
   stop_price : StopPrices \cup {Nil}, protected : BOOLEAN, realized_pnl : Int,
   observed_units : Units \cup {Nil}, observed_at : Times \cup {Nil},
   accounting_complete : BOOLEAN]

NoPosition ==
  [owner_intent_id |-> Nil, units |-> 0, average_entry |-> 0, stop_price |-> Nil,
   protected |-> FALSE, realized_pnl |-> 0, observed_units |-> Nil,
   observed_at |-> Nil, accounting_complete |-> TRUE]

(* The states an adapter may report, and the reports themselves.  A report *)
(* carries fill evidence (price, position) exactly when it carries fills.  *)
BrokerStates == OrderState \ {"CREATED", "APPROVED", "SUBMITTING"}

BrokerOrder ==
  [broker_order_id : BrokerIds, intent_id : IntentIds, state : BrokerStates,
   filled_units : Units, average_price : Prices \cup {Nil},
   position_id : PositionIds \cup {Nil}, protected : Protection,
   cumulative_cost : 0..MaxCost, remaining_units : Units \cup {Nil},
   observed_at : Times \cup {Nil}]

Report(u) ==
  /\ u.filled_units > 0 <=> u.average_price # Nil
  /\ u.filled_units > 0 <=> u.position_id # Nil
  /\ u.remaining_units # Nil <=> u.observed_at # Nil
  /\ u.remaining_units # Nil => u.filled_units > 0

Reports == {u \in BrokerOrder : Report(u)}
ReportsOf == [i \in IntentIds |-> {u \in Reports : u.intent_id = i}]

Row(i) == intents[i].state # Nil
Active(i) == intents[i].state \in ACTIVE_STATES
OpenPositions == {p \in PositionIds : positions[p].units > 0}

-----------------------------------------------------------------------------
StoreInit ==
  /\ intents = [i \in IntentIds |-> NoIntent]
  /\ reservations = [s \in Symbols |-> Nil]
  /\ positions = [p \in PositionIds |-> NoPosition]
  /\ fills = {}
  /\ broker_costs = [i \in IntentIds |-> 0]
  /\ realized_pnl = 0
  /\ entries_paused = TRUE
  /\ reconciliation_ok = FALSE
  /\ late_fills = {}

(* position(): ownership is proven by an entry of ours that has fills.     *)
OwnershipProven(p) ==
  /\ positions[p].owner_intent_id \in Symbols
  /\ intents[positions[p].owner_intent_id].filled_units > 0

NewIntent(n, stop) ==
  [state |-> "APPROVED", units |-> n, stop_price |-> stop, broker_order_id |-> Nil,
   filled_units |-> 0, average_price |-> Nil]

(* Mutant: only a pending entry of the symbol is a duplicate.              *)
CreateEntryAgain(s, n, stop) ==
  /\ n > 0
  /\ ~Active(s)
  /\ intents' = [intents EXCEPT ![s] = NewIntent(n, stop)]
  /\ reservations' = [reservations EXCEPT ![s] = n]
  /\ UNCHANGED <<bookVars, gateVars>>

(* create_intent of an entry reserves the cash and risk of all its units.  *)
CreateEntry(s, n, stop) ==
  /\ n > 0
  /\ ~Row(s)
  /\ intents' = [intents EXCEPT ![s] = NewIntent(n, stop)]
  /\ reservations' = [reservations EXCEPT ![s] = n]
  /\ UNCHANGED <<bookVars, gateVars>>

(* create_intent of a close checks the reconciled ownership first.         *)
CreateClose(p, n) ==
  /\ n > 0
  /\ OwnershipProven(p)
  /\ n <= positions[p].units
  /\ positions[p].accounting_complete
  /\ ~Row(p)
  /\ intents' = [intents EXCEPT ![p] = NewIntent(n, Nil)]
  /\ UNCHANGED <<reservations, bookVars, gateVars>>

(* Mutant: an order whose fate is unknown releases its reservation too.    *)
TransitionReleasesUnknown(i, state) ==
  /\ Row(i)
  /\ ValidTransition(intents[i].state, state)
  /\ intents' = [intents EXCEPT ![i].state = state]
  /\ reservations' = IF i \in Symbols /\ state \notin ACTIVE_STATES \ {"UNKNOWN"}
                     THEN [reservations EXCEPT ![i] = Nil] ELSE reservations
  /\ UNCHANGED <<bookVars, gateVars>>

(* transition: an inactive state releases the reservation, an active one   *)
(* leaves it as it is.                                                     *)
Transition(i, state) ==
  /\ Row(i)
  /\ ValidTransition(intents[i].state, state)
  /\ intents' = [intents EXCEPT ![i].state = state]
  /\ reservations' = IF i \in Symbols /\ state \notin ACTIVE_STATES
                     THEN [reservations EXCEPT ![i] = Nil] ELSE reservations
  /\ UNCHANGED <<bookVars, gateVars>>

(* set_protection never lowers the stop of the row it reads.               *)
SetProtection(p, stop, protected) ==
  /\ OwnershipProven(p)
  /\ stop >= positions[p].stop_price
  /\ positions' = [positions EXCEPT ![p].stop_price = stop, ![p].protected = protected]
  /\ UNCHANGED <<orderVars, fills, broker_costs, realized_pnl, late_fills, gateVars>>

Pause(paused) ==
  /\ entries_paused' = paused
  /\ UNCHANGED <<orderVars, bookVars, reconciliation_ok>>

(* set_meta("reconciliation_ok", ...)                                      *)
SetReconciliation(ok) ==
  /\ reconciliation_ok' = ok
  /\ UNCHANGED <<orderVars, bookVars, entries_paused>>

-----------------------------------------------------------------------------
(* apply_broker_order: one cumulative report of the broker about one intent. *)

Delta(u)     == u.filled_units - intents[u.intent_id].filled_units
CostDelta(u) == u.cumulative_cost - broker_costs[u.intent_id]

Notional(units, price) == IF units = 0 THEN 0 ELSE units * price

(* Mutant: the cumulative average taken for the price of the increment.    *)
DeltaNotionalAtAverage(u) == Notional(Delta(u), u.average_price)

(* The incremental fill price times its units.                             *)
DeltaNotional(u) ==
  Notional(u.filled_units, u.average_price)
    - Notional(intents[u.intent_id].filled_units, intents[u.intent_id].average_price)

(* Mutant: FILLED is believed without its quantity.                        *)
FilledIsBelieved(u) ==
  LET intent == intents[u.intent_id] IN
  /\ u.filled_units \in intent.filled_units..intent.units
  /\ u.state = "PARTIALLY_FILLED" => u.filled_units \in 1..(intent.units - 1)

(* No overfill, no regression, and the quantity fits the state.            *)
QuantityAccepted(u) ==
  LET intent == intents[u.intent_id] IN
  /\ u.filled_units \in intent.filled_units..intent.units
  /\ u.state = "FILLED" => u.filled_units = intent.units
  /\ u.state = "PARTIALLY_FILLED" => u.filled_units \in 1..(intent.units - 1)

(* What the report itself must satisfy.                                    *)
ReportAccepted(u) ==
  LET intent == intents[u.intent_id] IN
  /\ Row(u.intent_id)
  /\ ValidTransition(intent.state, u.state)
  /\ intent.broker_order_id \in {Nil, u.broker_order_id}
  /\ QuantityAccepted(u)
  /\ u.filled_units > 0 => u.position_id # Nil /\ u.average_price # Nil
  /\ CostDelta(u) >= 0
  /\ Delta(u) = 0 /\ intent.filled_units > 0 => u.average_price = intent.average_price

(* Mutant: an entry may fill into a position another entry owns.           *)
FillAcceptedForeign(u) ==
  LET i == u.intent_id
      p == u.position_id
  IN
  /\ DeltaNotional(u) > 0
  /\ Kind(i) = "close" => /\ p = i
                          /\ OwnershipProven(p)
                          /\ Delta(u) <= positions[p].units
  /\ ~\E f \in fills : /\ f.broker_order_id = u.broker_order_id
                       /\ f.cumulative = u.filled_units

(* _apply_fill raises on a foreign position, on a close of another         *)
(* position, on a short and on a fill row that is already there.           *)
FillAccepted(u) ==
  LET i == u.intent_id
      p == u.position_id
  IN
  /\ DeltaNotional(u) > 0
  /\ Kind(i) = "entry" => positions[p].owner_intent_id \in {Nil, i}
  /\ Kind(i) = "close" => /\ p = i
                          /\ OwnershipProven(p)
                          /\ Delta(u) <= positions[p].units
  /\ ~\E f \in fills : /\ f.broker_order_id = u.broker_order_id
                       /\ f.cumulative = u.filled_units

(* Mutant: the cumulative quantity is added to the position.               *)
EntryFillCumulative(u) ==
  LET old   == positions[u.position_id]
      units == old.units + u.filled_units
  IN [owner_intent_id |-> u.intent_id, units |-> units,
      average_entry |-> (old.units * old.average_entry + DeltaNotional(u)) \div units,
      stop_price |-> intents[u.intent_id].stop_price, protected |-> u.protected,
      realized_pnl |-> old.realized_pnl, observed_units |-> Nil, observed_at |-> Nil,
      accounting_complete |-> TRUE]

(* An entry fill builds a new row; only units, cost basis and realized pnl *)
(* are carried over from the old one.                                      *)
EntryFill(u) ==
  LET old   == positions[u.position_id]
      units == old.units + Delta(u)
  IN [owner_intent_id |-> u.intent_id, units |-> units,
      average_entry |-> (old.units * old.average_entry + DeltaNotional(u)) \div units,
      stop_price |-> intents[u.intent_id].stop_price, protected |-> u.protected,
      realized_pnl |-> old.realized_pnl, observed_units |-> Nil, observed_at |-> Nil,
      accounting_complete |-> TRUE]

(* Mutant: each report charges its cumulative cost again.                  *)
FillPnlCumulativeCost(u) ==
  (IF Kind(u.intent_id) = "close"
   THEN DeltaNotional(u) - Delta(u) * positions[u.intent_id].average_entry ELSE 0)
    - u.cumulative_cost

FillPnl(u) ==
  (IF Kind(u.intent_id) = "close"
   THEN DeltaNotional(u) - Delta(u) * positions[u.intent_id].average_entry ELSE 0)
    - CostDelta(u)

CloseFill(u) ==
  LET old   == positions[u.position_id]
      units == old.units - Delta(u)
  IN [old EXCEPT !.units = units, !.realized_pnl = @ + FillPnl(u),
                 !.accounting_complete = old.observed_units \in {Nil, units}]

(* Mutant: a late cost never reaches the position.                         *)
BookedWithoutLateCost(u) ==
  IF Delta(u) > 0
  THEN [positions EXCEPT ![u.position_id] =
          IF Kind(u.intent_id) = "entry" THEN EntryFill(u) ELSE CloseFill(u)]
  ELSE positions

(* The positions once fills are booked; without one, a late cost of a      *)
(* close still lowers the realized pnl of its position.                    *)
Booked(u) ==
  IF Delta(u) > 0
  THEN [positions EXCEPT ![u.position_id] =
          IF Kind(u.intent_id) = "entry" THEN EntryFill(u) ELSE CloseFill(u)]
  ELSE IF Kind(u.intent_id) = "close"
  THEN [positions EXCEPT ![u.intent_id].realized_pnl = @ - CostDelta(u)]
  ELSE positions

(* _observe_remaining: broker evidence of the exposure that is left.       *)
ObservationAccepted(u, now) ==
  LET p   == u.position_id
      pos == Booked(u)[p]
      owner == pos.owner_intent_id
      ownerState == IF owner = u.intent_id THEN u.state ELSE intents[owner].state
  IN
  /\ p # Nil /\ u.observed_at # Nil
  /\ owner \in Symbols
  /\ owner # u.intent_id => intents[owner].filled_units > 0
  /\ owner = u.intent_id => u.filled_units > 0
  /\ u.intent_id = IF Kind(u.intent_id) = "entry" THEN owner ELSE p
  /\ u.observed_at <= now
  /\ pos.observed_at # Nil => u.observed_at >= pos.observed_at
  /\ pos.observed_at = u.observed_at => pos.observed_units = u.remaining_units
  /\ u.remaining_units <= pos.units
  /\ pos.observed_units # Nil /\ ownerState = "FILLED"
       => u.remaining_units <= pos.observed_units

Observes(u) == u.remaining_units # Nil

(* Mutant: only more exposure than the books is taken for incomplete.      *)
IncompleteIfMore(u) == Observes(u) /\ Booked(u)[u.position_id].units < u.remaining_units

Incomplete(u) == Observes(u) /\ Booked(u)[u.position_id].units # u.remaining_units

Observed(u) ==
  IF ~Observes(u) THEN Booked(u)
  ELSE [Booked(u) EXCEPT ![u.position_id].observed_units = u.remaining_units,
                         ![u.position_id].observed_at = u.observed_at,
                         ![u.position_id].accounting_complete = ~Incomplete(u)]

LateFill(u) == Delta(u) > 0 /\ intents[u.intent_id].state \in {"CANCELLED", "EXPIRED"}

FillRow(u) ==
  [broker_order_id |-> u.broker_order_id, cumulative |-> u.filled_units,
   intent_id |-> u.intent_id, units |-> Delta(u), notional |-> DeltaNotional(u)]

(* Nothing raises, so the transaction commits.                             *)
Commits(u, now) ==
  /\ ReportAccepted(u)
  /\ Delta(u) > 0 => FillAccepted(u)
  /\ Delta(u) = 0 /\ CostDelta(u) # 0 /\ Kind(u.intent_id) = "close"
       => OwnershipProven(u.intent_id)
  /\ Observes(u) => ObservationAccepted(u, now)

Updated(u) ==
  [state |-> u.state, units |-> intents[u.intent_id].units,
   stop_price |-> intents[u.intent_id].stop_price, broker_order_id |-> u.broker_order_id,
   filled_units |-> u.filled_units, average_price |-> u.average_price]

ApplyBrokerOrder(u, now) ==
  LET i == u.intent_id IN
  /\ Commits(u, now)
  /\ intents' = [intents EXCEPT ![i] = Updated(u)]
  /\ positions' = Observed(u)
  /\ fills' = IF Delta(u) > 0 THEN fills \cup {FillRow(u)} ELSE fills
  /\ broker_costs' = [broker_costs EXCEPT ![i] = u.cumulative_cost]
  /\ realized_pnl' = realized_pnl + FillPnl(u)
  /\ reservations' =
       IF Kind(i) = "close" THEN reservations
       ELSE [reservations EXCEPT ![i] = IF u.state \in ACTIVE_STATES
                                        THEN intents[i].units - u.filled_units ELSE Nil]
  /\ late_fills' = IF LateFill(u) THEN late_fills \cup {i} ELSE late_fills
  /\ entries_paused' = (entries_paused \/ LateFill(u) \/ Incomplete(u))
  /\ reconciliation_ok' = (reconciliation_ok /\ ~Incomplete(u))

-----------------------------------------------------------------------------
(* The states the executor's own steps pass to transition().               *)
ExecutorStates == {"SUBMITTING", "UNKNOWN", "EXPIRED", "REJECTED", "CANCEL_PENDING"}

(* The methods that write orders and books: any caller, any argument.  None *)
(* of them reads entries_paused or reconciliation_ok.                      *)
BookNext ==
  \/ \E s \in Symbols, n \in Units, stop \in StopPrices : CreateEntry(s, n, stop)
  \/ \E p \in PositionIds, n \in Units : CreateClose(p, n)
  \/ \E i \in IntentIds, state \in ExecutorStates : Transition(i, state)
  \/ \E p \in PositionIds, stop \in StopPrices, protected \in Protection \cup {TRUE} :
       SetProtection(p, stop, protected)
  \/ \E i \in IntentIds :
       Row(i) /\ \E u \in ReportsOf[i], now \in 0..MaxTime : ApplyBrokerOrder(u, now)

StoreNext ==
  \/ \E paused \in BOOLEAN : Pause(paused)
  \/ \E ok \in BOOLEAN : SetReconciliation(ok)
  \/ BookNext

StoreSpec == StoreInit /\ [][StoreNext]_storeVars

-----------------------------------------------------------------------------
(* Type correctness of every table.                                        *)
TypeOK ==
  /\ intents \in [IntentIds -> OrderIntent]
  /\ reservations \in [Symbols -> Units \cup {Nil}]
  /\ positions \in [PositionIds -> Position]
  /\ broker_costs \in [IntentIds -> 0..MaxCost]
  /\ realized_pnl \in Int
  /\ entries_paused \in BOOLEAN /\ reconciliation_ok \in BOOLEAN
  /\ late_fills \subseteq IntentIds

(* An entry holds a reservation exactly while it is in an active state, for *)
(* exactly the units the broker has not filled: UNKNOWN and CANCEL_PENDING  *)
(* release nothing, a late partial fill of a cancelled entry reserves again *)
(* (store.py create_intent, transition, apply_broker_order).                *)
ReservationsCoverActiveEntries ==
  \A s \in Symbols :
    reservations[s] = IF Active(s) THEN intents[s].units - intents[s].filled_units ELSE Nil

(* What is still held in a position plus what its only close sold never     *)
(* exceeds what its owner bought: the bot cannot go short, also when a late *)
(* fill reopens the position or a second entry reports the same identifier. *)
NeverOversold ==
  \A p \in PositionIds :
    LET owner == positions[p].owner_intent_id IN
    IF owner = Nil THEN ~Row(p) /\ positions[p].units = 0
    ELSE positions[p].units + intents[p].filled_units <= intents[owner].filled_units

(* Cumulative fills agree with the state of the row: nothing is overfilled, *)
(* FILLED is complete, PARTIALLY_FILLED is neither empty nor complete,      *)
(* nothing is filled before it is submitted, and every fill has its price.  *)
FillsMatchState ==
  \A i \in IntentIds :
    LET intent == intents[i] IN
    /\ intent.filled_units <= intent.units
    /\ intent.state = "FILLED" => intent.filled_units = intent.units
    /\ intent.state = "PARTIALLY_FILLED" => intent.filled_units \in 1..(intent.units - 1)
    /\ intent.state \in {Nil, "CREATED", "APPROVED", "SUBMITTING"} => intent.filled_units = 0
    /\ intent.filled_units > 0 <=> intent.average_price # Nil
=============================================================================
