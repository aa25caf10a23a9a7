-------------------------- MODULE StateStore_proofs --------------------------
(***************************************************************************)
(* Safety of the store for every set of symbols, positions and broker      *)
(* identifiers, every bound, and every sequence of calls: the types, the   *)
(* reservations, the fills and the no-short invariant support each other,  *)
(* so one inductive invariant, IInv, conjoins them.  And the books add up: *)
(* a step either leaves quantities and money alone or books one report,    *)
(* which moves at most one position, one cost row and one row of table     *)
(* fills; the theorems about sums carry that over to theirs.               *)
(***************************************************************************)
EXTENDS StoreAccounting, SumTheorems, TLAPS

IInv ==
  /\ TypeOK
  /\ FillsMatchState
  /\ ReservationsCoverActiveEntries
  /\ NeverOversold

(* No executor step brings a finished order back to an active state.        *)
LEMMA NoRevival ==
  ASSUME NEW old \in TERMINAL_STATES, NEW new \in ExecutorStates, ValidTransition(old, new)
  PROVE  new \notin ACTIVE_STATES
  BY DEF OrderState, TERMINAL_STATES, ACTIVE_STATES, ExecutorStates, ValidTransition, TRANSITIONS

(* SUBMITTING is entered only from APPROVED.                                *)
LEMMA SubmittingAfterApproved ==
  ASSUME NEW old \in OrderState, ValidTransition(old, "SUBMITTING")
  PROVE  old \in {"APPROVED", "SUBMITTING"}
  BY DEF OrderState, TERMINAL_STATES, ACTIVE_STATES, ValidTransition, TRANSITIONS

(* What the type of a report says of its fields.                            *)
LEMMA ReportFields ==
  ASSUME NEW i \in IntentIds, NEW u \in ReportsOf[i]
  PROVE  /\ u.intent_id = i /\ u.broker_order_id \in BrokerIds
         /\ u.state \in BrokerStates /\ u.state \in OrderState
         /\ u.filled_units \in Units /\ u.average_price \in Prices \cup {Nil}
         /\ u.position_id \in PositionIds \cup {Nil} /\ u.protected \in BOOLEAN
         /\ u.cumulative_cost \in 0..MaxCost
         /\ u.remaining_units \in Units \cup {Nil} /\ u.observed_at \in Times \cup {Nil}
         /\ u.filled_units > 0 <=> u.average_price # Nil
         /\ u.filled_units > 0 <=> u.position_id # Nil
  BY StoreAssumption DEF ReportsOf, Reports, BrokerOrder, Report, BrokerStates

(* An absent value is no state, identity or quantity, and identities of     *)
(* entries and closes differ (create_intent's uniqueness key and kind).     *)
LEMMA NilDistinct ==
  /\ Nil \notin OrderState /\ Nil \notin ACTIVE_STATES
  /\ Nil \notin Symbols /\ Nil \notin PositionIds /\ Nil \notin Units
  /\ \A s \in Symbols : s \notin PositionIds
  BY StoreAssumption DEF OrderState, ACTIVE_STATES, Units

(* The invariant holds of an empty store.                                  *)
LEMMA IInvInit == StoreInit => IInv
<1> SUFFICES ASSUME StoreInit PROVE IInv
  OBVIOUS
<1> USE StoreAssumption, NilDistinct
<1>1. TypeOK
  <2>1. NoIntent \in OrderIntent
    BY DEF NoIntent, OrderIntent, Units
  <2>2. NoPosition \in Position
    BY DEF NoPosition, Position, Units
  <2>3. intents \in [IntentIds -> OrderIntent]
    BY <2>1 DEF StoreInit
  <2>4. positions \in [PositionIds -> Position]
    BY <2>2 DEF StoreInit
  <2>5. broker_costs \in [IntentIds -> 0..MaxCost]
    BY DEF StoreInit
  <2>6. reservations \in [Symbols -> Units \cup {Nil}]
    BY DEF StoreInit
  <2>7. realized_pnl \in Int /\ late_fills \subseteq IntentIds
    BY DEF StoreInit
  <2>8. entries_paused \in BOOLEAN /\ reconciliation_ok \in BOOLEAN
    BY DEF StoreInit
  <2>9. QED
    BY <2>3, <2>4, <2>5, <2>6, <2>7, <2>8 DEF TypeOK
<1>2. \A i \in IntentIds : intents[i] = NoIntent
  BY DEF StoreInit
<1>3. FillsMatchState
  BY <1>2 DEF FillsMatchState, NoIntent, OrderState, ACTIVE_STATES, TERMINAL_STATES
<1>4. ReservationsCoverActiveEntries
  BY <1>2 DEF StoreInit, ReservationsCoverActiveEntries, NoIntent, Active, IntentIds
<1>5. NeverOversold
  BY <1>2 DEF StoreInit, NeverOversold, NoIntent, NoPosition, Row, IntentIds
<1>6. QED
  BY <1>1, <1>3, <1>4, <1>5 DEF IInv

(* A new intent row keeps the invariant: it has no fills yet.               *)
LEMMA IInvCreateEntry ==
  ASSUME IInv, NEW s \in Symbols, NEW n \in Units, NEW stop \in StopPrices, CreateEntry(s, n, stop)
  PROVE  IInv'
<1> USE StoreAssumption, NilDistinct
<1>1. /\ intents[s].state = Nil /\ intents[s].filled_units = 0
      /\ intents' = [intents EXCEPT ![s] = NewIntent(n, stop)]
      /\ reservations' = [reservations EXCEPT ![s] = n]
      /\ UNCHANGED <<positions, fills, broker_costs, realized_pnl, late_fills, entries_paused,
                     reconciliation_ok>>
  BY DEF CreateEntry, Row, IInv, FillsMatchState, IntentIds, bookVars, gateVars
<1>2. /\ NewIntent(n, stop) \in OrderIntent
      /\ NewIntent(n, stop).state = "APPROVED" /\ NewIntent(n, stop).units = n
      /\ NewIntent(n, stop).filled_units = 0 /\ NewIntent(n, stop).average_price = Nil
  <2>1. "APPROVED" \in OrderState /\ 0 \in Units
    BY DEF OrderState, ACTIVE_STATES, Units
  <2>2. QED
    BY <2>1 DEF NewIntent, OrderIntent
<1>3. TypeOK'
  BY <1>1, <1>2 DEF IInv, TypeOK, IntentIds
<1>4. FillsMatchState'
  BY <1>1, <1>2 DEF IInv, TypeOK, FillsMatchState, IntentIds, Units
<1>5. ReservationsCoverActiveEntries'
  BY <1>1, <1>2 DEF IInv, TypeOK, ReservationsCoverActiveEntries, Active, IntentIds, Units,
                    ACTIVE_STATES
<1>6. NeverOversold'
  <2> SUFFICES ASSUME NEW p \in PositionIds
               PROVE  IF positions[p].owner_intent_id = Nil
                      THEN intents'[p].state = Nil /\ positions[p].units = 0
                      ELSE positions[p].units + intents'[p].filled_units
                             <= intents'[positions[p].owner_intent_id].filled_units
    BY <1>1 DEF NeverOversold, Row
  <2>1. intents'[p] = intents[p]
    BY <1>1 DEF IInv, TypeOK, IntentIds
  <2>2. positions[p].owner_intent_id \in Symbols \cup {Nil}
    BY DEF IInv, TypeOK, Position
  <2>3. \A t \in Symbols : intents'[t].filled_units = intents[t].filled_units
    BY <1>1, <1>2 DEF IInv, TypeOK, IntentIds
  <2>4. QED
    BY <2>1, <2>2, <2>3 DEF IInv, NeverOversold, Row
<1>7. QED
  BY <1>3, <1>4, <1>5, <1>6 DEF IInv

(* A close is created only for a position an entry of ours owns.            *)
LEMMA IInvCreateClose ==
  ASSUME IInv, NEW p \in PositionIds, NEW n \in Units, CreateClose(p, n)
  PROVE  IInv'
<1> USE StoreAssumption, NilDistinct
<1>1. /\ intents[p].state = Nil /\ intents[p].filled_units = 0
      /\ positions[p].owner_intent_id \in Symbols
      /\ intents' = [intents EXCEPT ![p] = NewIntent(n, Nil)]
      /\ UNCHANGED <<reservations, positions, fills, broker_costs, realized_pnl, late_fills,
                     entries_paused, reconciliation_ok>>
  BY DEF CreateClose, OwnershipProven, Row, IInv, FillsMatchState, IntentIds, bookVars, gateVars
<1>2. /\ NewIntent(n, Nil) \in OrderIntent
      /\ NewIntent(n, Nil).state = "APPROVED" /\ NewIntent(n, Nil).units = n
      /\ NewIntent(n, Nil).filled_units = 0 /\ NewIntent(n, Nil).average_price = Nil
  <2>1. "APPROVED" \in OrderState /\ 0 \in Units
    BY DEF OrderState, ACTIVE_STATES, Units
  <2>2. QED
    BY <2>1 DEF NewIntent, OrderIntent
<1>3. TypeOK'
  BY <1>1, <1>2 DEF IInv, TypeOK, IntentIds
<1>4. FillsMatchState'
  BY <1>1, <1>2 DEF IInv, TypeOK, FillsMatchState, IntentIds, Units
<1>5. \A s \in Symbols : intents'[s] = intents[s]
  BY <1>1 DEF IInv, TypeOK, IntentIds
<1>6. ReservationsCoverActiveEntries'
  BY <1>1, <1>5 DEF IInv, ReservationsCoverActiveEntries, Active
<1>7. NeverOversold'
  <2>1. \A q \in PositionIds : q # p => intents'[q] = intents[q]
    BY <1>1 DEF IInv, TypeOK, IntentIds
  <2>2. intents'[p].filled_units = intents[p].filled_units
    BY <1>1, <1>2 DEF IInv, TypeOK, IntentIds
  <2>3. \A q \in PositionIds : positions[q].owner_intent_id \in Symbols \cup {Nil}
    BY DEF IInv, TypeOK, Position
  <2>4. QED
    BY <1>1, <1>5, <2>1, <2>2, <2>3 DEF IInv, NeverOversold, Row
<1>8. QED
  BY <1>3, <1>4, <1>6, <1>7 DEF IInv

(* The executor's transitions change no quantity, and an entry that leaves  *)
(* the active states never comes back to them this way.                     *)
LEMMA IInvTransition ==
  ASSUME IInv, NEW i \in IntentIds, NEW state \in ExecutorStates, Transition(i, state)
  PROVE  IInv'
<1> USE StoreAssumption, NilDistinct
<1> DEFINE new == [intents[i] EXCEPT !.state = state]
<1>1. /\ intents' = [intents EXCEPT ![i] = new]
      /\ UNCHANGED <<positions, fills, broker_costs, realized_pnl, late_fills, entries_paused,
                     reconciliation_ok>>
      /\ intents[i].state # Nil /\ ValidTransition(intents[i].state, state)
      /\ reservations' = IF i \in Symbols /\ state \notin ACTIVE_STATES
                         THEN [reservations EXCEPT ![i] = Nil] ELSE reservations
  BY DEF Transition, Row, bookVars, gateVars
<1>2. state \in OrderState
  BY DEF ExecutorStates, OrderState, ACTIVE_STATES, TERMINAL_STATES
<1>3. /\ intents[i] \in OrderIntent /\ new \in OrderIntent
      /\ new.state = state /\ new.units = intents[i].units
      /\ new.filled_units = intents[i].filled_units
      /\ new.average_price = intents[i].average_price
  BY <1>2 DEF IInv, TypeOK, OrderIntent
<1>4. intents[i].state \in OrderState
  BY <1>1, <1>3 DEF OrderIntent
<1> HIDE DEF new
<1>5. TypeOK'
  BY <1>1, <1>3 DEF IInv, TypeOK, IntentIds
<1>6. FillsMatchState'
  <2>1. state \notin {"FILLED", "PARTIALLY_FILLED", "CREATED", "APPROVED", Nil}
    BY <1>2 DEF ExecutorStates
  <2>2. state = "SUBMITTING" => intents[i].filled_units = 0
    BY <1>1, <1>4, SubmittingAfterApproved DEF IInv, FillsMatchState
  <2>3. QED
    BY <1>1, <1>3, <2>1, <2>2 DEF IInv, TypeOK, FillsMatchState
<1>7. \A j \in IntentIds : intents'[j].filled_units = intents[j].filled_units
  BY <1>1, <1>3 DEF IInv, TypeOK
<1>8. ReservationsCoverActiveEntries'
  <2> SUFFICES ASSUME NEW s \in Symbols
               PROVE  reservations'[s] =
                        IF intents'[s].state \in ACTIVE_STATES
                        THEN intents'[s].units - intents'[s].filled_units ELSE Nil
    BY DEF ReservationsCoverActiveEntries, Active
  <2>1. s \in IntentIds
    BY DEF IntentIds
  <2>2. reservations[s] = IF intents[s].state \in ACTIVE_STATES
                          THEN intents[s].units - intents[s].filled_units ELSE Nil
    BY DEF IInv, ReservationsCoverActiveEntries, Active
  <2>3. CASE s # i
    BY <1>1, <2>1, <2>2, <2>3 DEF IInv, TypeOK
  <2>4. CASE s = i /\ state \notin ACTIVE_STATES
    BY <1>1, <1>3, <2>1, <2>4 DEF IInv, TypeOK
  <2>5. CASE s = i /\ state \in ACTIVE_STATES
    <3>1. intents[i].state \in ACTIVE_STATES
      BY <1>1, <1>4, <2>5, NoRevival DEF OrderState
    <3>2. QED
      BY <1>1, <1>3, <2>1, <2>2, <2>5, <3>1 DEF IInv, TypeOK
  <2>6. QED
    BY <2>3, <2>4, <2>5
<1>9. NeverOversold'
  <2>2. Row(i) /\ Row(i)'
    BY <1>1, <1>2, <1>3 DEF Row, IInv, TypeOK
  <2>3. \A q \in PositionIds : Row(q)' <=> Row(q)
    BY <1>1, <2>2 DEF Row, IInv, TypeOK, IntentIds
  <2>4. \A q \in PositionIds : positions[q].owner_intent_id \in Symbols \cup {Nil}
    BY DEF IInv, TypeOK, Position
  <2>5. QED
    BY <1>1, <1>7, <2>3, <2>4 DEF IInv, NeverOversold, IntentIds
<1>10. QED
  BY <1>5, <1>6, <1>8, <1>9 DEF IInv

(* Steps that leave quantities and orders alone.                            *)
LEMMA IInvOther ==
  ASSUME IInv,
         \/ \E p \in PositionIds, stop \in StopPrices, protected \in BOOLEAN :
              SetProtection(p, stop, protected)
         \/ \E paused \in BOOLEAN : Pause(paused)
         \/ \E ok \in BOOLEAN : SetReconciliation(ok)
         \/ UNCHANGED storeVars
  PROVE  IInv'
<1>1. ASSUME NEW p \in PositionIds, NEW stop \in StopPrices, NEW protected \in BOOLEAN,
             SetProtection(p, stop, protected)
      PROVE  IInv'
  <2>1. /\ UNCHANGED <<intents, reservations, fills, broker_costs, realized_pnl, late_fills,
                       entries_paused, reconciliation_ok>>
        /\ positions' \in [PositionIds -> Position]
        /\ \A q \in PositionIds : /\ positions'[q].units = positions[q].units
                                  /\ positions'[q].owner_intent_id = positions[q].owner_intent_id
    BY <1>1 DEF SetProtection, IInv, TypeOK, Position, orderVars, gateVars
  <2>2. QED
    BY <2>1 DEF IInv, TypeOK, FillsMatchState, ReservationsCoverActiveEntries, Active,
                NeverOversold, Row
<1>2. ASSUME UNCHANGED <<intents, reservations, positions, broker_costs, realized_pnl, late_fills>>,
             entries_paused' \in BOOLEAN, reconciliation_ok' \in BOOLEAN
      PROVE  IInv'
  BY <1>2 DEF IInv, TypeOK, FillsMatchState, ReservationsCoverActiveEntries, Active,
              NeverOversold, Row
<1>3. IInv => entries_paused \in BOOLEAN /\ reconciliation_ok \in BOOLEAN
  BY DEF IInv, TypeOK
<1>4. QED
  BY <1>1, <1>2, <1>3 DEF Pause, SetReconciliation, storeVars, orderVars, bookVars, gateVars

(* The notional of an increment is a number.                                *)
LEMMA DeltaTyped ==
  ASSUME IInv, NEW i \in IntentIds, NEW u \in ReportsOf[i]
  PROVE  /\ intents[i] \in OrderIntent
         /\ Delta(u) \in Int /\ CostDelta(u) \in Int /\ DeltaNotional(u) \in Int
         /\ Delta(u) = u.filled_units - intents[i].filled_units
<1> USE StoreAssumption
<1>1. /\ intents[i] \in OrderIntent /\ broker_costs[i] \in 0..MaxCost
      /\ intents[i].filled_units > 0 <=> intents[i].average_price # Nil
  BY DEF IInv, TypeOK, FillsMatchState
<1>2. \A n \in Units, price \in Prices \cup {Nil} :
        (n > 0 => price # Nil) => Notional(n, price) \in Int
  <2> SUFFICES ASSUME NEW n \in Units, NEW price \in Prices \cup {Nil}, n > 0 => price # Nil
               PROVE  Notional(n, price) \in Int
    OBVIOUS
  <2>1. n \in Nat
    BY DEF Units
  <2>2. CASE n = 0
    BY <2>2 DEF Notional
  <2>3. CASE n # 0
    <3>1. price \in Nat
      BY <2>1, <2>3
    <3>2. n * price \in Int
      BY <2>1, <3>1
    <3>3. QED
      BY <2>3, <3>2 DEF Notional
  <2>4. QED
    BY <2>2, <2>3
<1>3. Notional(u.filled_units, u.average_price) \in Int
  BY <1>2, ReportFields
<1>4. Notional(intents[i].filled_units, intents[i].average_price) \in Int
  BY <1>1, <1>2 DEF OrderIntent
<1>5. DeltaNotional(u) \in Int
  BY <1>3, <1>4, ReportFields DEF DeltaNotional
<1>6. QED
  BY <1>1, <1>5, ReportFields DEF Delta, CostDelta, OrderIntent, Units

(* What one report does to one position: its units move with the fills of   *)
(* the entry or the close, its owner only from nobody to the entry.         *)
LEMMA BookedPositions ==
  ASSUME IInv, NEW i \in IntentIds, NEW u \in ReportsOf[i], NEW now, Commits(u, now)
  PROVE  /\ Booked(u) \in [PositionIds -> Position]
         /\ \A p \in PositionIds :
              LET old == positions[p]
                  new == Booked(u)[p]
              IN \/ /\ new.units = old.units /\ new.owner_intent_id = old.owner_intent_id
                    /\ Delta(u) = 0 \/ p # u.position_id
                 \/ /\ Delta(u) > 0 /\ p = u.position_id
                    /\ i \in Symbols /\ old.owner_intent_id \in {Nil, i}
                    /\ new.owner_intent_id = i
                    /\ new.units = old.units + Delta(u)
                 \/ /\ Delta(u) > 0 /\ p = u.position_id /\ p = i
                    /\ old.owner_intent_id \in Symbols
                    /\ new.owner_intent_id = old.owner_intent_id
                    /\ new.units = old.units - Delta(u)
<1> USE StoreAssumption, NilDistinct
<1>0. /\ Delta(u) \in Int /\ CostDelta(u) \in Int /\ DeltaNotional(u) \in Int
      /\ intents[i] \in OrderIntent /\ Delta(u) = u.filled_units - intents[i].filled_units
      /\ u.filled_units \in intents[i].filled_units..intents[i].units
  BY DeltaTyped, ReportFields DEF Commits, ReportAccepted, QuantityAccepted
<1>1. Delta(u) \in Nat
  BY <1>0, ReportFields DEF OrderIntent, Units
<1>2. positions \in [PositionIds -> Position] /\ u.intent_id = i
  BY ReportFields DEF IInv, TypeOK
<1>3. CASE Delta(u) > 0 /\ i \in Symbols
  <2> DEFINE p == u.position_id
  <2>1. p \in PositionIds /\ u.filled_units > 0
    BY <1>0, <1>3, ReportFields DEF OrderIntent, Units
  <2>2. /\ Booked(u) = [positions EXCEPT ![p] = EntryFill(u)]
        /\ positions[p].owner_intent_id \in {Nil, i} /\ DeltaNotional(u) > 0
    BY <1>2, <1>3 DEF Booked, Commits, FillAccepted, Kind
  <2>3. positions[p] \in Position
    BY <1>2, <2>1
  <2>4. positions[p].units + Delta(u) \in 1..MaxUnits
    <3>1. CASE positions[p].owner_intent_id = Nil
      <4>1. positions[p].units = 0
        BY <2>1, <3>1 DEF IInv, NeverOversold
      <4>2. QED
        BY <1>0, <1>1, <1>3, <4>1, ReportFields DEF OrderIntent, Units
    <3>2. CASE positions[p].owner_intent_id = i
      <4>1. positions[p].units + intents[p].filled_units <= intents[i].filled_units
        BY <2>1, <3>2, <1>3 DEF IInv, NeverOversold
      <4>2. intents[p].filled_units \in Nat /\ positions[p].units \in Nat
        BY <2>1, <2>3 DEF IInv, TypeOK, OrderIntent, Position, Units, IntentIds
      <4>3. QED
        BY <1>0, <1>1, <1>3, <4>1, <4>2, ReportFields DEF OrderIntent, Units
    <3>3. QED
      BY <2>2, <3>1, <3>2
  <2>5. EntryFill(u).average_entry \in Nat
    <3> DEFINE notional == positions[p].units * positions[p].average_entry + DeltaNotional(u)
               units == positions[p].units + Delta(u)
    <3>1. notional \in Nat
      BY <1>0, <2>2, <2>3 DEF Position, Units
    <3>2. units \in Nat \ {0}
      BY <2>4
    <3>3. EntryFill(u).average_entry = notional \div units
      BY DEF EntryFill
    <3>4. \A a \in Nat, b \in Nat \ {0} : a \div b \in Nat
      OBVIOUS
    <3>5. QED
      BY <3>1, <3>2, <3>3, <3>4
  <2>6. EntryFill(u) \in Position
    BY <1>2, <1>3, <1>0, <2>3, <2>4, <2>5, ReportFields DEF EntryFill, Position, OrderIntent, Units
  <2>7. EntryFill(u).units = positions[p].units + Delta(u) /\ EntryFill(u).owner_intent_id = i
    BY <1>2 DEF EntryFill
  <2> HIDE DEF p
  <2>8. QED
    BY <1>2, <1>3, <2>1, <2>2, <2>6, <2>7 DEF p
<1>4. CASE Delta(u) > 0 /\ i \notin Symbols
  <2>1. i \in PositionIds /\ u.position_id = i
    BY <1>2, <1>4 DEF Commits, FillAccepted, Kind, IntentIds
  <2>2. /\ Booked(u) = [positions EXCEPT ![i] = CloseFill(u)]
        /\ positions[i].owner_intent_id \in Symbols
        /\ Delta(u) <= positions[i].units
    BY <1>2, <1>4, <2>1 DEF Booked, Commits, FillAccepted, Kind, OwnershipProven
  <2>3. positions[i] \in Position
    BY <1>2, <2>1
  <2>4. FillPnl(u) \in Int
    BY <1>0, <1>2, <1>4, <2>3 DEF FillPnl, Kind, Position
  <2>5. /\ CloseFill(u) \in Position
        /\ CloseFill(u).units = positions[i].units - Delta(u)
        /\ CloseFill(u).owner_intent_id = positions[i].owner_intent_id
    <3> DEFINE old == positions[i]
               units == old.units - Delta(u)
               pnl == FillPnl(u)
               complete == old.observed_units \in {Nil, units}
    <3>1. CloseFill(u) =
            [old EXCEPT !.units = units, !.realized_pnl = @ + pnl,
                        !.accounting_complete = complete]
      BY <2>1 DEF CloseFill
    <3>2. units \in Units /\ complete \in BOOLEAN /\ old \in Position
      BY <1>0, <1>1, <2>2, <2>3 DEF Position, Units
    <3>3. old.realized_pnl + pnl \in Int
      BY <2>3, <2>4 DEF Position
    <3> HIDE DEF old, units, pnl, complete
    <3>4. QED
      BY <3>1, <3>2, <3>3 DEF Position, old, units
  <2>6. QED
    BY <1>2, <1>4, <2>1, <2>2, <2>5
<1>5. CASE Delta(u) = 0
  <2>1. CASE i \in Symbols
    BY <1>2, <1>5, <2>1 DEF Booked, Kind
  <2>2. CASE i \notin Symbols
    <3>1. i \in PositionIds
      BY <2>2 DEF IntentIds
    <3>2. Booked(u) = [positions EXCEPT ![i].realized_pnl = @ - CostDelta(u)]
      BY <1>2, <1>5, <2>2 DEF Booked, Kind
    <3>3. QED
      BY <1>0, <1>2, <1>5, <3>1, <3>2 DEF Position
  <2>3. QED
    BY <2>1, <2>2
<1>6. QED
  BY <1>1, <1>3, <1>4, <1>5

(* An observation changes neither the units nor the owner of a position.    *)
LEMMA ObservedPositions ==
  ASSUME IInv, NEW i \in IntentIds, NEW u \in ReportsOf[i], NEW now, Commits(u, now)
  PROVE  /\ Observed(u) \in [PositionIds -> Position]
         /\ \A p \in PositionIds :
              /\ Observed(u)[p].units = Booked(u)[p].units
              /\ Observed(u)[p].owner_intent_id = Booked(u)[p].owner_intent_id
<1>1. Booked(u) \in [PositionIds -> Position]
  BY BookedPositions
<1>2. CASE ~Observes(u)
  BY <1>1, <1>2 DEF Observed
<1>3. CASE Observes(u)
  <2>1. /\ u.remaining_units \in Units \cup {Nil} /\ u.observed_at \in Times \cup {Nil}
        /\ u.position_id \in PositionIds
    BY <1>3, ReportFields DEF Commits, ObservationAccepted
  <2>2. Incomplete(u) \in BOOLEAN
    BY DEF Incomplete, Observes
  <2> DEFINE old == Booked(u)[u.position_id]
             complete == ~Incomplete(u)
             new == [old EXCEPT !.observed_units = u.remaining_units,
                                !.observed_at = u.observed_at,
                                !.accounting_complete = complete]
  <2>3. Observed(u) = [Booked(u) EXCEPT ![u.position_id] = new]
    BY <1>1, <1>3, <2>1 DEF Observed
  <2>4. old \in Position /\ complete \in BOOLEAN
    BY <1>1, <2>1, <2>2
  <2>5. new \in Position /\ new.units = old.units /\ new.owner_intent_id = old.owner_intent_id
    <3> HIDE DEF old, complete
    <3>1. QED
      BY <2>1, <2>4 DEF Position
  <2> HIDE DEF new
  <2>6. QED
    BY <1>1, <2>1, <2>3, <2>5 DEF old
<1>4. QED
  BY <1>2, <1>3

(* One cumulative report, booked with everything that follows from it.      *)
LEMMA IInvApplyBrokerOrder ==
  ASSUME IInv, NEW i \in IntentIds, NEW u \in ReportsOf[i], NEW now, ApplyBrokerOrder(u, now)
  PROVE  IInv'
<1> USE StoreAssumption, NilDistinct
<1>1. /\ Commits(u, now) /\ u.intent_id = i
      /\ intents' = [intents EXCEPT ![i] = Updated(u)]
      /\ positions' = Observed(u)
      /\ broker_costs' = [broker_costs EXCEPT ![i] = u.cumulative_cost]
      /\ reservations' =
           IF Kind(i) = "close" THEN reservations
           ELSE [reservations EXCEPT ![i] = IF u.state \in ACTIVE_STATES
                                            THEN intents[i].units - u.filled_units ELSE Nil]
  BY ReportFields DEF ApplyBrokerOrder
<1>2. /\ intents[i] \in OrderIntent /\ intents[i].state # Nil
      /\ Delta(u) = u.filled_units - intents[i].filled_units
      /\ FillPnl(u) \in Int
  <2>1. FillPnl(u) \in Int
    BY <1>1, DeltaTyped DEF FillPnl, Kind, IInv, TypeOK, IntentIds, Position
  <2>2. QED
    BY <1>1, <2>1, DeltaTyped DEF Commits, ReportAccepted, Row
<1>3. /\ u.filled_units \in intents[i].filled_units..intents[i].units
      /\ u.state = "FILLED" => u.filled_units = intents[i].units
      /\ u.state = "PARTIALLY_FILLED" => u.filled_units \in 1..(intents[i].units - 1)
  BY <1>1 DEF Commits, ReportAccepted, QuantityAccepted
<1>4. /\ Updated(u) \in OrderIntent
      /\ Updated(u).state = u.state /\ Updated(u).units = intents[i].units
      /\ Updated(u).filled_units = u.filled_units
      /\ Updated(u).average_price = u.average_price
  BY <1>1, <1>2, ReportFields DEF Updated, OrderIntent
<1> HIDE DEF Updated
<1>5. /\ intents' \in [IntentIds -> OrderIntent]
      /\ intents'[i] = Updated(u)
      /\ \A j \in IntentIds : j # i => intents'[j] = intents[j]
  BY <1>1, <1>4 DEF IInv, TypeOK
<1>6. positions' \in [PositionIds -> Position]
  BY <1>1, ObservedPositions
<1>7. TypeOK'
  <2>1. realized_pnl' \in Int
    BY <1>2 DEF ApplyBrokerOrder, IInv, TypeOK
  <2>2. entries_paused' \in BOOLEAN /\ reconciliation_ok' \in BOOLEAN
    BY DEF ApplyBrokerOrder, IInv, TypeOK, LateFill, Incomplete, Observes
  <2>3. late_fills' \subseteq IntentIds
    BY <1>1 DEF ApplyBrokerOrder, IInv, TypeOK
  <2>4. broker_costs' \in [IntentIds -> 0..MaxCost]
    BY <1>1, ReportFields DEF IInv, TypeOK
  <2>5. reservations' \in [Symbols -> Units \cup {Nil}]
    <3>1. intents[i].units - u.filled_units \in Units
      BY <1>2, <1>3, ReportFields DEF OrderIntent, Units
    <3>2. QED
      BY <1>1, <3>1 DEF IInv, TypeOK
  <2>6. QED
    BY <1>5, <1>6, <2>1, <2>2, <2>3, <2>4, <2>5 DEF TypeOK
<1>8. FillsMatchState'
  <2>1. u.state \notin {Nil, "CREATED", "APPROVED", "SUBMITTING"}
    BY ReportFields DEF BrokerStates
  <2>2. u.filled_units > 0 <=> u.average_price # Nil
    BY ReportFields
  <2>3. QED
    BY <1>2, <1>3, <1>4, <1>5, <2>1, <2>2, ReportFields
    DEF IInv, FillsMatchState, OrderIntent, Units
<1>9. ReservationsCoverActiveEntries'
  <2> SUFFICES ASSUME NEW s \in Symbols
               PROVE  reservations'[s] =
                        IF intents'[s].state \in ACTIVE_STATES
                        THEN intents'[s].units - intents'[s].filled_units ELSE Nil
    BY DEF ReservationsCoverActiveEntries, Active
  <2>1. s \in IntentIds
    BY DEF IntentIds
  <2>2. CASE s = i
    BY <1>1, <1>4, <1>5, <2>2 DEF Kind, IInv, TypeOK
  <2>3. CASE s # i
    BY <1>1, <1>5, <2>1, <2>3 DEF IInv, TypeOK, ReservationsCoverActiveEntries, Active
  <2>4. QED
    BY <2>2, <2>3
<1>10. NeverOversold'
  <2> SUFFICES ASSUME NEW p \in PositionIds
               PROVE  IF positions'[p].owner_intent_id = Nil
                      THEN intents'[p].state = Nil /\ positions'[p].units = 0
                      ELSE positions'[p].units + intents'[p].filled_units
                             <= intents'[positions'[p].owner_intent_id].filled_units
    BY DEF NeverOversold, Row
  <2> DEFINE old == positions[p]
             new == positions'[p]
  <2>1. /\ old \in Position /\ p \in IntentIds
        /\ IF old.owner_intent_id = Nil THEN intents[p].state = Nil /\ old.units = 0
           ELSE old.units + intents[p].filled_units
                  <= intents[old.owner_intent_id].filled_units
    BY DEF IInv, TypeOK, NeverOversold, Row, IntentIds
  <2>2. new.units = Booked(u)[p].units /\ new.owner_intent_id = Booked(u)[p].owner_intent_id
    BY <1>1, ObservedPositions
  <2>3. \A j \in IntentIds : /\ intents[j].filled_units \in Nat
                            /\ intents'[j].filled_units \in Nat
                            /\ intents'[j].filled_units >= intents[j].filled_units
    BY <1>3, <1>4, <1>5, <1>2 DEF IInv, TypeOK, OrderIntent, Units
  <2>4. old.units \in Nat /\ old.owner_intent_id \in Symbols \cup {Nil}
    BY <2>1 DEF Position, Units
  <2>5. CASE /\ new.units = old.units /\ new.owner_intent_id = old.owner_intent_id
             /\ Delta(u) = 0 \/ p # u.position_id
    <3>1. intents'[p].filled_units = intents[p].filled_units
      <4>1. CASE p # i
        BY <1>5, <2>1, <4>1
      <4>2. CASE p = i
        <5>1. Delta(u) = 0 \/ u.position_id = p
          BY <1>1, <1>2, <1>3, <4>2, ReportFields, DeltaTyped
          DEF Commits, FillAccepted, Kind, OrderIntent, Units
        <5>2. QED
          BY <1>2, <1>4, <1>5, <2>5, <4>2, <5>1, ReportFields DEF OrderIntent, Units
      <4>3. QED
        BY <4>1, <4>2
    <3>2. p = i => old.owner_intent_id # Nil
      BY <1>2, <2>1
    <3>3. CASE old.owner_intent_id = Nil
      BY <1>5, <2>1, <2>5, <3>2, <3>3
    <3>4. CASE old.owner_intent_id \in Symbols
      BY <2>1, <2>3, <2>4, <2>5, <3>1, <3>4 DEF IntentIds
    <3>5. QED
      BY <2>4, <3>3, <3>4
  <2>6. CASE /\ i \in Symbols /\ old.owner_intent_id \in {Nil, i}
             /\ new.owner_intent_id = i /\ new.units = old.units + Delta(u)
    <3>1. p # i /\ intents'[p] = intents[p]
      BY <1>5, <2>1, <2>6
    <3>2. old.owner_intent_id = Nil => intents[p].filled_units = 0
      BY <2>1 DEF IInv, FillsMatchState
    <3>3. old.units + intents[p].filled_units <= intents[i].filled_units
      BY <2>1, <2>3, <2>6, <3>2
    <3>4. QED
      BY <1>2, <1>4, <1>5, <2>1, <2>3, <2>4, <2>6, <3>1, <3>3, ReportFields DEF OrderIntent, Units
  <2>7. CASE /\ p = i /\ old.owner_intent_id \in Symbols
             /\ new.owner_intent_id = old.owner_intent_id /\ new.units = old.units - Delta(u)
    <3>1. intents'[old.owner_intent_id] = intents[old.owner_intent_id]
      BY <1>5, <2>7 DEF IntentIds
    <3>2. QED
      BY <1>2, <1>4, <1>5, <2>1, <2>3, <2>4, <2>7, <3>1, ReportFields DEF OrderIntent, Units
  <2>8. QED
    BY <1>1, <2>2, <2>5, <2>6, <2>7, BookedPositions
<1>11. QED
  BY <1>7, <1>8, <1>9, <1>10 DEF IInv

(* Every operation of the store keeps it.                                  *)
LEMMA IInvNext == IInv /\ [StoreNext]_storeVars => IInv'
<1> SUFFICES ASSUME IInv, [StoreNext]_storeVars PROVE IInv'
  OBVIOUS
<1>1. CASE \E s \in Symbols, n \in Units, stop \in StopPrices : CreateEntry(s, n, stop)
  BY <1>1, IInvCreateEntry
<1>2. CASE \E p \in PositionIds, n \in Units : CreateClose(p, n)
  BY <1>2, IInvCreateClose
<1>3. CASE \E i \in IntentIds, state \in ExecutorStates : Transition(i, state)
  BY <1>3, IInvTransition
<1>4. CASE \E i \in IntentIds :
             Row(i) /\ \E u \in ReportsOf[i], now \in 0..MaxTime : ApplyBrokerOrder(u, now)
  BY <1>4, IInvApplyBrokerOrder
<1>5. CASE \/ \E p \in PositionIds, stop \in StopPrices, protected \in BOOLEAN :
                SetProtection(p, stop, protected)
           \/ \E paused \in BOOLEAN : Pause(paused)
           \/ \E ok \in BOOLEAN : SetReconciliation(ok)
           \/ UNCHANGED storeVars
  BY <1>5, IInvOther
<1>6. QED
  BY <1>1, <1>2, <1>3, <1>4, <1>5, StoreAssumption DEF StoreNext, BookNext

(* The invariant holds in every state the store can reach.                  *)
THEOREM StoreInvariant == StoreSpec => []IInv
  BY IInvInit, IInvNext, PTL DEF StoreSpec

(* Every table stays well typed, for every bound: in particular no position *)
(* ever has negative units (store.py apply_broker_order, _apply_fill).      *)
THEOREM StoreTypes == StoreSpec => []TypeOK
<1>1. IInv => TypeOK
  BY DEF IInv
<1>2. QED
  BY <1>1, StoreInvariant, PTL

(* Reserved cash and risk always cover exactly what active entries may      *)
(* still buy (store.py create_intent, transition, apply_broker_order).      *)
THEOREM ReservationsAreExact == StoreSpec => []ReservationsCoverActiveEntries
<1>1. IInv => ReservationsCoverActiveEntries
  BY DEF IInv
<1>2. QED
  BY <1>1, StoreInvariant, PTL

(* The bot never sells what it did not buy (store.py create_intent,         *)
(* _apply_fill).                                                            *)
THEOREM NoShortSale == StoreSpec => []NeverOversold
<1>1. IInv => NeverOversold
  BY DEF IInv
<1>2. QED
  BY <1>1, StoreInvariant, PTL

(* Cumulative quantities and order states never contradict each other       *)
(* (store.py apply_broker_order).                                           *)
THEOREM FillsAgreeWithStates == StoreSpec => []FillsMatchState
<1>1. IInv => FillsMatchState
  BY DEF IInv
<1>2. QED
  BY <1>1, StoreInvariant, PTL

-----------------------------------------------------------------------------
(* What a step may change.                                                 *)

(* No quantity, price or money moves.                                      *)
Quiet ==
  /\ fills' = fills /\ broker_costs' = broker_costs /\ realized_pnl' = realized_pnl
  /\ \A p \in PositionIds :
       /\ positions'[p].units = positions[p].units
       /\ positions'[p].owner_intent_id = positions[p].owner_intent_id
       /\ positions'[p].average_entry = positions[p].average_entry
       /\ positions'[p].realized_pnl = positions[p].realized_pnl
  /\ \A i \in IntentIds :
       /\ intents'[i].filled_units = intents[i].filled_units
       /\ intents'[i].average_price = intents[i].average_price

(* A new intent has no fills, like the row that was not there.             *)
LEMMA NewIntentQuiet ==
  ASSUME IInv, NEW i \in IntentIds, ~Row(i), NEW n \in Units, NEW stop,
         intents' = [intents EXCEPT ![i] = NewIntent(n, stop)], UNCHANGED bookVars
  PROVE  Quiet
<1>1. /\ intents[i].filled_units = 0 /\ intents[i].average_price = Nil
      /\ intents[i] \in OrderIntent
  BY DEF IInv, TypeOK, FillsMatchState, Row
<1>2. NewIntent(n, stop).filled_units = 0 /\ NewIntent(n, stop).average_price = Nil
  BY DEF NewIntent
<1>3. QED
  BY <1>1, <1>2 DEF Quiet, bookVars, IInv, TypeOK

(* Every step of the store is quiet or books a report.                     *)
LEMMA StepKinds ==
  ASSUME IInv, [StoreNext]_storeVars
  PROVE  \/ Quiet
         \/ \E i \in IntentIds : \E u \in ReportsOf[i], now \in 0..MaxTime :
              ApplyBrokerOrder(u, now)
<1>1. ASSUME NEW s \in Symbols, NEW n \in Units, NEW stop \in StopPrices, CreateEntry(s, n, stop)
      PROVE  Quiet
  BY <1>1, NewIntentQuiet DEF CreateEntry, IntentIds
<1>2. ASSUME NEW p \in PositionIds, NEW n \in Units, CreateClose(p, n) PROVE Quiet
  BY <1>2, NewIntentQuiet DEF CreateClose, IntentIds
<1>3. ASSUME NEW i \in IntentIds, NEW state \in ExecutorStates, Transition(i, state) PROVE Quiet
  BY <1>3 DEF Transition, Quiet, bookVars, IInv, TypeOK, OrderIntent
<1>4. ASSUME NEW p \in PositionIds, NEW stop, NEW protected, SetProtection(p, stop, protected)
      PROVE  Quiet
  BY <1>4 DEF SetProtection, Quiet, orderVars, IInv, TypeOK, Position
<1>5. CASE (\E paused \in BOOLEAN : Pause(paused)) \/ (\E ok \in BOOLEAN : SetReconciliation(ok))
           \/ UNCHANGED storeVars
  BY <1>5 DEF Pause, SetReconciliation, Quiet, storeVars, orderVars, bookVars
<1>6. QED
  BY <1>1, <1>2, <1>3, <1>4, <1>5 DEF StoreNext, BookNext

(* The notional of a report is a number.                                   *)
LEMMA NotionalTyped ==
  ASSUME NEW i \in IntentIds, NEW u \in ReportsOf[i]
  PROVE  Notional(u.filled_units, u.average_price) \in Int
<1>1. u.filled_units \in Nat
  BY ReportFields DEF Units
<1>2. CASE u.filled_units = 0
  BY <1>2 DEF Notional
<1>3. CASE u.filled_units > 0
  <2>1. u.average_price \in Nat
    BY <1>3, ReportFields, StoreAssumption
  <2>2. u.filled_units * u.average_price \in Int
    BY <1>1, <2>1
  <2>3. QED
    BY <1>3, <2>2 DEF Notional
<1>4. QED
  BY <1>1, <1>2, <1>3

(* A report without a new fill moves no money besides its cost.            *)
LEMMA NoFillNoNotional ==
  ASSUME IInv, NEW i \in IntentIds, NEW u \in ReportsOf[i], NEW now, Commits(u, now), Delta(u) = 0
  PROVE  DeltaNotional(u) = 0
<1>1. /\ u.intent_id = i /\ u.filled_units = intents[i].filled_units /\ u.filled_units \in Nat
      /\ u.filled_units > 0 => u.average_price = intents[i].average_price
  BY DeltaTyped, ReportFields DEF Commits, ReportAccepted, Delta, OrderIntent, Units
<1>2. Notional(u.filled_units, u.average_price)
        = Notional(intents[i].filled_units, intents[i].average_price)
  BY <1>1 DEF Notional
<1>3. QED
  BY <1>1, <1>2, DeltaTyped, NotionalTyped DEF DeltaNotional

(* The numbers of a report that is booked.                                 *)
LEMMA ReportStep ==
  ASSUME IInv, NEW i \in IntentIds, NEW u \in ReportsOf[i], NEW now, ApplyBrokerOrder(u, now)
  PROVE  /\ Commits(u, now) /\ u.intent_id = i
         /\ Delta(u) \in Nat /\ CostDelta(u) \in Int /\ DeltaNotional(u) \in Int
         /\ Delta(u) > 0 => DeltaNotional(u) > 0
         /\ Delta(u) = 0 => DeltaNotional(u) = 0
         /\ intents'[i].filled_units = intents[i].filled_units + Delta(u)
         /\ intents'[i].filled_units = u.filled_units
         /\ intents'[i].average_price = u.average_price
         /\ \A j \in IntentIds \ {i} : intents'[j] = intents[j]
         /\ broker_costs' = [broker_costs EXCEPT ![i] = broker_costs[i] + CostDelta(u)]
         /\ realized_pnl' = realized_pnl + FillPnl(u)
         /\ fills' = IF Delta(u) > 0 THEN fills \cup {FillRow(u)} ELSE fills
         /\ positions' = Observed(u)
<1>1. /\ Commits(u, now) /\ u.intent_id = i
      /\ intents' = [intents EXCEPT ![i] = Updated(u)]
      /\ broker_costs' = [broker_costs EXCEPT ![i] = u.cumulative_cost]
      /\ realized_pnl' = realized_pnl + FillPnl(u)
      /\ fills' = IF Delta(u) > 0 THEN fills \cup {FillRow(u)} ELSE fills
      /\ positions' = Observed(u)
  BY ReportFields DEF ApplyBrokerOrder
<1>2. /\ Delta(u) \in Int /\ CostDelta(u) \in Int /\ DeltaNotional(u) \in Int
      /\ Delta(u) = u.filled_units - intents[i].filled_units
      /\ intents[i] \in OrderIntent
  BY DeltaTyped
<1>3. Delta(u) \in Nat
  BY <1>1, <1>2, ReportFields DEF Commits, ReportAccepted, QuantityAccepted, OrderIntent, Units
<1>4. Delta(u) > 0 => DeltaNotional(u) > 0
  BY <1>1 DEF Commits, FillAccepted
<1>5. Delta(u) = 0 => DeltaNotional(u) = 0
  BY <1>1, NoFillNoNotional
<1>6. u.cumulative_cost = broker_costs[i] + CostDelta(u)
  BY <1>1, ReportFields DEF CostDelta, IInv, TypeOK
<1>7. Updated(u).filled_units = u.filled_units /\ Updated(u).average_price = u.average_price
  BY DEF Updated
<1>8. /\ intents'[i] = Updated(u)
      /\ \A j \in IntentIds \ {i} : intents'[j] = intents[j]
  BY <1>1 DEF IInv, TypeOK
<1>9. u.filled_units = intents[i].filled_units + Delta(u)
  BY <1>2, ReportFields DEF OrderIntent, Units
<1>10. QED
  BY <1>1, <1>2, <1>3, <1>4, <1>5, <1>6, <1>7, <1>8, <1>9

(* An observation leaves the money of a position alone, too.               *)
LEMMA ObservedMoney ==
  ASSUME IInv, NEW i \in IntentIds, NEW u \in ReportsOf[i], NEW now, Commits(u, now),
         NEW p \in PositionIds
  PROVE  /\ Observed(u)[p].average_entry = Booked(u)[p].average_entry
         /\ Observed(u)[p].realized_pnl = Booked(u)[p].realized_pnl
<1>1. Booked(u) \in [PositionIds -> Position]
  BY BookedPositions
<1>2. QED
  BY <1>1 DEF Observed, Position

SameMoney(p) ==
  /\ positions'[p].units = positions[p].units
  /\ positions'[p].average_entry = positions[p].average_entry
  /\ positions'[p].realized_pnl = positions[p].realized_pnl

(* The three ways a report moves the money of positions: it opens or adds   *)
(* to the position of an entry, carries only a cost of an entry, or sells   *)
(* from (perhaps nothing, only a cost) the position of a close.             *)
Opens(i, u) ==
  /\ i \in Symbols /\ Delta(u) > 0 /\ u.position_id \in PositionIds
  /\ FillPnl(u) = - CostDelta(u)
  /\ positions[u.position_id].owner_intent_id \in {Nil, i}
  /\ positions'[u.position_id].owner_intent_id = i
  /\ positions'[u.position_id].realized_pnl = positions[u.position_id].realized_pnl
  /\ positions'[u.position_id].units = positions[u.position_id].units + Delta(u)
  /\ positions'[u.position_id].average_entry
       = (positions[u.position_id].units * positions[u.position_id].average_entry
            + DeltaNotional(u)) \div (positions[u.position_id].units + Delta(u))
  /\ \A p \in PositionIds \ {u.position_id} : SameMoney(p)

OnlyCosts(i, u) ==
  /\ i \in Symbols /\ Delta(u) = 0 /\ FillPnl(u) = - CostDelta(u)
  /\ \A p \in PositionIds : SameMoney(p)

Sells(i, u) ==
  /\ i \in PositionIds
  /\ FillPnl(u) = DeltaNotional(u) - Delta(u) * positions[i].average_entry - CostDelta(u)
  /\ positions'[i].realized_pnl = positions[i].realized_pnl + FillPnl(u)
  /\ positions'[i].units = positions[i].units - Delta(u)
  /\ positions'[i].average_entry = positions[i].average_entry
  /\ \A p \in PositionIds \ {i} : SameMoney(p)

(* A booked report opens a position, only charges a cost, or sells.        *)
LEMMA ReportMoney ==
  ASSUME IInv, NEW i \in IntentIds, NEW u \in ReportsOf[i], NEW now, ApplyBrokerOrder(u, now)
  PROVE  Opens(i, u) \/ OnlyCosts(i, u) \/ Sells(i, u)
<1>1. /\ Commits(u, now) /\ u.intent_id = i
      /\ Delta(u) \in Nat /\ CostDelta(u) \in Int /\ DeltaNotional(u) \in Int
      /\ Delta(u) = 0 => DeltaNotional(u) = 0
  BY ReportStep
<1>2. ASSUME NEW p \in PositionIds
      PROVE  /\ positions'[p].units = Booked(u)[p].units
             /\ positions'[p].owner_intent_id = Booked(u)[p].owner_intent_id
             /\ positions'[p].average_entry = Booked(u)[p].average_entry
             /\ positions'[p].realized_pnl = Booked(u)[p].realized_pnl
  BY <1>1, ReportStep, ObservedPositions, ObservedMoney
<1>3. positions \in [PositionIds -> Position]
  BY DEF IInv, TypeOK
<1>4. ASSUME i \in Symbols PROVE FillPnl(u) = - CostDelta(u)
  BY <1>1, <1>4 DEF FillPnl, Kind
<1>5. CASE i \in Symbols /\ Delta(u) > 0
  <2>1. u.filled_units > 0
    BY <1>1, <1>5, DeltaTyped, ReportFields DEF OrderIntent, Units
  <2>2. u.position_id \in PositionIds
    BY <2>1, ReportFields
  <2>3. Booked(u) = [positions EXCEPT ![u.position_id] = EntryFill(u)]
    BY <1>1, <1>5 DEF Booked, Kind
  <2>4. positions[u.position_id].owner_intent_id \in {Nil, i}
    BY <1>1, <1>5 DEF Commits, FillAccepted, Kind
  <2>5. \A p \in PositionIds \ {u.position_id} : Booked(u)[p] = positions[p]
    BY <1>3, <2>3
  <2>6. /\ Booked(u)[u.position_id].owner_intent_id = i
        /\ Booked(u)[u.position_id].units = positions[u.position_id].units + Delta(u)
        /\ Booked(u)[u.position_id].realized_pnl = positions[u.position_id].realized_pnl
        /\ Booked(u)[u.position_id].average_entry
             = (positions[u.position_id].units * positions[u.position_id].average_entry
                  + DeltaNotional(u)) \div (positions[u.position_id].units + Delta(u))
    <3>1. Booked(u)[u.position_id] = EntryFill(u)
      BY <1>3, <2>2, <2>3
    <3>2. QED
      BY <1>1, <3>1 DEF EntryFill
  <2>7. QED
    BY <1>2, <1>4, <1>5, <2>2, <2>4, <2>5, <2>6 DEF Opens, SameMoney
<1>6. CASE i \in Symbols /\ Delta(u) = 0
  <2>1. Booked(u) = positions
    BY <1>1, <1>6 DEF Booked, Kind
  <2>2. QED
    BY <1>2, <1>4, <1>6, <2>1 DEF OnlyCosts, SameMoney
<1>7. CASE i \notin Symbols
  <2>1. i \in PositionIds
    BY <1>7 DEF IntentIds
  <2>2. FillPnl(u) = DeltaNotional(u) - Delta(u) * positions[i].average_entry - CostDelta(u)
    BY <1>1, <1>7 DEF FillPnl, Kind
  <2>3. positions[i].units \in Int /\ positions[i].average_entry \in Int
        /\ positions[i].realized_pnl \in Int
    BY <1>3, <2>1 DEF Position, Units
  <2>4. /\ Booked(u)[i].realized_pnl = positions[i].realized_pnl + FillPnl(u)
        /\ Booked(u)[i].units = positions[i].units - Delta(u)
        /\ Booked(u)[i].average_entry = positions[i].average_entry
        /\ \A p \in PositionIds \ {i} : Booked(u)[p] = positions[p]
    <3>1. CASE Delta(u) > 0
      <4>1. u.position_id = i
        BY <1>1, <1>7, <3>1 DEF Commits, FillAccepted, Kind
      <4>2. Booked(u) = [positions EXCEPT ![i] = CloseFill(u)]
        BY <1>1, <1>7, <3>1, <4>1 DEF Booked, Kind
      <4>3. /\ CloseFill(u).units = positions[i].units - Delta(u)
            /\ CloseFill(u).average_entry = positions[i].average_entry
            /\ CloseFill(u).realized_pnl = positions[i].realized_pnl + FillPnl(u)
        <5>1. positions[i] \in Position
          BY <1>3, <2>1
        <5>2. QED
          BY <4>1, <5>1 DEF CloseFill, Position
      <4> HIDE DEF CloseFill
      <4>4. QED
        BY <1>3, <2>1, <4>2, <4>3
    <3>2. CASE Delta(u) = 0
      <4>1. Booked(u) = [positions EXCEPT ![i].realized_pnl = @ - CostDelta(u)]
        BY <1>1, <1>7, <3>2 DEF Booked, Kind
      <4>2. 0 * positions[i].average_entry = 0
        BY <2>3
      <4>3. FillPnl(u) = - CostDelta(u)
        BY <1>1, <2>2, <3>2, <4>2
      <4>4. positions[i].realized_pnl - CostDelta(u) = positions[i].realized_pnl + FillPnl(u)
            /\ positions[i].units = positions[i].units - Delta(u)
        BY <1>1, <2>3, <3>2, <4>3
      <4>5. QED
        BY <1>3, <2>1, <4>1, <4>4 DEF Position
    <3>3. QED
      BY <1>1, <3>1, <3>2
  <2>5. QED
    BY <1>2, <2>1, <2>2, <2>4 DEF Sells, SameMoney
<1>8. QED
  BY <1>1, <1>5, <1>6, <1>7

-----------------------------------------------------------------------------
(* How the sums move.                                                      *)

(* There are finitely many intents.                                        *)
LEMMA FiniteIds == IsFiniteSet(IntentIds)
  BY FiniteIdsAssumption, FS_Union DEF IntentIds

(* A sum of costs moves with the cost the report carries.                  *)
LEMMA CostsMove ==
  ASSUME IInv, NEW i \in IntentIds, NEW u \in ReportsOf[i], NEW now, ApplyBrokerOrder(u, now),
         NEW S \in SUBSET IntentIds
  PROVE  /\ SumFunctionOnSet(broker_costs, S) \in Int
         /\ SumFunctionOnSet(broker_costs', S)
             = SumFunctionOnSet(broker_costs, S) + (IF i \in S THEN CostDelta(u) ELSE 0)
<1>1. IsFiniteSet(S)
  BY FiniteIds, FS_Subset
<1>2. \A j \in S : broker_costs[j] \in Int
  BY DEF IInv, TypeOK
<1>3. /\ CostDelta(u) \in Int
      /\ broker_costs' = [broker_costs EXCEPT ![i] = broker_costs[i] + CostDelta(u)]
  BY ReportStep
<1>4. /\ broker_costs'[i] = broker_costs[i] + CostDelta(u)
      /\ \A j \in S \ {i} : broker_costs'[j] = broker_costs[j]
  BY <1>3 DEF IInv, TypeOK
<1>5. SumFunctionOnSet(broker_costs, S) \in Int
  BY <1>1, <1>2, SumType
<1>6. CASE i \in S
  <2>1. \A j \in S : broker_costs[j] \in Int /\ broker_costs'[j] \in Int
    BY <1>2, <1>3, <1>4, <1>6
  <2>2. SumFunctionOnSet(broker_costs', S)
          = SumFunctionOnSet(broker_costs, S) + broker_costs'[i] - broker_costs[i]
    BY <1>1, <1>4, <1>6, <2>1, SumChange
  <2>3. broker_costs[i] \in Int
    BY <1>2, <1>6
  <2>4. QED
    BY <1>3, <1>4, <1>5, <1>6, <2>2, <2>3
<1>7. CASE i \notin S
  <2>1. SumFunctionOnSet(broker_costs', S) = SumFunctionOnSet(broker_costs, S)
    BY <1>1, <1>2, <1>4, <1>7, SumCongruent
  <2>2. QED
    BY <1>5, <1>7, <2>1
<1>8. QED
  BY <1>6, <1>7

(* A sum over all positions of a value that one of them changes.           *)
LEMMA PositionsMove ==
  ASSUME NEW g, NEW k, NEW q \in PositionIds,
         \A p \in PositionIds : g[p] \in Int /\ k[p] \in Int,
         \A p \in PositionIds \ {q} : k[p] = g[p]
  PROVE  /\ SumFunctionOnSet(g, PositionIds) \in Int
         /\ SumFunctionOnSet(k, PositionIds) = SumFunctionOnSet(g, PositionIds) + k[q] - g[q]
  BY FiniteIdsAssumption, SumChange, SumType

(* The sums of a function are over its domain.                             *)
LEMMA SumsOverPositions ==
  /\ SumFunction(PositionPnl) = SumFunctionOnSet(PositionPnl, PositionIds)
  /\ SumFunction(CostBasis) = SumFunctionOnSet(CostBasis, PositionIds)
  BY DEF SumFunction, PositionPnl, CostBasis

(* The money of positions stays whole numbers.                             *)
LEMMA MoneyTyped ==
  ASSUME TypeOK
  PROVE  \A p \in PositionIds :
           /\ positions[p].units \in Nat /\ positions[p].average_entry \in Nat
           /\ positions[p].realized_pnl \in Int
           /\ positions[p].owner_intent_id \in Symbols \cup {Nil}
           /\ PositionPnl[p] = positions[p].realized_pnl /\ PositionPnl[p] \in Int
           /\ CostBasis[p] = positions[p].units * positions[p].average_entry
           /\ CostBasis[p] \in Int
<1> SUFFICES ASSUME NEW p \in PositionIds
             PROVE  /\ positions[p].units \in Nat /\ positions[p].average_entry \in Nat
                    /\ positions[p].realized_pnl \in Int
                    /\ positions[p].owner_intent_id \in Symbols \cup {Nil}
                    /\ PositionPnl[p] = positions[p].realized_pnl /\ PositionPnl[p] \in Int
                    /\ CostBasis[p] = positions[p].units * positions[p].average_entry
                    /\ CostBasis[p] \in Int
  OBVIOUS
<1>1. positions[p] \in Position
  BY DEF TypeOK
<1>2. /\ positions[p].units \in Nat /\ positions[p].average_entry \in Nat
      /\ positions[p].realized_pnl \in Int
      /\ positions[p].owner_intent_id \in Symbols \cup {Nil}
  BY <1>1, StoreAssumption DEF Position, Units
<1>3. positions[p].units * positions[p].average_entry \in Int
  BY <1>2
<1>4. QED
  BY <1>2, <1>3 DEF PositionPnl, CostBasis

-----------------------------------------------------------------------------
(* The realized pnl of the session.                                        *)
LEMMA SessionPnlStep ==
  ASSUME IInv, SessionPnlMatchesPositions, [StoreNext]_storeVars
  PROVE  SessionPnlMatchesPositions'
<1>1. TypeOK /\ TypeOK'
  BY IInvNext DEF IInv
<1>2. \A p \in PositionIds : /\ PositionPnl[p] = positions[p].realized_pnl
                            /\ PositionPnl[p] \in Int
                            /\ PositionPnl'[p] = positions'[p].realized_pnl
                            /\ PositionPnl'[p] \in Int
  <2>1. \A p \in PositionIds : positions'[p].realized_pnl \in Int
    BY <1>1 DEF TypeOK, Position
  <2>2. QED
    BY <1>1, <2>1, MoneyTyped DEF PositionPnl
<1>3. /\ SumFunction(PositionPnl) = SumFunctionOnSet(PositionPnl, PositionIds)
      /\ SumFunction(PositionPnl') = SumFunctionOnSet(PositionPnl', PositionIds)
  BY DEF SumFunction, PositionPnl
<1>4. realized_pnl \in Int
  BY <1>1 DEF TypeOK
<1>5. CASE Quiet
  <2>1. broker_costs' = broker_costs /\ realized_pnl' = realized_pnl
    BY <1>5 DEF Quiet
  <2>2. SumFunctionOnSet(PositionPnl', PositionIds) = SumFunctionOnSet(PositionPnl, PositionIds)
    BY <1>2, <1>5, SumCongruent, FiniteIdsAssumption DEF Quiet
  <2>3. QED
    BY <1>3, <2>1, <2>2 DEF SessionPnlMatchesPositions
<1>6. ASSUME NEW i \in IntentIds, NEW u \in ReportsOf[i], NEW now, ApplyBrokerOrder(u, now)
      PROVE  SessionPnlMatchesPositions'
  <2>1. /\ realized_pnl' = realized_pnl + FillPnl(u) /\ CostDelta(u) \in Int
        /\ Opens(i, u) \/ OnlyCosts(i, u) \/ Sells(i, u)
    BY <1>6, ReportStep, ReportMoney
  <2>2. /\ SumFunctionOnSet(broker_costs, Symbols) \in Int
        /\ SumFunctionOnSet(broker_costs', Symbols)
             = SumFunctionOnSet(broker_costs, Symbols) + (IF i \in Symbols THEN CostDelta(u) ELSE 0)
    BY <1>6, CostsMove DEF IntentIds
  <2>3. CASE Opens(i, u) \/ OnlyCosts(i, u)
    <3>1. \A p \in PositionIds : PositionPnl'[p] = PositionPnl[p]
      BY <1>2, <2>3 DEF Opens, OnlyCosts, SameMoney
    <3>2. SumFunctionOnSet(PositionPnl', PositionIds) = SumFunctionOnSet(PositionPnl, PositionIds)
      BY <1>2, <3>1, SumCongruent, FiniteIdsAssumption
    <3>3. i \in Symbols /\ FillPnl(u) = - CostDelta(u)
      BY <2>3 DEF Opens, OnlyCosts
    <3>4. SumFunctionOnSet(PositionPnl, PositionIds) \in Int
      BY <1>2, SumType, FiniteIdsAssumption
    <3>5. QED
      BY <1>3, <1>4, <2>1, <2>2, <3>2, <3>3, <3>4 DEF SessionPnlMatchesPositions
  <2>4. CASE Sells(i, u)
    <3>1. /\ i \in PositionIds /\ i \notin Symbols
          /\ PositionPnl'[i] = PositionPnl[i] + FillPnl(u)
          /\ \A p \in PositionIds \ {i} : PositionPnl'[p] = PositionPnl[p]
      BY <1>2, <2>4, NilDistinct DEF Sells, SameMoney
    <3>2. /\ SumFunctionOnSet(PositionPnl, PositionIds) \in Int
          /\ SumFunctionOnSet(PositionPnl', PositionIds)
               = SumFunctionOnSet(PositionPnl, PositionIds) + PositionPnl'[i] - PositionPnl[i]
      BY <1>2, <3>1, PositionsMove
    <3>3. FillPnl(u) \in Int /\ PositionPnl[i] \in Int
      <4>1. positions[i].average_entry \in Int
        BY <1>1, <3>1, MoneyTyped
      <4>2. Delta(u) * positions[i].average_entry \in Int
        BY <1>6, <4>1, ReportStep
      <4>3. QED
        BY <1>2, <1>6, <2>4, <3>1, <4>2, ReportStep DEF Sells
    <3>4. QED
      BY <1>3, <1>4, <2>1, <2>2, <3>1, <3>2, <3>3 DEF SessionPnlMatchesPositions
  <2>5. QED
    BY <2>1, <2>3, <2>4
<1>7. QED
  BY <1>5, <1>6, StepKinds

(* The realized pnl of the session is always that of its positions less    *)
(* the costs of the entries (store.py apply_broker_order, _apply_fill).    *)
THEOREM SessionPnlAddsUp == StoreSpec => []SessionPnlMatchesPositions
<1>1. StoreInit => SessionPnlMatchesPositions
  <2> SUFFICES ASSUME StoreInit PROVE SessionPnlMatchesPositions
    OBVIOUS
  <2>1. \A p \in PositionIds : PositionPnl[p] = 0
    BY DEF StoreInit, NoPosition, PositionPnl
  <2>2. SumFunctionOnSet(PositionPnl, PositionIds) = 0
    BY <2>1, SumZero, FiniteIdsAssumption
  <2>3. \A s \in Symbols : broker_costs[s] = 0
    BY DEF StoreInit, IntentIds
  <2>4. SumFunctionOnSet(broker_costs, Symbols) = 0
    BY <2>3, SumZero, FiniteIdsAssumption
  <2>5. QED
    BY <2>2, <2>4, SumsOverPositions DEF SessionPnlMatchesPositions, StoreInit
<1>2. QED
  BY <1>1, StoreInvariant, SessionPnlStep, PTL DEF StoreSpec

-----------------------------------------------------------------------------
(* Units.                                                                   *)

(* What a report does to the units of the store: a fill of entry i adds     *)
(* Delta to a position that is nobody's or already its own, and every other *)
(* report leaves each position's owner and accounted units alone.           *)
LEMMA UnitsMove ==
  ASSUME IInv, NEW i \in IntentIds, NEW u \in ReportsOf[i], NEW now, ApplyBrokerOrder(u, now)
  PROVE  \/ /\ i \in Symbols /\ u.position_id \in PositionIds
            /\ positions[u.position_id].owner_intent_id \in {Nil, i}
            /\ positions'[u.position_id].owner_intent_id = i
            /\ Accounted'[u.position_id] = Accounted[u.position_id] + Delta(u)
            /\ \A p \in PositionIds \ {u.position_id} :
                 /\ positions'[p].owner_intent_id = positions[p].owner_intent_id
                 /\ Accounted'[p] = Accounted[p]
         \/ /\ \A s \in Symbols : intents'[s].filled_units = intents[s].filled_units
            /\ \A p \in PositionIds :
                 /\ positions'[p].owner_intent_id = positions[p].owner_intent_id
                 /\ Accounted'[p] = Accounted[p]
<1>1. /\ Commits(u, now) /\ u.intent_id = i /\ Delta(u) \in Nat
      /\ intents'[i].filled_units = intents[i].filled_units + Delta(u)
      /\ \A j \in IntentIds \ {i} : intents'[j] = intents[j]
  BY ReportStep
<1>2. \A p \in PositionIds :
        /\ positions'[p].units = Booked(u)[p].units
        /\ positions'[p].owner_intent_id = Booked(u)[p].owner_intent_id
  BY <1>1, ReportStep, ObservedPositions
<1>3. \A j \in IntentIds : intents[j].filled_units \in Int
  BY DEF IInv, TypeOK, OrderIntent, Units
<1>4. \A p \in PositionIds : positions[p].units \in Int
  BY MoneyTyped DEF IInv
<1>5. \A p \in PositionIds :
        /\ Accounted[p] = positions[p].units + intents[p].filled_units
        /\ Accounted'[p] = positions'[p].units + intents'[p].filled_units
  BY DEF Accounted
<1>6. \A p \in PositionIds : p \in IntentIds /\ p \notin Symbols
  BY NilDistinct DEF IntentIds
<1>7. CASE Delta(u) = 0
  <2>1. \A p \in PositionIds : /\ positions'[p].units = positions[p].units
                              /\ positions'[p].owner_intent_id = positions[p].owner_intent_id
    BY <1>1, <1>2, <1>7, BookedPositions
  <2>2. \A j \in IntentIds : intents'[j].filled_units = intents[j].filled_units
    BY <1>1, <1>3, <1>7
  <2>3. QED
    BY <1>5, <1>6, <2>1, <2>2 DEF IntentIds
<1>8. CASE Delta(u) > 0 /\ i \in Symbols
  <2>1. u.position_id \in PositionIds
    <3>1. u.filled_units > 0
      BY <1>1, <1>8, DeltaTyped, ReportFields DEF OrderIntent, Units
    <3>2. QED
      BY <3>1, ReportFields
  <2>2. \A p \in PositionIds : intents'[p] = intents[p]
    BY <1>1, <1>6, <1>8
  <2>3. \A p \in PositionIds \ {u.position_id} :
          /\ positions'[p].units = positions[p].units
          /\ positions'[p].owner_intent_id = positions[p].owner_intent_id
    BY <1>1, <1>2, <1>8, BookedPositions
  <2>4. /\ positions[u.position_id].owner_intent_id \in {Nil, i}
        /\ positions'[u.position_id].owner_intent_id = i
        /\ positions'[u.position_id].units = positions[u.position_id].units + Delta(u)
    BY <1>1, <1>2, <1>6, <1>8, <2>1, BookedPositions
  <2>5. Accounted'[u.position_id] = Accounted[u.position_id] + Delta(u)
    BY <1>1, <1>3, <1>4, <1>5, <1>6, <2>1, <2>2, <2>4
  <2>6. QED
    BY <1>5, <1>8, <2>1, <2>2, <2>3, <2>4, <2>5
<1>9. CASE Delta(u) > 0 /\ i \notin Symbols
  <2>1. i \in PositionIds /\ u.position_id = i
    BY <1>1, <1>9 DEF Commits, FillAccepted, Kind, IntentIds
  <2>2. /\ positions'[i].units = positions[i].units - Delta(u)
        /\ positions'[i].owner_intent_id = positions[i].owner_intent_id
    BY <1>1, <1>2, <1>9, <2>1, BookedPositions
  <2>3. \A p \in PositionIds \ {i} :
          /\ positions'[p].units = positions[p].units
          /\ positions'[p].owner_intent_id = positions[p].owner_intent_id
    BY <1>1, <1>2, <2>1, BookedPositions
  <2>4. Accounted'[i] = Accounted[i]
    BY <1>1, <1>3, <1>4, <1>5, <1>6, <2>1, <2>2
  <2>5. \A p \in PositionIds \ {i} : Accounted'[p] = Accounted[p]
    BY <1>1, <1>5, <1>6, <2>3
  <2>6. \A s \in Symbols : intents'[s] = intents[s]
    BY <1>1, <1>9 DEF IntentIds
  <2>7. QED
    BY <2>2, <2>3, <2>4, <2>5, <2>6
<1>10. QED
  BY <1>1, <1>7, <1>8, <1>9

(* Accounted units are whole numbers, and none of a position nobody owns.   *)
LEMMA AccountedTyped ==
  ASSUME IInv, NEW p \in PositionIds
  PROVE  /\ Accounted[p] \in Int
         /\ positions[p].owner_intent_id = Nil => Accounted[p] = 0
<1>1. positions[p].units \in Int /\ intents[p].filled_units \in Int
  BY MoneyTyped DEF IInv, TypeOK, OrderIntent, Units, IntentIds
<1>2. positions[p].owner_intent_id = Nil => positions[p].units = 0 /\ intents[p].filled_units = 0
  BY DEF IInv, NeverOversold, FillsMatchState, Row, IntentIds
<1>3. QED
  BY <1>1, <1>2 DEF Accounted

(* Every operation of the store conserves units.                           *)
LEMMA UnitsStep ==
  ASSUME IInv, UnitsConserved, [StoreNext]_storeVars
  PROVE  UnitsConserved'
<1>1. /\ \A p \in PositionIds : Accounted[p] \in Int
      /\ \A s \in Symbols : IsFiniteSet(Owned(s)) /\ Owned(s) \subseteq PositionIds
      /\ \A s \in Symbols : SumFunctionOnSet(Accounted, Owned(s)) = intents[s].filled_units
  BY AccountedTyped, FiniteIdsAssumption, FS_Subset DEF Owned, UnitsConserved
<1> SUFFICES ASSUME NEW s \in Symbols
             PROVE  SumFunctionOnSet(Accounted', Owned(s)') = intents'[s].filled_units
  BY DEF UnitsConserved
<1>2. Owned(s)' = {p \in PositionIds : positions'[p].owner_intent_id = s}
  BY DEF Owned
(* Nothing moves for s: the set and its values are the same.                *)
<1>3. ASSUME \A p \in PositionIds :
               (positions'[p].owner_intent_id = s) <=> (positions[p].owner_intent_id = s),
             \A p \in Owned(s) : Accounted'[p] = Accounted[p],
             intents'[s].filled_units = intents[s].filled_units
      PROVE  SumFunctionOnSet(Accounted', Owned(s)') = intents'[s].filled_units
  <2>1. Owned(s)' = Owned(s)
    BY <1>2, <1>3 DEF Owned
  <2>2. SumFunctionOnSet(Accounted', Owned(s)) = SumFunctionOnSet(Accounted, Owned(s))
    BY <1>1, <1>3, SumCongruent
  <2>3. QED
    BY <1>1, <1>3, <2>1, <2>2
<1>4. CASE Quiet
  <2>1. \A p \in PositionIds : Accounted'[p] = Accounted[p]
    BY <1>4 DEF Quiet, Accounted, IntentIds
  <2>2. QED
    BY <1>1, <1>3, <1>4, <2>1 DEF Quiet, IntentIds
<1>5. ASSUME NEW i \in IntentIds, NEW u \in ReportsOf[i], NEW now, ApplyBrokerOrder(u, now)
      PROVE  SumFunctionOnSet(Accounted', Owned(s)') = intents'[s].filled_units
  <2>1. CASE /\ \A t \in Symbols : intents'[t].filled_units = intents[t].filled_units
             /\ \A p \in PositionIds :
                  /\ positions'[p].owner_intent_id = positions[p].owner_intent_id
                  /\ Accounted'[p] = Accounted[p]
    BY <1>1, <1>3, <2>1
  <2>2. CASE /\ i \in Symbols /\ u.position_id \in PositionIds
             /\ positions[u.position_id].owner_intent_id \in {Nil, i}
             /\ positions'[u.position_id].owner_intent_id = i
             /\ Accounted'[u.position_id] = Accounted[u.position_id] + Delta(u)
             /\ \A p \in PositionIds \ {u.position_id} :
                  /\ positions'[p].owner_intent_id = positions[p].owner_intent_id
                  /\ Accounted'[p] = Accounted[p]
    <3> DEFINE q == u.position_id
    <3>1. /\ Delta(u) \in Int
          /\ intents'[i].filled_units = intents[i].filled_units + Delta(u)
          /\ \A j \in IntentIds \ {i} : intents'[j] = intents[j]
          /\ intents[i].filled_units \in Int
      BY <1>5, ReportStep DEF IInv, TypeOK, OrderIntent, Units
    <3>2. CASE s # i
      <4>1. q \notin Owned(s) /\ positions'[q].owner_intent_id # s
        BY <2>2, <3>2, NilDistinct DEF Owned
      <4>2. QED
        BY <1>1, <1>3, <2>2, <3>1, <3>2, <4>1 DEF Owned, IntentIds
    <3>3. CASE s = i
      <4>1. Owned(s)' = Owned(s) \cup {q}
        BY <1>2, <2>2, <3>3 DEF Owned
      <4>2. \A p \in Owned(s) \cup {q} : Accounted[p] \in Int /\ Accounted'[p] \in Int
        BY <1>1, <2>2, <3>1
      <4>3. \A p \in Owned(s) \ {q} : Accounted'[p] = Accounted[p]
        BY <1>1, <2>2
      <4>4. CASE q \in Owned(s)
        <5>1. SumFunctionOnSet(Accounted', Owned(s))
                = SumFunctionOnSet(Accounted, Owned(s)) + Accounted'[q] - Accounted[q]
          <6>1. \A p \in Owned(s) : Accounted[p] \in Int /\ Accounted'[p] \in Int
            BY <4>2
          <6> HIDE DEF q
          <6>2. QED
            BY <1>1, <4>3, <4>4, <6>1, SumChange
        <5>2. Owned(s)' = Owned(s)
          BY <4>1, <4>4
        <5>3. Accounted[q] \in Int
          BY <1>1, <2>2
        <5>4. QED
          BY <1>1, <2>2, <3>1, <3>3, <5>1, <5>2, <5>3
      <4>5. CASE q \notin Owned(s)
        <5>1. Accounted[q] = 0
          BY <2>2, <3>3, <4>5, AccountedTyped DEF Owned
        <5>2. SumFunctionOnSet(Accounted', Owned(s) \cup {q})
                = Accounted'[q] + SumFunctionOnSet(Accounted', Owned(s))
          BY <1>1, <4>2, <4>5, SumAdd
        <5>3. SumFunctionOnSet(Accounted', Owned(s)) = SumFunctionOnSet(Accounted, Owned(s))
          BY <1>1, <4>2, <4>3, <4>5, SumCongruent
        <5>4. QED
          BY <1>1, <2>2, <3>1, <3>3, <4>1, <5>1, <5>2, <5>3
      <4>6. QED
        BY <4>4, <4>5
    <3>4. QED
      BY <3>2, <3>3
  <2>3. QED
    BY <1>5, <2>1, <2>2, UnitsMove
<1>6. QED
  BY <1>4, <1>5, StepKinds

(* What an entry bought is always still held in its positions or sold by    *)
(* their closes (store.py apply_broker_order, _apply_fill).                 *)
THEOREM UnitsAreConserved == StoreSpec => []UnitsConserved
<1>1. StoreInit => UnitsConserved
  <2> SUFFICES ASSUME StoreInit, NEW s \in Symbols
               PROVE  SumFunctionOnSet(Accounted, Owned(s)) = intents[s].filled_units
    BY DEF UnitsConserved
  <2>1. Owned(s) = {}
    BY NilDistinct DEF StoreInit, Owned, NoPosition
  <2>2. intents[s].filled_units = 0
    BY DEF StoreInit, NoIntent, IntentIds
  <2>3. QED
    BY <2>1, <2>2, SumEmpty
<1>2. QED
  BY <1>1, StoreInvariant, UnitsStep, PTL DEF StoreSpec

-----------------------------------------------------------------------------
(* The rows of table fills.                                                 *)

(* Table fills is finite, and its rows are numbers of a known intent.       *)
FillRowsTyped ==
  /\ IsFiniteSet(fills)
  /\ \A f \in fills : f.intent_id \in IntentIds /\ f.units \in Int /\ f.notional \in Int

(* What one step does to the table: a report with a new fill adds one row   *)
(* that was not there (_apply_fill raises on a row with the same key).      *)
LEMMA RowsMove ==
  ASSUME IInv, NEW i \in IntentIds, NEW u \in ReportsOf[i], NEW now, ApplyBrokerOrder(u, now)
  PROVE  /\ FillRow(u).intent_id = i /\ FillRow(u).units = Delta(u)
         /\ FillRow(u).notional = DeltaNotional(u)
         /\ Delta(u) > 0 => FillRow(u) \notin fills
         /\ Delta(u) > 0 => fills' = fills \cup {FillRow(u)}
         /\ Delta(u) = 0 => fills' = fills
<1>1. /\ Commits(u, now) /\ u.intent_id = i /\ Delta(u) \in Nat
      /\ fills' = IF Delta(u) > 0 THEN fills \cup {FillRow(u)} ELSE fills
  BY ReportStep
<1>2. /\ FillRow(u).intent_id = i /\ FillRow(u).units = Delta(u)
      /\ FillRow(u).notional = DeltaNotional(u)
      /\ FillRow(u).broker_order_id = u.broker_order_id
      /\ FillRow(u).cumulative = u.filled_units
  BY <1>1 DEF FillRow
<1>3. Delta(u) > 0 => FillRow(u) \notin fills
  BY <1>1, <1>2 DEF Commits, FillAccepted
<1>4. QED
  BY <1>1, <1>2, <1>3

(* An empty table of fills is well formed.                                 *)
LEMMA FillRowsInit == StoreInit => FillRowsTyped
  BY FS_EmptySet DEF StoreInit, FillRowsTyped

(* Every operation keeps it well formed.                                   *)
LEMMA FillRowsNext ==
  ASSUME IInv, FillRowsTyped, [StoreNext]_storeVars
  PROVE  FillRowsTyped'
<1>1. CASE Quiet
  BY <1>1 DEF Quiet, FillRowsTyped
<1>2. ASSUME NEW i \in IntentIds, NEW u \in ReportsOf[i], NEW now, ApplyBrokerOrder(u, now)
      PROVE  FillRowsTyped'
  <2>1. /\ Delta(u) \in Nat /\ DeltaNotional(u) \in Int
        /\ FillRow(u).intent_id = i /\ FillRow(u).units = Delta(u)
        /\ FillRow(u).notional = DeltaNotional(u)
        /\ fills' \in {fills, fills \cup {FillRow(u)}}
    BY <1>2, ReportStep, RowsMove DEF FillRow
  <2>2. IsFiniteSet(fills')
    BY <2>1, FS_AddElement DEF FillRowsTyped
  <2>3. QED
    BY <2>1, <2>2 DEF FillRowsTyped
<1>3. QED
  BY <1>1, <1>2, StepKinds

(* A sum over rows when the table keeps its rows, and when it gains one.    *)
LEMMA RowsKept ==
  ASSUME NEW g, NEW k, NEW S, IsFiniteSet(S), \A f \in S : g[f] \in Int /\ k[f] = g[f]
  PROVE  /\ SumFunctionOnSet(g, S) \in Int
         /\ SumFunctionOnSet(k, S) = SumFunctionOnSet(g, S)
  BY SumType, SumCongruent

(* A new row of fills adds its units to the sum.                           *)
LEMMA RowGained ==
  ASSUME NEW g, NEW k, NEW S, IsFiniteSet(S), \A f \in S : g[f] \in Int /\ k[f] = g[f],
         NEW r, r \notin S, k[r] \in Int
  PROVE  /\ SumFunctionOnSet(g, S) \in Int
         /\ SumFunctionOnSet(k, S \cup {r}) = SumFunctionOnSet(g, S) + k[r]
<1>1. /\ SumFunctionOnSet(g, S) \in Int
      /\ SumFunctionOnSet(k, S) = SumFunctionOnSet(g, S)
  BY RowsKept
<1>2. SumFunctionOnSet(k, S \cup {r}) = k[r] + SumFunctionOnSet(k, S)
  <2>1. \A f \in S \cup {r} : k[f] \in Int
    OBVIOUS
  <2>2. QED
    BY <2>1, SumAdd
<1>3. QED
  BY <1>1, <1>2

(* The two columns of a row, before and after a step.                       *)
LEMMA RowValues ==
  ASSUME FillRowsTyped, FillRowsTyped', fills \subseteq fills'
  PROVE  /\ \A f \in fills : /\ RowUnits[f] \in Int /\ RowUnits'[f] = RowUnits[f]
                             /\ RowNotional[f] \in Int /\ RowNotional'[f] = RowNotional[f]
         /\ \A f \in fills' : /\ RowUnits'[f] = f.units /\ RowUnits'[f] \in Int
                              /\ RowNotional'[f] = f.notional /\ RowNotional'[f] \in Int
<1>1. \A f \in fills' : f.units \in Int /\ f.notional \in Int
  BY DEF FillRowsTyped
<1>2. QED
  BY <1>1 DEF RowUnits, RowNotional

(* How the sums over a set S of rows move when the report of i is booked    *)
(* and S gains its row exactly when the row belongs to S.                   *)
LEMMA RowSumsMove ==
  ASSUME IInv, FillRowsTyped, FillRowsTyped',
         NEW i \in IntentIds, NEW u \in ReportsOf[i], NEW now, ApplyBrokerOrder(u, now),
         NEW S \in SUBSET fills, NEW T, NEW own \in BOOLEAN,
         T = IF own /\ Delta(u) > 0 THEN S \cup {FillRow(u)} ELSE S
  PROVE  /\ SumFunctionOnSet(RowUnits, S) \in Int /\ SumFunctionOnSet(RowNotional, S) \in Int
         /\ SumFunctionOnSet(RowUnits', T)
              = SumFunctionOnSet(RowUnits, S) + (IF own THEN Delta(u) ELSE 0)
         /\ SumFunctionOnSet(RowNotional', T)
              = SumFunctionOnSet(RowNotional, S) + (IF own THEN DeltaNotional(u) ELSE 0)
<1>1. /\ Delta(u) \in Nat /\ DeltaNotional(u) \in Int
      /\ Delta(u) = 0 => DeltaNotional(u) = 0
  BY ReportStep
<1>2. /\ Delta(u) > 0 => fills' = fills \cup {FillRow(u)} /\ FillRow(u) \notin fills
      /\ Delta(u) = 0 => fills' = fills
      /\ FillRow(u).units = Delta(u) /\ FillRow(u).notional = DeltaNotional(u)
  BY <1>1, RowsMove DEF FillRow
<1>3. IsFiniteSet(S) /\ fills \subseteq fills'
  BY <1>1, <1>2, FS_Subset DEF FillRowsTyped
<1>4. /\ \A f \in S : RowUnits[f] \in Int /\ RowUnits'[f] = RowUnits[f]
      /\ \A f \in S : RowNotional[f] \in Int /\ RowNotional'[f] = RowNotional[f]
  BY <1>3, RowValues
<1>5. CASE own /\ Delta(u) > 0
  <2>1. /\ FillRow(u) \notin S
        /\ RowUnits'[FillRow(u)] = Delta(u) /\ RowNotional'[FillRow(u)] = DeltaNotional(u)
    BY <1>2, <1>3, <1>5, RowValues
  <2>2. /\ SumFunctionOnSet(RowUnits, S) \in Int
        /\ SumFunctionOnSet(RowUnits', S \cup {FillRow(u)}) = SumFunctionOnSet(RowUnits, S) + Delta(u)
    BY <1>1, <1>3, <1>4, <2>1, RowGained
  <2>3. /\ SumFunctionOnSet(RowNotional, S) \in Int
        /\ SumFunctionOnSet(RowNotional', S \cup {FillRow(u)})
             = SumFunctionOnSet(RowNotional, S) + DeltaNotional(u)
    <3>1. \A f \in S : RowNotional[f] \in Int /\ RowNotional'[f] = RowNotional[f]
      BY <1>4
    <3>2. /\ FillRow(u) \notin S
          /\ RowNotional'[FillRow(u)] = DeltaNotional(u) /\ RowNotional'[FillRow(u)] \in Int
      BY <1>1, <2>1
    <3>3. QED
      BY <1>3, <3>1, <3>2, RowGained
  <2>4. QED
    BY <1>5, <2>2, <2>3
<1>6. CASE ~(own /\ Delta(u) > 0)
  <2>1. /\ SumFunctionOnSet(RowUnits, S) \in Int
        /\ SumFunctionOnSet(RowUnits', S) = SumFunctionOnSet(RowUnits, S)
    BY <1>3, <1>4, RowsKept
  <2>2. /\ SumFunctionOnSet(RowNotional, S) \in Int
        /\ SumFunctionOnSet(RowNotional', S) = SumFunctionOnSet(RowNotional, S)
    BY <1>3, <1>4, RowsKept
  <2>3. own => Delta(u) = 0 /\ DeltaNotional(u) = 0
    BY <1>1, <1>6
  <2>4. QED
    BY <1>1, <1>6, <2>1, <2>2, <2>3
<1>7. QED
  BY <1>5, <1>6

(* Every operation keeps the rows equal to the cumulative fill.            *)
LEMMA FillsStep ==
  ASSUME IInv, FillRowsTyped, FillsMatchCumulative, [StoreNext]_storeVars
  PROVE  FillsMatchCumulative'
<1>1. FillRowsTyped'
  BY FillRowsNext
<1> SUFFICES ASSUME NEW j \in IntentIds
             PROVE  /\ SumFunctionOnSet(RowUnits', FillsOf(j)') = intents'[j].filled_units
                    /\ SumFunctionOnSet(RowNotional', FillsOf(j)')
                         = Notional(intents'[j].filled_units, intents'[j].average_price)
  BY DEF FillsMatchCumulative
<1>2. /\ FillsOf(j)' = {f \in fills' : f.intent_id = j} /\ FillsOf(j) \in SUBSET fills
      /\ SumFunctionOnSet(RowUnits, FillsOf(j)) = intents[j].filled_units
      /\ SumFunctionOnSet(RowNotional, FillsOf(j))
           = Notional(intents[j].filled_units, intents[j].average_price)
  BY DEF FillsOf, FillsMatchCumulative
<1>3. CASE Quiet
  <2>1. FillsOf(j)' = FillsOf(j) /\ RowUnits' = RowUnits /\ RowNotional' = RowNotional
    BY <1>3 DEF Quiet, FillsOf, RowUnits, RowNotional
  <2>2. QED
    BY <1>2, <1>3, <2>1 DEF Quiet
<1>4. ASSUME NEW i \in IntentIds, NEW u \in ReportsOf[i], NEW now, ApplyBrokerOrder(u, now)
      PROVE  /\ SumFunctionOnSet(RowUnits', FillsOf(j)') = intents'[j].filled_units
             /\ SumFunctionOnSet(RowNotional', FillsOf(j)')
                  = Notional(intents'[j].filled_units, intents'[j].average_price)
  <2> DEFINE own == (i = j)
  <2>1. /\ Delta(u) \in Nat /\ DeltaNotional(u) \in Int /\ u.intent_id = i
        /\ intents'[i].filled_units = intents[i].filled_units + Delta(u)
        /\ intents'[i].filled_units = u.filled_units
        /\ intents'[i].average_price = u.average_price
        /\ \A l \in IntentIds \ {i} : intents'[l] = intents[l]
    BY <1>4, ReportStep
  <2>2. FillsOf(j)' = IF own /\ Delta(u) > 0 THEN FillsOf(j) \cup {FillRow(u)} ELSE FillsOf(j)
    <3>1. /\ FillRow(u).intent_id = i
          /\ Delta(u) > 0 => fills' = fills \cup {FillRow(u)}
          /\ Delta(u) = 0 => fills' = fills
      BY <1>4, <2>1, RowsMove DEF FillRow
    <3>2. QED
      BY <1>2, <2>1, <3>1 DEF FillsOf
  <2> HIDE DEF own
  <2>3. /\ SumFunctionOnSet(RowUnits, FillsOf(j)) \in Int
        /\ SumFunctionOnSet(RowNotional, FillsOf(j)) \in Int
        /\ SumFunctionOnSet(RowUnits', FillsOf(j)')
             = SumFunctionOnSet(RowUnits, FillsOf(j)) + (IF own THEN Delta(u) ELSE 0)
        /\ SumFunctionOnSet(RowNotional', FillsOf(j)')
             = SumFunctionOnSet(RowNotional, FillsOf(j)) + (IF own THEN DeltaNotional(u) ELSE 0)
    <3>1. own \in BOOLEAN
      BY DEF own
    <3>2. QED
      BY <1>1, <1>2, <1>4, <2>2, <3>1, RowSumsMove
  <2>4. CASE i = j
    <3>1. own
      BY <2>4 DEF own
    <3>2. DeltaNotional(u) = Notional(u.filled_units, u.average_price)
                               - Notional(intents[j].filled_units, intents[j].average_price)
      BY <2>1, <2>4 DEF DeltaNotional
    <3>3. Notional(u.filled_units, u.average_price) \in Int
      BY <1>4, NotionalTyped
    <3>4. QED
      BY <1>2, <2>1, <2>3, <2>4, <3>1, <3>2, <3>3
  <2>5. CASE i # j
    <3>1. ~own
      BY <2>5 DEF own
    <3>2. QED
      BY <1>2, <2>1, <2>3, <2>5, <3>1
  <2>6. QED
    BY <2>4, <2>5
<1>5. QED
  BY <1>3, <1>4, StepKinds

(* The rows of table fills always add up to the cumulative quantity and     *)
(* notional of their intent: no report is booked twice or skipped           *)
(* (store.py apply_broker_order, _apply_fill).                              *)
THEOREM FillsAddUp == StoreSpec => []FillsMatchCumulative
<1>1. StoreInit => FillsMatchCumulative
  <2> SUFFICES ASSUME StoreInit, NEW i \in IntentIds
               PROVE  /\ SumFunctionOnSet(RowUnits, FillsOf(i)) = intents[i].filled_units
                      /\ SumFunctionOnSet(RowNotional, FillsOf(i))
                           = Notional(intents[i].filled_units, intents[i].average_price)
    BY DEF FillsMatchCumulative
  <2>1. FillsOf(i) = {} /\ intents[i].filled_units = 0
    BY DEF StoreInit, NoIntent, FillsOf
  <2>2. QED
    BY <2>1, SumEmpty DEF Notional
<1>2. QED
  BY <1>1, StoreInvariant, FillRowsInit, FillRowsNext, FillsStep, PTL DEF StoreSpec

-----------------------------------------------------------------------------
(* Cash.                                                                    *)

(* The averages an entry fill writes divide out: no price is rounded.  The  *)
(* code divides decimals to 28 digits, the model divides whole numbers.     *)
ExactAverages ==
  \A i \in Symbols : \A u \in ReportsOf[i], now \in 0..MaxTime :
    ApplyBrokerOrder(u, now) /\ Delta(u) > 0
      => LET old == positions[u.position_id]
         IN (old.units * old.average_entry + DeltaNotional(u)) % (old.units + Delta(u)) = 0

(* A product divides exactly.                                              *)
LEMMA ExactDivision ==
  ASSUME NEW a \in Nat, NEW b \in Nat \ {0}, a % b = 0
  PROVE  b * (a \div b) = a
  OBVIOUS

(* Multiplication over a difference.                                       *)
LEMMA DistributesOverMinus ==
  ASSUME NEW a \in Int, NEW b \in Int, NEW c \in Int
  PROVE  (a - b) * c = a * c - b * c
  OBVIOUS

(* The cost basis of the open positions grows by what an entry paid and     *)
(* shrinks by what the units a close sold had cost.                         *)
LEMMA BasisMoves ==
  ASSUME IInv, ExactAverages, [StoreNext]_storeVars,
         NEW i \in IntentIds, NEW u \in ReportsOf[i], NEW now \in 0..MaxTime,
         ApplyBrokerOrder(u, now)
  PROVE  /\ SumFunction(CostBasis) \in Int /\ FillPnl(u) \in Int
         /\ SumFunction(CostBasis') = SumFunction(CostBasis) + (IF i \in Symbols THEN DeltaNotional(u)
              ELSE FillPnl(u) + CostDelta(u) - DeltaNotional(u))
<1>1. TypeOK /\ TypeOK'
  BY IInvNext DEF IInv
<1>2. /\ Delta(u) \in Nat /\ CostDelta(u) \in Int /\ DeltaNotional(u) \in Int
      /\ Delta(u) = 0 => DeltaNotional(u) = 0
      /\ Delta(u) > 0 => DeltaNotional(u) > 0
  BY ReportStep
<1>3. \A p \in PositionIds :
        /\ positions[p].units \in Nat /\ positions[p].average_entry \in Nat
        /\ CostBasis[p] = positions[p].units * positions[p].average_entry
        /\ CostBasis[p] \in Int
  BY <1>1, MoneyTyped
<1>4. \A p \in PositionIds :
        /\ CostBasis'[p] = positions'[p].units * positions'[p].average_entry
        /\ CostBasis'[p] \in Int
  <2> SUFFICES ASSUME NEW p \in PositionIds
               PROVE  /\ CostBasis'[p] = positions'[p].units * positions'[p].average_entry
                      /\ CostBasis'[p] \in Int
    OBVIOUS
  <2>1. positions'[p].units \in Int /\ positions'[p].average_entry \in Int
    BY <1>1 DEF TypeOK, Position, Units
  <2>2. positions'[p].units * positions'[p].average_entry \in Int
    BY <2>1
  <2>3. CostBasis'[p] = positions'[p].units * positions'[p].average_entry
    BY DEF CostBasis
  <2>4. QED
    BY <2>2, <2>3
<1>5. /\ SumFunction(CostBasis) = SumFunctionOnSet(CostBasis, PositionIds)
      /\ SumFunction(CostBasis') = SumFunctionOnSet(CostBasis', PositionIds)
  BY DEF SumFunction, CostBasis
<1>6. SumFunctionOnSet(CostBasis, PositionIds) \in Int
  BY <1>3, SumType, FiniteIdsAssumption
(* The basis of one position q moves by d.                                  *)
<1>7. ASSUME NEW q \in PositionIds, NEW d \in Int,
             \A p \in PositionIds \ {q} : SameMoney(p), CostBasis'[q] = CostBasis[q] + d
      PROVE  SumFunction(CostBasis') = SumFunction(CostBasis) + d
  <2>1. \A p \in PositionIds : CostBasis[p] \in Int /\ CostBasis'[p] \in Int
    BY <1>3, <1>4
  <2>2. \A p \in PositionIds \ {q} : CostBasis'[p] = CostBasis[p]
    BY <1>3, <1>4, <1>7 DEF SameMoney
  <2>3. SumFunctionOnSet(CostBasis', PositionIds)
          = SumFunctionOnSet(CostBasis, PositionIds) + CostBasis'[q] - CostBasis[q]
    BY <2>1, <2>2, PositionsMove
  <2>4. CostBasis[q] \in Int
    BY <1>3
  <2>5. QED
    BY <1>5, <1>6, <1>7, <2>3, <2>4
<1>8. CASE Opens(i, u)
  <2> DEFINE q == u.position_id
             old == positions[q]
             cost == old.units * old.average_entry + DeltaNotional(u)
             units == old.units + Delta(u)
  <2>1. q \in PositionIds /\ i \in Symbols /\ Delta(u) > 0 /\ FillPnl(u) = - CostDelta(u)
    BY <1>8 DEF Opens
  <2>2. cost \in Nat /\ units \in Nat \ {0} /\ CostBasis[q] = old.units * old.average_entry
    <3>1. old.units \in Nat /\ old.average_entry \in Nat
      BY <1>3, <2>1
    <3>2. old.units * old.average_entry \in Nat
      BY <3>1
    <3>3. QED
      BY <1>2, <1>3, <2>1, <3>1, <3>2
  <2>3. cost % units = 0
    BY <1>2, <2>1 DEF ExactAverages
  <2>4. positions'[q].units = units /\ positions'[q].average_entry = cost \div units
    BY <1>8 DEF Opens
  <2>5. CostBasis'[q] = cost
    <3> HIDE DEF cost, units
    <3>1. units * (cost \div units) = cost
      BY <2>2, <2>3, ExactDivision
    <3>2. QED
      BY <1>4, <2>1, <2>4, <3>1
  <2>6. CostBasis'[q] = CostBasis[q] + DeltaNotional(u)
    BY <2>2, <2>5
  <2>7. \A p \in PositionIds \ {q} : SameMoney(p)
    BY <1>8 DEF Opens
  <2> HIDE DEF q
  <2>8. QED
    BY <1>2, <1>5, <1>6, <1>7, <2>1, <2>6, <2>7
<1>9. CASE OnlyCosts(i, u)
  <2>1. \A p \in PositionIds : CostBasis[p] \in Int /\ CostBasis'[p] = CostBasis[p]
    BY <1>3, <1>4, <1>9 DEF OnlyCosts, SameMoney
  <2>2. SumFunctionOnSet(CostBasis', PositionIds) = SumFunctionOnSet(CostBasis, PositionIds)
    BY <2>1, SumCongruent, FiniteIdsAssumption
  <2>3. QED
    BY <1>2, <1>5, <1>6, <1>9, <2>2 DEF OnlyCosts
<1>10. CASE Sells(i, u)
  <2> DEFINE sold == Delta(u) * positions[i].average_entry
  <2>1. /\ i \in PositionIds /\ i \notin Symbols
        /\ FillPnl(u) = DeltaNotional(u) - sold - CostDelta(u)
        /\ positions'[i].units = positions[i].units - Delta(u)
        /\ positions'[i].average_entry = positions[i].average_entry
        /\ \A p \in PositionIds \ {i} : SameMoney(p)
    BY <1>10, NilDistinct DEF Sells
  <2>2. sold \in Int
    BY <1>2, <1>3, <2>1
  <2>3. CostBasis'[i] = CostBasis[i] - sold
    <3>1. (positions[i].units - Delta(u)) * positions[i].average_entry
            = positions[i].units * positions[i].average_entry - Delta(u) * positions[i].average_entry
      <4>1. /\ positions[i].units \in Int /\ positions[i].average_entry \in Int
            /\ Delta(u) \in Int
        BY <1>2, <1>3, <2>1
      <4>2. QED
        BY <4>1, DistributesOverMinus
    <3>2. QED
      BY <1>3, <1>4, <2>1, <3>1
  <2> HIDE DEF sold
  <2>4. - sold \in Int /\ CostBasis'[i] = CostBasis[i] + (- sold)
    BY <1>3, <2>1, <2>2, <2>3
  <2>5. SumFunction(CostBasis') = SumFunction(CostBasis) + (- sold)
    BY <1>7, <2>1, <2>4
  <2>6. FillPnl(u) \in Int /\ - sold = FillPnl(u) + CostDelta(u) - DeltaNotional(u)
    BY <1>2, <2>1, <2>2
  <2>7. QED
    BY <1>5, <1>6, <2>1, <2>5, <2>6
<1>11. QED
  BY <1>8, <1>9, <1>10, ReportMoney

(* Every operation of the store conserves cash.                            *)
LEMMA CashStep ==
  ASSUME IInv, FillRowsTyped, CashConserved, ExactAverages \/ UNCHANGED storeVars,
         [StoreNext]_storeVars
  PROVE  CashConserved'
<1>1. FillRowsTyped' /\ TypeOK /\ TypeOK'
  BY FillRowsNext, IInvNext DEF IInv
<1>2. /\ SumFunction(broker_costs) = SumFunctionOnSet(broker_costs, IntentIds)
      /\ SumFunction(broker_costs') = SumFunctionOnSet(broker_costs', IntentIds)
  BY <1>1 DEF SumFunction, TypeOK
<1>3. CASE Quiet
  <2>1. /\ RowNotional' = RowNotional /\ Bought' = Bought /\ Sold' = Sold
        /\ broker_costs' = broker_costs /\ realized_pnl' = realized_pnl
    BY <1>3 DEF Quiet, RowNotional, Bought, Sold
  <2>2. CostBasis' = CostBasis
    BY <1>3 DEF Quiet, CostBasis
  <2>3. QED
    BY <2>1, <2>2 DEF CashConserved
<1>4. ASSUME NEW i \in IntentIds, NEW u \in ReportsOf[i], NEW now \in 0..MaxTime,
             ApplyBrokerOrder(u, now), ExactAverages
      PROVE  CashConserved'
  <2>1. /\ Delta(u) \in Nat /\ CostDelta(u) \in Int /\ DeltaNotional(u) \in Int
        /\ realized_pnl' = realized_pnl + FillPnl(u) /\ realized_pnl \in Int
    BY <1>1, <1>4, ReportStep DEF TypeOK
  <2>2. /\ SumFunction(broker_costs) \in Int
        /\ SumFunction(broker_costs') = SumFunction(broker_costs) + CostDelta(u)
    BY <1>2, <1>4, CostsMove
  <2>3. /\ SumFunction(CostBasis) \in Int /\ FillPnl(u) \in Int
        /\ SumFunction(CostBasis') = SumFunction(CostBasis) + (IF i \in Symbols THEN DeltaNotional(u)
             ELSE FillPnl(u) + CostDelta(u) - DeltaNotional(u))
    BY <1>4, BasisMoves
  <2>4. i \in Symbols => FillPnl(u) = - CostDelta(u)
    BY <1>4, ReportMoney, NilDistinct DEF Opens, OnlyCosts, Sells
  <2>5. /\ FillRow(u).intent_id = i
        /\ Delta(u) > 0 => fills' = fills \cup {FillRow(u)} /\ FillRow(u) \notin fills
        /\ Delta(u) = 0 => fills' = fills
    BY <1>4, <2>1, RowsMove
  <2> DEFINE entry == (i \in Symbols)
             close == (i \notin Symbols)
  <2>6. /\ Bought \in SUBSET fills /\ Sold \in SUBSET fills
        /\ Bought' = IF entry /\ Delta(u) > 0 THEN Bought \cup {FillRow(u)} ELSE Bought
        /\ Sold' = IF close /\ Delta(u) > 0 THEN Sold \cup {FillRow(u)} ELSE Sold
    BY <2>1, <2>5 DEF Bought, Sold
  <2>7. entry \in BOOLEAN /\ close \in BOOLEAN
    OBVIOUS
  <2> HIDE DEF entry, close
  <2>8. /\ SumFunctionOnSet(RowNotional, Bought) \in Int
        /\ SumFunctionOnSet(RowNotional', Bought')
             = SumFunctionOnSet(RowNotional, Bought) + (IF entry THEN DeltaNotional(u) ELSE 0)
    BY <1>1, <1>4, <2>6, <2>7, RowSumsMove
  <2>9. /\ SumFunctionOnSet(RowNotional, Sold) \in Int
        /\ SumFunctionOnSet(RowNotional', Sold')
             = SumFunctionOnSet(RowNotional, Sold) + (IF close THEN DeltaNotional(u) ELSE 0)
    BY <1>1, <1>4, <2>6, <2>7, RowSumsMove
  <2>10. CASE i \in Symbols
    <3>1. entry /\ ~close
      BY <2>10 DEF entry, close
    <3>2. QED
      BY <2>1, <2>2, <2>3, <2>4, <2>8, <2>9, <2>10, <3>1 DEF CashConserved
  <2>11. CASE i \notin Symbols
    <3>1. ~entry /\ close
      BY <2>11 DEF entry, close
    <3>2. /\ SumFunction(CostBasis')
               = SumFunction(CostBasis) + (FillPnl(u) + CostDelta(u) - DeltaNotional(u))
          /\ SumFunctionOnSet(RowNotional', Bought') = SumFunctionOnSet(RowNotional, Bought)
          /\ SumFunctionOnSet(RowNotional', Sold')
               = SumFunctionOnSet(RowNotional, Sold) + DeltaNotional(u)
      BY <2>3, <2>8, <2>9, <2>11, <3>1
    <3>3. SumFunction(CostBasis) \in Int /\ FillPnl(u) \in Int
      BY <2>3
    <3>4. QED
      BY <2>1, <2>2, <2>8, <2>9, <3>2, <3>3 DEF CashConserved
  <2>12. QED
    BY <2>10, <2>11
<1>5. CASE UNCHANGED storeVars
  <2>1. Quiet
    BY <1>5 DEF Quiet, storeVars, orderVars, bookVars
  <2>2. QED
    BY <1>3, <2>1
<1>6. QED
  BY <1>3, <1>4, <1>5, StepKinds

(* As long as no average is rounded, cash moves exactly with the money that *)
(* changes hands: sales less purchases less costs (store.py                 *)
(* apply_broker_order, _apply_fill, portfolio).                             *)
THEOREM CashIsConserved ==
  StoreSpec /\ [][ExactAverages]_storeVars => []CashConserved
<1>1. StoreInit => CashConserved
  <2> SUFFICES ASSUME StoreInit PROVE CashConserved
    OBVIOUS
  <2>1. \A p \in PositionIds : CostBasis[p] = 0
    BY DEF StoreInit, NoPosition, CostBasis
  <2>2. \A i \in IntentIds : broker_costs[i] = 0
    BY DEF StoreInit
  <2>3. Bought = {} /\ Sold = {} /\ DOMAIN broker_costs = IntentIds /\ realized_pnl = 0
    BY DEF StoreInit, Bought, Sold
  <2>4. SumFunction(CostBasis) = 0
    BY <2>1, SumZero, SumsOverPositions, FiniteIdsAssumption
  <2>5. SumFunction(broker_costs) = 0
    BY <2>2, <2>3, SumZero, FiniteIds DEF SumFunction
  <2>6. QED
    BY <2>3, <2>4, <2>5, SumEmpty DEF CashConserved
<1>2. ASSUME IInv, FillRowsTyped, CashConserved, [StoreNext]_storeVars, [ExactAverages]_storeVars
      PROVE  CashConserved'
  BY <1>2, CashStep
<1>3. QED
  BY <1>1, <1>2, StoreInvariant, FillRowsInit, FillRowsNext, PTL DEF StoreSpec
=============================================================================
