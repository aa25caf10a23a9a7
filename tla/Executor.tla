------------------------------ MODULE Executor ------------------------------
(***************************************************************************)
(* The single order executor of execution/engine.py over the StateStore,   *)
(* facing a broker that moves on its own.  The executor is one thread: its *)
(* call stack is `agenda`, innermost call first, and each step performs    *)
(* one store transaction or one broker call of the topmost frame.  Between *)
(* two steps the broker may fill, cancel, expire or stop out, and the      *)
(* process may die: the store and the broker survive, the stack does not.  *)
(*                                                                         *)
(* Prices and costs are left to StateStore's own runs: here every fill is  *)
(* at one price, and `protected` stands for an acceptable post_fill_risk   *)
(* (MISSING_PROTECTION and POST_FILL_RISK_EXCEEDED take the same path).    *)
(***************************************************************************)
EXTENDS StateStore, Sequences

CONSTANTS
  PositionOf,    \* the position the broker opens for each entry
  MaxPositions,  \* RiskConfig.max_positions
  MaxMoves,      \* bound: steps the broker takes on its own
  MaxCrashes     \* bound: process deaths

ASSUME ExecutorAssumption ==
  /\ PositionOf \in [Symbols -> PositionIds]
  /\ \A s, t \in Symbols : PositionOf[s] = PositionOf[t] => s = t
  /\ IntentIds \subseteq BrokerIds
  /\ Prices # {} /\ TRUE \in Protection
  /\ MaxPositions \in Nat /\ MaxMoves \in Nat /\ MaxCrashes \in Nat

VARIABLES
  started,     \* the executor holds the lock and its session is open
  agenda,      \* its call stack
  orders,      \* the broker's order of each intent
  held,        \* the units the broker holds in each position
  clock,       \* the broker's clock, which stamps position snapshots
  dispatched,  \* how often each intent was sent to the broker
  moved,       \* orders the broker changed since the last reconcile() began
  unseen,      \* orders it has, but did not show that reconcile(): their rows were finished
  moves,       \* steps the broker took on its own
  crashes      \* process deaths so far

brokerVars == <<orders, held, clock, dispatched, moved, unseen, moves>>
vars == <<storeVars, brokerVars, started, agenda, crashes>>

-----------------------------------------------------------------------------
(* The broker's side of an order; state Nil means it never accepted one.   *)
Order == [state : BrokerStates \cup {Nil}, filled_units : Units, protected : BOOLEAN]
NoOrder == [state |-> Nil, filled_units |-> 0, protected |-> FALSE]

Accepted(i) == orders[i].state # Nil
Live(i) == orders[i].state \in {"ACKNOWLEDGED", "PARTIALLY_FILLED", "CANCEL_PENDING"}

(* With snapshots the broker answers as the eToro Demo adapter does; without *)
(* them, as any adapter of ExecutionBroker may, the simulator among them.   *)
Etoro == MaxTime > 0

PositionOfIntent(i) == IF Kind(i) = "entry" THEN PositionOf[i] ELSE i
OnlyPrice == CHOOSE price \in Prices : TRUE

(* Mutant: a report that carries a price without fills.                    *)
ReportWithPrice(i, o, holding, at) ==
  LET filled == o.filled_units > 0
      snapshot == filled /\ Kind(i) = "entry" /\ Etoro
  IN [broker_order_id |-> i, intent_id |-> i, state |-> o.state,
      filled_units |-> o.filled_units, average_price |-> OnlyPrice,
      position_id |-> IF filled THEN PositionOfIntent(i) ELSE Nil,
      protected |-> o.protected, cumulative_cost |-> 0,
      remaining_units |-> IF snapshot THEN holding[PositionOfIntent(i)] ELSE Nil,
      observed_at |-> IF snapshot THEN at ELSE Nil]

(* A cumulative report of order o for intent i; an entry's report carries   *)
(* the remaining units of its position when the broker publishes snapshots. *)
ReportAt(i, o, holding, at) ==
  LET filled == o.filled_units > 0
      snapshot == filled /\ Kind(i) = "entry" /\ Etoro
  IN [broker_order_id |-> i, intent_id |-> i, state |-> o.state,
      filled_units |-> o.filled_units,
      average_price |-> IF filled THEN OnlyPrice ELSE Nil,
      position_id |-> IF filled THEN PositionOfIntent(i) ELSE Nil,
      protected |-> o.protected, cumulative_cost |-> 0,
      remaining_units |-> IF snapshot THEN holding[PositionOfIntent(i)] ELSE Nil,
      observed_at |-> IF snapshot THEN at ELSE Nil]

ReportOn(i, o) == ReportAt(i, o, held, clock)

(* What the broker holds and its clock after `delta` more units of i fill. *)
HeldAfter(i, delta) ==
  [held EXCEPT ![PositionOfIntent(i)] = IF Kind(i) = "entry" THEN @ + delta ELSE @ - delta]

CanFill(i, delta) ==
  /\ Kind(i) = "close" => delta <= held[i]
  /\ Etoro /\ delta > 0 => clock < MaxTime

ClockAfter(delta) == IF Etoro /\ delta > 0 THEN clock + 1 ELSE clock

FillState(units, filled) ==
  IF filled = units THEN "FILLED" ELSE IF filled > 0 THEN "PARTIALLY_FILLED"
  ELSE "ACKNOWLEDGED"

-----------------------------------------------------------------------------
(* Call frames.  id names an intent or a position, todo is what a loop over *)
(* a list read earlier has left, with the states it read.                   *)
Frame(op, id, todo, clean, report) ==
  [op |-> op, id |-> id, todo |-> todo, clean |-> clean, report |-> report]
Call(op)        == Frame(op, Nil, {}, TRUE, Nil)
CallOn(op, id)  == Frame(op, id, {}, TRUE, Nil)
Loop(op, todo)  == Frame(op, Nil, todo, TRUE, Nil)
Apply(report)   == Frame("apply", report.intent_id, {}, TRUE, report)

Top  == Head(agenda)
Rest == Tail(agenda)
Running(op) == started /\ agenda # <<>> /\ Top.op = op
Idle == started /\ agenda = <<>>

(* store.intents(): every row with the state it has now.                   *)
Snapshot == {[id |-> i, state |-> intents[i].state] : i \in {j \in IntentIds : Row(j)}}

(* Calls whose try block is still open.                                    *)
Guards == {"sending", "cancelling"}

(* The topmost call makes further calls, or returns; returning closes a    *)
(* try block right above it.                                               *)
Then(frames) ==
  IF frames # <<>> THEN frames \o Rest
  ELSE IF Rest # <<>> /\ Head(Rest).op \in Guards THEN Tail(Rest) ELSE Rest

(* An exception unwinds to the nearest handler: the ambiguous-submission   *)
(* and ambiguous-cancel handlers make the intent UNKNOWN and block, the    *)
(* one of reconcile() goes on with its loop, unclean; else the operation   *)
(* fails in its caller.                                                    *)

(* Mutant: an ambiguous call pauses entries, but stays reconciled.         *)
AmbiguityPauses(guard) == <<Call("pause")>>

AmbiguityCalls(guard) ==
  IF guard = "sending" THEN <<Call("pause"), Call("unreconciled")>>
  ELSE <<Call("unreconciled"), Call("pause")>>

Handlers == Guards \cup {"reconcile"}

Raise(stack) ==
  LET found == {k \in 1..Len(stack) : stack[k].op \in Handlers}
      k == CHOOSE k \in found : \A l \in found : k <= l
      handler == stack[k]
      below == SubSeq(stack, k + 1, Len(stack))
  IN IF found = {} THEN <<>>
     ELSE IF handler.op = "reconcile" THEN <<[handler EXCEPT !.clean = FALSE]>> \o below
     ELSE <<CallOn("to_unknown", handler.id)>> \o AmbiguityCalls(handler.op) \o below

InIncident == \E k \in 1..Len(agenda) : agenda[k].op = "end_incident"

-----------------------------------------------------------------------------
Init ==
  /\ StoreInit
  /\ started = FALSE /\ agenda = <<>>
  /\ orders = [i \in IntentIds |-> NoOrder]
  /\ held = [p \in PositionIds |-> 0]
  /\ clock = 0
  /\ dispatched = [i \in IntentIds |-> 0]
  /\ moved = {} /\ unseen = {}
  /\ moves = 0 /\ crashes = 0

(* A step of the executor that leaves the broker alone.                    *)
Local == UNCHANGED <<brokerVars, started, crashes>>

(* A step that only changes the call stack.                                *)
Internal == Local /\ UNCHANGED storeVars

-----------------------------------------------------------------------------
(* Operations the owner of the executor calls.                             *)

(* __enter__: pause, unreconcile, settle the intents a crash left behind.  *)
Enter ==
  /\ ~started
  /\ started' = TRUE
  /\ agenda' = <<Call("pause"), Call("unreconciled"),
                 Loop("recover", {e \in Snapshot :
                                    e.state \in {"SUBMITTING", "CREATED", "APPROVED"}}),
                 Call("reconcile_all")>>
  /\ UNCHANGED <<storeVars, brokerVars, crashes>>

(* Mutant: only open positions count against the limit.                    *)
OpenOwners == {positions[p].owner_intent_id : p \in OpenPositions}

PotentialPositions ==
  {positions[p].owner_intent_id : p \in OpenPositions} \cup {s \in Symbols : Active(s)}

(* submit_entry: a known symbol is a duplicate; the risk engine refuses     *)
(* while paused or unreconciled and beyond max_positions (its budgets only *)
(* choose the units, or none).                                             *)
SubmitEntry(s, n, stop) ==
  /\ Idle
  /\ ~entries_paused /\ reconciliation_ok
  /\ Cardinality(PotentialPositions) < MaxPositions
  /\ CreateEntry(s, n, stop)
  /\ agenda' = <<CallOn("prepare", s)>>
  /\ Local

ArmOffline == Idle /\ reconciliation_ok /\ Pause(FALSE) /\ agenda' = <<>> /\ Local

Operation(calls) == Idle /\ agenda' = calls /\ Internal

(* flatten_owned                                                           *)
FlattenOwned ==
  Operation(<<Call("pause"), Call("cancel_all"), Call("flatten_all"),
              Call("reconcile_all"), Call("confirm_flat")>>)

(* tighten_stop: the broker's answer decides between recording the stop and *)
(* leaving the position.  The edit may also be in force without that answer *)
(* (the request fails after it), and the simulator, which only answers,     *)
(* reports its order as before.                                            *)
TightenStop(p, stop) ==
  /\ Idle
  /\ OwnershipProven(p)
  /\ stop >= positions[p].stop_price
  /\ orders' \in {orders, [orders EXCEPT ![positions[p].owner_intent_id].protected = TRUE]}
  /\ agenda' \in {<<Frame("set_protection", p, {}, TRUE, stop)>>,
                  <<Call("pause"), Call("cancel_all"), CallOn("close", p)>>}
  /\ UNCHANGED <<storeVars, held, clock, dispatched, moved, unseen, moves, started, crashes>>

(* __exit__                                                                *)
Exit == Operation(<<Call("pause"), Call("release")>>)

Crash ==
  /\ started /\ crashes < MaxCrashes
  /\ started' = FALSE /\ agenda' = <<>> /\ crashes' = crashes + 1
  /\ UNCHANGED <<storeVars, brokerVars>>

(* close_owned may be asked for any position: it ends at once for one       *)
(* without units.                                                          *)
Operations ==
  \/ Enter
  \/ \E s \in Symbols, n \in Units, stop \in StopPrices : SubmitEntry(s, n, stop)
  \/ ArmOffline
  \/ Operation(<<Call("pause")>>)
  \/ Operation(<<Call("reconcile_all")>>)
  \/ Operation(<<Call("cancel_all")>>)
  \/ \E p \in PositionIds : Operation(<<CallOn("close", p)>>)
  \/ FlattenOwned
  \/ \E p \in OpenPositions, stop \in StopPrices : TightenStop(p, stop)
  \/ Exit

-----------------------------------------------------------------------------
(* Store calls that are frames of their own.                               *)

PauseCall == Running("pause") /\ Pause(TRUE) /\ agenda' = Then(<<>>) /\ Local

UnreconciledCall ==
  Running("unreconciled") /\ SetReconciliation(FALSE) /\ agenda' = Then(<<>>) /\ Local

(* The exception handlers keep the exposure of a still active intent.      *)
ToUnknown ==
  /\ Running("to_unknown")
  /\ IF Active(Top.id) /\ intents[Top.id].state # "UNKNOWN"
     THEN Transition(Top.id, "UNKNOWN") ELSE UNCHANGED storeVars
  /\ agenda' = Then(<<>>)
  /\ Local

SetProtectionCall ==
  Running("set_protection") /\ SetProtection(Top.id, Top.report, TRUE)
    /\ agenda' = Then(<<>>) /\ Local

Release ==
  Running("release") /\ started' = FALSE /\ agenda' = <<>>
    /\ UNCHANGED <<storeVars, brokerVars, crashes>>

EndIncident == Running("end_incident") /\ agenda' = Then(<<>>) /\ Internal

(* Mutant: the loop takes e and keeps it.                                  *)
Keeping(e) == Top

(* The loop goes on with what is left once e is taken.                     *)
Without(e) == [Top EXCEPT !.todo = @ \ {e}]

LoopEnds(op) == Running(op) /\ Top.todo = {} /\ agenda' = Then(<<>>) /\ Internal

-----------------------------------------------------------------------------
(* Recovery: nothing a crash interrupted is ever sent again.  (The first    *)
(* definition is a mutant: an unanswered order counts as never sent.)      *)
RecoveredAsRejected(state) == IF state = "SUBMITTING" THEN "REJECTED" ELSE "EXPIRED"

RecoveredState(state) == IF state = "SUBMITTING" THEN "UNKNOWN" ELSE "EXPIRED"

Recover ==
  Running("recover") /\ \E e \in Top.todo :
    /\ Transition(e.id, RecoveredState(e.state))
    /\ agenda' = <<Without(e)>> \o Rest
    /\ Local

-----------------------------------------------------------------------------
(* Submission.                                                             *)

(* A preparing adapter may refuse an approved entry before any mutation;    *)
(* any other exception leaves the entry approved.                          *)
Prepare ==
  /\ Running("prepare")
  /\ agenda' \in {Then(<<CallOn("submit", Top.id)>>), Then(<<CallOn("reject", Top.id)>>),
                  Raise(Rest)}
  /\ Internal

(* SUBMITTING is durable before anything is sent.                          *)
Submit ==
  /\ Running("submit")
  /\ Transition(Top.id, "SUBMITTING")
  /\ agenda' = <<CallOn("send", Top.id), CallOn("sending", Top.id)>> \o Rest
  /\ Local

(* _reject_pre_send                                                        *)
Reject ==
  /\ Running("reject")
  /\ intents[Top.id].state \in {"APPROVED", "SUBMITTING"}
  /\ intents[Top.id].filled_units = 0
  /\ Transition(Top.id, "REJECTED")
  /\ agenda' = Then(<<Call("pause")>>)
  /\ Local

(* The adapter proved that it dispatched nothing: RejectedBeforeSend leaves *)
(* the try block through its own handler.                                  *)
SendRefused ==
  /\ Running("send")
  /\ agenda' = <<CallOn("reject", Top.id)>> \o Tail(Rest)
  /\ Internal

(* The broker accepts; its answer may get lost.  The simulator fills at     *)
(* once, eToro acknowledges and fills later (BrokerFills).                 *)
SendAccepted ==
  /\ Running("send")
  /\ LET i == Top.id IN
     \E n \in IF Etoro THEN {0} ELSE 0..intents[i].units, protected \in Protection, lost \in BOOLEAN :
       LET o == [state |-> FillState(intents[i].units, n), filled_units |-> n,
                 protected |-> protected]
       IN /\ CanFill(i, n)
          /\ orders' = [orders EXCEPT ![i] = o]
          /\ held' = HeldAfter(i, n)
          /\ clock' = ClockAfter(n)
          /\ dispatched' = [dispatched EXCEPT ![i] = @ + 1]
          /\ agenda' = IF lost THEN Raise(Rest)
                       ELSE <<Apply(ReportAt(i, o, held', clock'))>> \o Rest
  /\ UNCHANGED <<storeVars, moved, unseen, moves, started, crashes>>

(* The request fails on its way, or is refused, but nobody can tell.       *)
SendFailed ==
  /\ Running("send")
  /\ dispatched' = [dispatched EXCEPT ![Top.id] = @ + 1]
  /\ agenda' = Raise(Rest)
  /\ UNCHANGED <<storeVars, orders, held, clock, moved, unseen, moves, started, crashes>>

-----------------------------------------------------------------------------
(* _apply: book the report, then manage an unacceptable fill.              *)

(* Mutant: protection is checked when the order is complete.               *)
IncidentWhenFilled(u) == Kind(u.intent_id) = "entry" /\ u.state = "FILLED" /\ ~u.protected

Incident(u) == Kind(u.intent_id) = "entry" /\ u.filled_units > 0 /\ ~u.protected

(* Mutant: the incident closes what it takes for a position.               *)
IncidentClosesIntent(u) ==
  IF ~Incident(u) THEN <<>>
  ELSE <<Call("pause"), Call("cancel_all"), CallOn("close", u.intent_id), Call("end_incident")>>

(* Incident management does not nest.                                      *)
IncidentCalls(u) ==
  IF ~Incident(u) THEN <<>>
  ELSE IF InIncident THEN <<Call("pause")>>
  ELSE <<Call("pause"), Call("cancel_all"), CallOn("close", u.position_id),
         Call("end_incident")>>

ApplyReport ==
  /\ Running("apply")
  /\ ApplyBrokerOrder(Top.report, clock)
  /\ agenda' = Then(IncidentCalls(Top.report))
  /\ Local

(* The store refuses the report: rolled back, and the exception propagates. *)
ApplyRefused ==
  Running("apply") /\ ~Commits(Top.report, clock) /\ agenda' = Raise(Rest) /\ Internal

-----------------------------------------------------------------------------
(* reconcile.                                                              *)

ReconcileAll ==
  /\ Running("reconcile_all")
  /\ agenda' = <<Loop("reconcile", {e \in Snapshot :
                     e.state \notin {"CREATED", "APPROVED", "REJECTED"}})>> \o Rest
  /\ moved' = {} /\ unseen' = {}
  /\ UNCHANGED <<storeVars, orders, held, clock, dispatched, moves, started, crashes>>

(* What a query may answer: the order, perhaps without its snapshot, perhaps *)
(* with a status nobody knows; of a close, eToro reports only UNKNOWN and   *)
(* the fills already booked.                                               *)
WithoutSnapshot(u) == [u EXCEPT !.remaining_units = Nil, !.observed_at = Nil]

Answers(i) ==
  LET report == ReportOn(i, orders[i])
      booked == [orders[i] EXCEPT !.filled_units = intents[i].filled_units]
  IN IF Etoro /\ Kind(i) = "close" THEN {[ReportOn(i, booked) EXCEPT !.state = "UNKNOWN"]}
     ELSE {report, WithoutSnapshot(report), [report EXCEPT !.state = "UNKNOWN"]}

QueryAnswered ==
  Running("reconcile") /\ \E e \in Top.todo :
    /\ Accepted(e.id)
    /\ \E u \in Answers(e.id) :
         agenda' = <<Apply(u), [Without(e) EXCEPT !.clean = @ /\ u.state # "UNKNOWN"]>> \o Rest
    /\ Internal

(* Not found, which proves nothing: eToro answers 404 for any order it does *)
(* not show.  It matters only to a row that was still active.              *)
QueryUnseen ==
  Running("reconcile") /\ \E e \in Top.todo :
    /\ IF /\ e.state \in ACTIVE_STATES \ {"UNKNOWN"}
          /\ ValidTransition(intents[e.id].state, "UNKNOWN")
       THEN Transition(e.id, "UNKNOWN") ELSE UNCHANGED storeVars
    /\ agenda' =
         <<[Without(e) EXCEPT !.clean = @ /\ e.state \notin ACTIVE_STATES]>> \o Rest
    /\ unseen' = IF Accepted(e.id) /\ e.state \notin ACTIVE_STATES
                 THEN unseen \cup {e.id} ELSE unseen
    /\ UNCHANGED <<orders, held, clock, dispatched, moved, moves, started, crashes>>

(* Mutant: a failed query leaves the reconciliation clean.                 *)
QueryFailedCleanly ==
  Running("reconcile") /\ \E e \in Top.todo : agenda' = <<Without(e)>> \o Rest /\ Internal

QueryFailed ==
  Running("reconcile") /\ \E e \in Top.todo :
    /\ agenda' = <<[Without(e) EXCEPT !.clean = FALSE]>> \o Rest
    /\ Internal

(* Mutant: pending accounting does not count.                              *)
ReconciledOrders == Top.clean /\ \A i \in IntentIds : intents[i].state # "UNKNOWN"

ReconciledCleanly ==
  /\ Top.clean
  /\ \A i \in IntentIds : intents[i].state # "UNKNOWN"
  /\ \A p \in PositionIds : positions[p].accounting_complete

ReconcileEnds ==
  /\ Running("reconcile") /\ Top.todo = {}
  /\ SetReconciliation(ReconciledCleanly)
  /\ agenda' = Then(IF ReconciledCleanly THEN <<>> ELSE <<Call("pause")>>)
  /\ Local

-----------------------------------------------------------------------------
(* cancel_pending_entries, over the entries that were active when it began. *)

CancelAll ==
  /\ Running("cancel_all")
  /\ agenda' = <<Loop("cancel", {e \in Snapshot :
                     e.id \in Symbols /\ e.state \in ACTIVE_STATES})>> \o Rest
  /\ Internal

CancelUnsent ==
  Running("cancel") /\ \E e \in Top.todo :
    /\ e.state \in {"CREATED", "APPROVED"}
    /\ Transition(e.id, "EXPIRED")
    /\ agenda' = <<Without(e)>> \o Rest
    /\ Local

CancelSent ==
  Running("cancel") /\ \E e \in Top.todo :
    /\ e.state \notin {"CREATED", "APPROVED"}
    /\ IF ValidTransition(intents[e.id].state, "CANCEL_PENDING")
       THEN /\ Transition(e.id, "CANCEL_PENDING")
            /\ agenda' = <<CallOn("ask_cancel", e.id), CallOn("cancelling", e.id),
                           Without(e)>> \o Rest
       ELSE /\ UNCHANGED storeVars
            /\ agenda' = Raise(<<CallOn("cancelling", e.id), Without(e)>> \o Rest)
    /\ Local

(* The order after a cancel, and the state its report carries: the          *)
(* simulator cancels at once, eToro only acknowledges the request.         *)
CancelledOrder(o) == IF o.state = "FILLED" THEN o ELSE [o EXCEPT !.state = "CANCELLED"]
CancelRequested(o) ==
  IF o.state \in {"ACKNOWLEDGED", "PARTIALLY_FILLED"}
  THEN [o EXCEPT !.state = "CANCEL_PENDING"] ELSE o

CancelOutcomes(o) ==
  {[order |-> CancelRequested(o), reported |-> "CANCEL_PENDING"]}
    \cup IF Etoro THEN {}
         ELSE {[order |-> CancelledOrder(o), reported |-> CancelledOrder(o).state]}

AskCancel ==
  /\ Running("ask_cancel") /\ Accepted(Top.id)
  /\ LET i == Top.id IN
     \E outcome \in CancelOutcomes(orders[i]), lost \in BOOLEAN :
       /\ orders' = [orders EXCEPT ![i] = outcome.order]
       /\ agenda' = IF lost THEN Raise(Rest)
                    ELSE <<Apply([ReportOn(i, outcome.order) EXCEPT
                                       !.state = outcome.reported])>> \o Rest
  /\ UNCHANGED <<storeVars, held, clock, dispatched, moved, unseen, moves, started, crashes>>

AskCancelFailed == Running("ask_cancel") /\ agenda' = Raise(Rest) /\ Internal

-----------------------------------------------------------------------------
(* close_owned.                                                            *)

OwnerActive(p) == Active(positions[p].owner_intent_id)

CloseNothing ==
  /\ Running("close")
  /\ Row(Top.id) \/ positions[Top.id].units = 0
  /\ agenda' = Then(<<>>)
  /\ Internal

Closable(p) == ~Row(p) /\ positions[p].units > 0

CloseBlocked ==
  /\ Running("close") /\ Closable(Top.id) /\ ~positions[Top.id].accounting_complete
  /\ agenda' = Then(<<Call("pause")>>)
  /\ Internal

CloseAfterCancel ==
  /\ Running("close") /\ Closable(Top.id) /\ positions[Top.id].accounting_complete
  /\ OwnerActive(Top.id)
  /\ agenda' = Then(<<Call("cancel_all"), CallOn("close_recheck", Top.id)>>)
  /\ Internal

CreateCloseOf(p) ==
  /\ CreateClose(p, positions[p].units)
  /\ agenda' = Then(<<CallOn("submit", p)>>)
  /\ Local

CloseCreate ==
  Running("close") /\ Closable(Top.id) /\ ~OwnerActive(Top.id) /\ CreateCloseOf(Top.id)

(* After cancelling the entry the position is read again.                  *)
CloseStillPending ==
  Running("close_recheck") /\ OwnerActive(Top.id) /\ agenda' = Then(<<>>) /\ Internal

(* An intent of no units, or of a position whose accounting is pending, is *)
(* an exception.                                                           *)
CloseRefused ==
  /\ Running("close_recheck") /\ ~OwnerActive(Top.id)
  /\ positions[Top.id].units = 0 \/ ~positions[Top.id].accounting_complete
  /\ agenda' = Raise(Rest)
  /\ Internal

CloseRecheck ==
  /\ Running("close_recheck") /\ ~OwnerActive(Top.id)
  /\ positions[Top.id].units > 0 /\ positions[Top.id].accounting_complete
  /\ \/ CreateCloseOf(Top.id)
     \/ Row(Top.id) /\ agenda' = Then(<<>>) /\ Internal

-----------------------------------------------------------------------------
(* flatten_owned, after its entries are cancelled.                         *)

FlattenAll ==
  /\ Running("flatten_all")
  /\ agenda' = <<Loop("flatten", {[id |-> p, state |-> Nil] : p \in OpenPositions})>> \o Rest
  /\ Internal

FlattenNext ==
  Running("flatten") /\ \E e \in Top.todo :
    /\ agenda' = <<CallOn("close", e.id), Without(e)>> \o Rest
    /\ Internal

(* Mutant: the local books alone say flat.                                 *)
FlatInBooks == OpenPositions = {} /\ ~\E i \in IntentIds : Active(i)

(* The answer FLAT_CONFIRMED; reconciliation_ok is what reconcile() returned. *)
Flat == reconciliation_ok /\ OpenPositions = {} /\ ~\E i \in IntentIds : Active(i)

ConfirmFlat == Running("confirm_flat") /\ agenda' = Then(<<>>) /\ Internal

-----------------------------------------------------------------------------
(* The broker on its own, within MaxMoves.                                 *)

MoveOf(i) == moves < MaxMoves /\ moves' = moves + 1
               /\ moved' = moved \cup {i, PositionOfIntent(i)}
               /\ UNCHANGED <<storeVars, dispatched, unseen, started, agenda, crashes>>

(* More of an order fills; after a cancellation or expiry, late.           *)
BrokerFills(i, n, protected) ==
  /\ Live(i) \/ orders[i].state \in {"CANCELLED", "EXPIRED"}
  /\ n \in (orders[i].filled_units + 1)..intents[i].units
  /\ CanFill(i, n - orders[i].filled_units)
  /\ orders' = [orders EXCEPT ![i] = [state |-> FillState(intents[i].units, n),
                                      filled_units |-> n, protected |-> protected]]
  /\ held' = HeldAfter(i, n - orders[i].filled_units)
  /\ clock' = ClockAfter(n - orders[i].filled_units)
  /\ MoveOf(i)

BrokerEnds(i, state) ==
  /\ Live(i)
  /\ state = "REJECTED" => orders[i].filled_units = 0
  /\ orders' = [orders EXCEPT ![i].state = state]
  /\ MoveOf(i)
  /\ UNCHANGED <<held, clock>>

(* The native stop of a position executes: no order of ours sold it.       *)
StopOut(s) ==
  /\ Etoro /\ clock < MaxTime
  /\ held[PositionOf[s]] > 0
  /\ held' = [held EXCEPT ![PositionOf[s]] = 0]
  /\ clock' = clock + 1
  /\ MoveOf(s)
  /\ UNCHANGED orders

BrokerMoves ==
  \/ \E i \in IntentIds, n \in Units, protected \in Protection : BrokerFills(i, n, protected)
  \/ \E i \in IntentIds, state \in {"CANCELLED", "EXPIRED", "REJECTED"} : BrokerEnds(i, state)
  \/ \E s \in Symbols : StopOut(s)

-----------------------------------------------------------------------------
ExecutorSteps ==
  \/ PauseCall \/ UnreconciledCall \/ ToUnknown \/ SetProtectionCall \/ Release
  \/ EndIncident \/ LoopEnds("recover") \/ LoopEnds("cancel") \/ LoopEnds("flatten")
  \/ Recover \/ Prepare \/ Submit \/ Reject \/ SendRefused \/ SendAccepted \/ SendFailed
  \/ ApplyReport \/ ApplyRefused
  \/ ReconcileAll \/ QueryAnswered \/ QueryUnseen \/ QueryFailed \/ ReconcileEnds
  \/ CancelAll \/ CancelUnsent \/ CancelSent \/ AskCancel \/ AskCancelFailed
  \/ CloseNothing \/ CloseBlocked \/ CloseAfterCancel \/ CloseCreate
  \/ CloseStillPending \/ CloseRefused \/ CloseRecheck
  \/ FlattenAll \/ FlattenNext \/ ConfirmFlat

Next == Operations \/ ExecutorSteps \/ BrokerMoves \/ Crash

(* The executor's thread runs until its operation is done or it dies.      *)
Spec == Init /\ [][Next]_vars /\ WF_vars(ExecutorSteps)

-----------------------------------------------------------------------------
(* Type correctness of the call stack and of the broker.                   *)
Calls ==
  {"pause", "unreconciled", "recover", "reconcile_all", "reconcile", "prepare", "submit",
   "send", "sending", "reject", "apply", "to_unknown", "cancel_all", "cancel", "ask_cancel",
   "cancelling", "close", "close_recheck", "flatten_all", "flatten", "confirm_flat",
   "set_protection", "end_incident", "release"}

FrameOK(frame) ==
  /\ frame.op \in Calls
  /\ frame.clean \in BOOLEAN
  /\ \A e \in frame.todo : e.id \in IntentIds /\ e.state \in OrderState \cup {Nil}
  /\ CASE frame.op = "apply" -> frame.report \in Reports /\ frame.id = frame.report.intent_id
       [] frame.op = "set_protection" -> frame.report \in StopPrices /\ frame.id \in PositionIds
       [] frame.op \in {"close", "close_recheck"} -> frame.report = Nil /\ frame.id \in PositionIds
       [] OTHER -> frame.report = Nil /\ frame.id \in IntentIds \cup {Nil}

ExecutorTypeOK ==
  /\ started \in BOOLEAN
  /\ DOMAIN agenda = 1..Len(agenda) /\ \A k \in 1..Len(agenda) : FrameOK(agenda[k])
  /\ orders \in [IntentIds -> Order] /\ held \in [PositionIds -> Units]
  /\ clock \in 0..MaxTime /\ dispatched \in [IntentIds -> Nat]
  /\ moved \subseteq IntentIds /\ unseen \subseteq IntentIds
  /\ moves \in 0..MaxMoves /\ crashes \in 0..MaxCrashes

(* No intent reaches the broker twice: not after a lost answer, a refused   *)
(* report, a crash between SUBMITTING and the answer, a second signal, an   *)
(* incident inside a close, or a restart (engine.py _send, __enter__,       *)
(* submit_entry, close_owned).                                              *)
NeverSentTwice == \A i \in IntentIds : dispatched[i] <= 1

(* The executor gives an entry up, and its reserved cash and risk with it,  *)
(* only when the broker can no longer fill it, unless the broker revives or *)
(* ends it behind the reconciliation that is running (engine.py __enter__,  *)
(* _send, reconcile, cancel_pending_entries).                               *)
ReleasedOnlyWhenDead ==
  [][\A s \in Symbols : Active(s) /\ ~Active(s)' => ~Live(s) \/ s \in moved]_vars

(* Between operations an order whose fate is unknown, or a position whose   *)
(* accounting is pending, blocks new entries, however it came about.        *)
UnresolvedBlocksEntries ==
  Idle /\ (\/ \E i \in IntentIds : intents[i].state = "UNKNOWN"
           \/ \E p \in PositionIds : ~positions[p].accounting_complete)
    => entries_paused /\ ~reconciliation_ok

(* While reconciliation_ok stands, the store and the broker agree about     *)
(* every order that the last reconcile() was shown, or had no row for, and   *)
(* the broker did not change since: same fills, and no order that may still *)
(* fill is taken for finished.                                              *)
ReconciledMeansAgreed ==
  Idle /\ reconciliation_ok =>
    \A i \in IntentIds \ (moved \cup unseen) :
      /\ intents[i].filled_units = orders[i].filled_units
      /\ Live(i) => Active(i)

(* FLAT_CONFIRMED is true of the broker, up to what the broker did after    *)
(* the final reconciliation began and the orders that one was not shown:    *)
(* nothing held, nothing that may fill (engine.py flatten_owned).           *)
ConfirmedFlatIsFlat ==
  Running("confirm_flat") /\ Flat =>
    /\ \A p \in PositionIds \ moved :
         held[p] = 0 \/ \E s \in Symbols \cap unseen : PositionOf[s] = p
    /\ \A i \in IntentIds \ (moved \cup unseen) : ~Live(i)

(* FLAT_CONFIRMED is never said over a position that filled before the      *)
(* final reconciliation began, whatever that one was shown: of exposure     *)
(* that comes late, docs/OPERATIONS_RUNBOOK.md:125 says not to report flat. *)
LateExposureIsNotFlat ==
  Running("confirm_flat") /\ Flat => \A p \in PositionIds \ moved : held[p] = 0

(* Open positions and pending entries together never exceed max_positions,  *)
(* whatever is in flight, except for fills that arrive after a cancellation *)
(* (store.py portfolio, engine.py submit_entry).                            *)
PositionLimit ==
  LET exposed == {s \in Symbols : \/ Active(s)
                                  \/ \E p \in OpenPositions : positions[p].owner_intent_id = s}
  IN Cardinality(exposed \ late_fills) <= MaxPositions

(* Between operations, an open position booked as unprotected, and with all *)
(* its fills still unprotected at the broker, has been asked to close,      *)
(* unless its close is impossible (entry still pending, accounting pending), *)
(* entries are blocked until a new reconciliation, or the last one was not  *)
(* shown the entry (engine.py _apply, reconcile).                           *)
UnprotectedIsClosed ==
  Idle /\ reconciliation_ok =>
    \A s \in Symbols \ unseen :
      LET p == PositionOf[s] IN
      /\ positions[p].units > 0 /\ positions[p].accounting_complete /\ ~Active(s)
      /\ ~positions[p].protected /\ ~orders[s].protected
      /\ intents[s].filled_units = orders[s].filled_units
      => Row(p)

(* Every operation comes to its end, the nested incident management of      *)
(* _apply, cancel_pending_entries and close_owned included.                 *)
OperationsTerminate == []<>(agenda = <<>>)

(* A close asks for just the units the broker was last seen to hold, or,    *)
(* while nothing was seen, for the units in the books.  What was seen is     *)
(* forgotten only when more fills of the entry are booked: their report may *)
(* come without a snapshot, and the books then count from the fills alone   *)
(* (store.py create_intent, _apply_fill and _observe_remaining, engine.py   *)
(* close_owned).                                                           *)
CloseAsObserved(p) ==
  ~Row(p) /\ Row(p)' => positions[p].observed_units \in {Nil, intents'[p].units}

ForgetsForFills(p) ==
  positions[p].observed_units # Nil /\ positions'[p].observed_units = Nil
    => LET s == positions'[p].owner_intent_id
       IN s \in Symbols /\ intents'[s].filled_units > intents[s].filled_units

CloseMatchesObservation ==
  [][\A p \in PositionIds : CloseAsObserved(p) /\ ForgetsForFills(p)]_vars

(* A stop once recorded for an open position is never lowered.              *)
StopsNeverWiden ==
  [][\A p \in PositionIds :
       positions[p].units > 0 /\ positions[p].owner_intent_id # Nil
         => positions'[p].stop_price >= positions[p].stop_price]_vars

(* A position whose accounting is pending stays so until the broker gives   *)
(* evidence that the books are complete: an observation of just the units   *)
(* in the books.                                                            *)
PendingUntilEvidence ==
  [][\A p \in PositionIds :
       ~positions[p].accounting_complete /\ positions'[p].accounting_complete
         => positions'[p].observed_units = positions'[p].units]_vars
=============================================================================
