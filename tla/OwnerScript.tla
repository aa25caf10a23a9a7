----------------------------- MODULE OwnerScript -----------------------------
(***************************************************************************)
(* What the two owners of the local database have in common: the A6 session *)
(* (execution/session.py) and the operation service (service.py) both take *)
(* an owner lock, enter an Executor over the SimulatorBroker, make its     *)
(* operations one after the other, and leave it.  `script` is what the     *)
(* owner still has to do; its next step is taken when the executor's call  *)
(* stack is empty.  The lock belongs to the process: its death frees it,   *)
(* and the script dies with it, while store and simulated orders stay.     *)
(***************************************************************************)
EXTENDS Executor, SequencesExt

(* Both owners build the simulator with its default native protection.     *)
ASSUME SimulatorAssumption == Protection = {TRUE}

(* Nil is nobody.                                                          *)
ASSUME OwnersAssumption == Nil \notin {"a6", "service"}

VARIABLES
  owner,     \* who holds the owner lock: "a6", "service" or Nil
  script,    \* the steps it still has to take
  database   \* which of the two owners this database belongs to

scriptVars == <<owner, script, database>>
tradeVars  == <<vars, database, owner>>

Step(op)       == [op |-> op, id |-> Nil]
StepOn(op, id) == [op |-> op, id |-> id]

Now  == Head(script)
Left == Tail(script)
AtStep(op) == owner # Nil /\ agenda = <<>> /\ script # <<>> /\ Now.op = op

(* A step of the script that touches neither store nor executor.           *)
Goto(steps) == script' = steps /\ UNCHANGED tradeVars

(* A step that starts an operation of the executor.                        *)
Calling(steps) == script' = steps /\ UNCHANGED <<database, owner>>

(* What is left of a script whose step raised: the executor's __exit__, if  *)
(* it was entered, and the owner's handler.                                *)
Aborted == (IF started THEN <<Step("exit")>> ELSE <<>>) \o <<Step("blocked")>>

-----------------------------------------------------------------------------
(* The executor's steps as the simulator lets them happen: it prepares     *)
(* nothing, accepts whatever is sent, perhaps losing the answer            *)
(* (timeout_after_accept), cancels at once and always answers queries.     *)
SimulatorSends == Prepare /\ agenda' = Then(<<CallOn("submit", Top.id)>>)

SimulatorAnswers ==
  QueryAnswered /\ Head(agenda').report = ReportOn(Head(agenda').id, orders[Head(agenda').id])

(* (taken once the orders it knows are answered)                           *)
SimulatorUnseen == QueryUnseen /\ \A e \in Top.todo : ~Accepted(e.id)

SimulatorCancels ==
  AskCancel /\ LET cancelled == CancelledOrder(orders[Top.id]) IN
                 /\ orders'[Top.id] = cancelled
                 /\ Head(agenda') = Apply(ReportOn(Top.id, cancelled))

SimulatorSteps ==
  \/ PauseCall \/ UnreconciledCall \/ ToUnknown \/ Release
  \/ LoopEnds("recover") \/ LoopEnds("cancel") \/ LoopEnds("flatten")
  \/ Recover \/ SimulatorSends \/ Submit \/ SendAccepted \/ ApplyReport \/ ApplyRefused
  \/ ReconcileAll \/ SimulatorAnswers \/ SimulatorUnseen \/ ReconcileEnds
  \/ CancelAll \/ CancelUnsent \/ CancelSent \/ SimulatorCancels
  \/ (AskCancelFailed /\ ~Accepted(Top.id))
  \/ CloseNothing \/ CloseAfterCancel \/ CloseCreate \/ CloseRecheck
  \/ FlattenAll \/ FlattenNext \/ ConfirmFlat

-----------------------------------------------------------------------------
(* Steps both owners take.                                                 *)
EnterExecutor == AtStep("enter") /\ Enter /\ Calling(Left)

ExitExecutor == AtStep("exit") /\ Exit /\ Calling(Left)

Reconcile == AtStep("reconcile") /\ Operation(<<Call("reconcile_all")>>) /\ Calling(Left)

PauseEntries == AtStep("pause") /\ Operation(<<Call("pause")>>) /\ Calling(Left)

CancelEntries == AtStep("cancel") /\ Operation(<<Call("cancel_all")>>) /\ Calling(Left)

(* arm_offline raises while the reconciliation is unresolved.              *)
Arm ==
  /\ AtStep("arm")
  /\ IF reconciliation_ok THEN ArmOffline /\ Calling(Left) ELSE Goto(Aborted)

(* submit_entry of a signal: a duplicate or a refusal of the risk engine   *)
(* (whose budgets may refuse any entry) changes nothing, else an intent.    *)
Submission(s, next) ==
  \/ Goto(next)
  \/ \E stop \in StopPrices : SubmitEntry(s, MaxUnits, stop) /\ Calling(next)

(* The closing loop runs over the positions it read.                       *)
ClosingSteps == [k \in 1..Cardinality(OpenPositions) |->
                   StepOn("close", SetToSeq(OpenPositions)[k])]

Closing == AtStep("closing") /\ Goto(ClosingSteps \o Left)

CloseOwned(p) == Operation(<<CallOn("close", p)>>) /\ Calling(Left)

Flattened == OpenPositions = {} /\ ~\E i \in IntentIds : Active(i)

(* The process dies: the lock is free, everything durable stays.           *)
OwnerDies ==
  /\ owner # Nil /\ crashes < MaxCrashes
  /\ owner' = Nil /\ script' = <<>> /\ started' = FALSE /\ agenda' = <<>>
  /\ crashes' = crashes + 1
  /\ UNCHANGED <<storeVars, brokerVars, database>>

OwnerInit ==
  /\ Init
  /\ owner = Nil /\ script = <<>> /\ database \in {"a6", "service"}

OwnerSteps ==
  \/ SimulatorSteps /\ UNCHANGED scriptVars
  \/ EnterExecutor \/ ExitExecutor \/ Reconcile \/ PauseEntries \/ CancelEntries \/ Arm
  \/ Closing
=============================================================================
