----------------------------- MODULE DemoSession -----------------------------
(***************************************************************************)
(* The simulated session A6, execution/session.py: DemoSessionRunner.run   *)
(* binds a database of its own to the scenario it is given (configuration, *)
(* day, bars, instruments and evidence, all in one digest), recovers what  *)
(* an earlier run left, submits the signals, closes every position with an *)
(* explicit quote, and stores its result only when it is reconciled and    *)
(* flat.  Running it again over the same database recovers it or repeats   *)
(* the stored result.                                                      *)
(***************************************************************************)
EXTENDS OwnerScript

CONSTANT Scenarios  \* the inputs run() may be given, by what the run reads in them

(* preconditions: synthetic data, an evaluation day, a valid Demo context  *)
(* and a budget it covers; signals: what ORBStrategy decides, in the order *)
(* of submission; the evidence each symbol has.                            *)
Scenario ==
  [preconditions : BOOLEAN, signals : Seq(Symbols), quoted : SUBSET Symbols,
   eligible : SUBSET Symbols, closing_quotes : SUBSET Symbols]

ASSUME ScenariosAssumption == Scenarios \subseteq Scenario

VARIABLES
  a6_binding,  \* metadata a6_binding
  a6_result,   \* metadata a6_result, by the scenario it is the result of
  events,      \* the audit has rows
  outcome      \* the status the last run returned

sessionVars == <<a6_binding, a6_result, events, outcome>>

SessionInit == a6_binding = Nil /\ a6_result = Nil /\ events = FALSE /\ outcome = Nil

KeepSession == UNCHANGED sessionVars

Block == Goto(Aborted) /\ KeepSession

-----------------------------------------------------------------------------
(* Mutant: any scenario continues what an earlier one began.               *)
BindingIgnored(scenario) == scenario.preconditions /\ (a6_binding = Nil => ~events)

(* Mutant: only an empty database is ever accepted.                        *)
EmptyAccepted(scenario) == a6_binding \in {Nil, scenario} /\ ~events /\ scenario.preconditions

(* A new binding needs a database without orders or events.                *)
BindingAccepted(scenario) ==
  /\ a6_binding \in {Nil, scenario}
  /\ a6_binding = Nil => ~events
  /\ scenario.preconditions

SessionSteps == <<Step("enter"), Step("admit")>>

Run(scenario) ==
  /\ database = "a6" /\ owner = Nil
  /\ events' = TRUE
  /\ IF BindingAccepted(scenario)
     THEN /\ a6_binding' = scenario /\ outcome' = Nil
          /\ owner' = "a6" /\ script' = SessionSteps
     ELSE outcome' = "BLOCKED" /\ UNCHANGED <<a6_binding, owner, script>>
  /\ UNCHANGED <<vars, database, a6_result>>

SignalSteps ==
  [k \in 1..Len(a6_binding.signals) |-> StepOn("signal", a6_binding.signals[k])]

TradingSteps ==
  <<Step("arm")>> \o SignalSteps
    \o <<Step("pause"), Step("cancel"), Step("closing"), Step("reconcile"), Step("finish")>>

(* Mutant: a stored result is not looked at.                               *)
AdmitAgain ==
  AtStep("admit")
    /\ IF reconciliation_ok THEN Goto(TradingSteps) /\ KeepSession ELSE Block

(* Recovery is over: an unresolved order blocks, a stored result is         *)
(* returned unless there is exposure again, else the session trades.       *)
Admit ==
  AtStep("admit")
    /\ IF ~reconciliation_ok \/ (a6_result # Nil /\ ~Flattened) THEN Block
       ELSE /\ Goto(IF a6_result = Nil THEN TradingSteps
                    ELSE <<Step("exit"), Step("pass")>>)
            /\ KeepSession

(* A signal needs an executable quote within the Demo context; a symbol    *)
(* whose eligibility lapsed is skipped.  Every submission is reconciled.   *)
Signal ==
  AtStep("signal") /\ database = "a6" /\
    IF Now.id \notin a6_binding.quoted THEN Block
    ELSE IF Now.id \notin a6_binding.eligible THEN Goto(Left) /\ KeepSession
    ELSE Submission(Now.id, <<StepOn("settle", Now.id), Step("reconciled")>> \o Left)
           /\ KeepSession

(* What the runner does with the answer of submit_entry.                   *)
Settle ==
  AtStep("settle") /\
    IF intents[Now.id].state = "EXPIRED" THEN Block
    ELSE Operation(<<Call("reconcile_all")>>) /\ Calling(Left) /\ KeepSession

Reconciled ==
  AtStep("reconciled") /\ IF reconciliation_ok THEN Goto(Left) /\ KeepSession ELSE Block

CloseQuoted ==
  AtStep("close") /\ database = "a6" /\
    IF positions[Now.id].owner_intent_id \notin a6_binding.closing_quotes THEN Block
    ELSE CloseOwned(Now.id) /\ KeepSession

(* Mutant: reconciled is enough for a result.                              *)
FinishReconciled ==
  AtStep("finish") /\
    IF ~reconciliation_ok THEN Block
    ELSE /\ a6_result' = a6_binding
         /\ Goto(<<Step("exit"), Step("pass")>>)
         /\ UNCHANGED <<a6_binding, events, outcome>>

(* Only a reconciled, flat session stores its result.                      *)
Finish ==
  AtStep("finish") /\
    IF ~reconciliation_ok \/ ~Flattened THEN Block
    ELSE /\ a6_result' = a6_binding
         /\ Goto(<<Step("exit"), Step("pass")>>)
         /\ UNCHANGED <<a6_binding, events, outcome>>

(* run() returns and frees the lock.                                       *)
Return(op, status) ==
  /\ AtStep(op)
  /\ outcome' = status /\ owner' = Nil /\ script' = <<>>
  /\ UNCHANGED <<vars, database, a6_binding, a6_result, events>>

SessionOwnSteps ==
  \/ Admit \/ Signal \/ Settle \/ Reconciled \/ CloseQuoted \/ Finish
  \/ Return("pass", "PASS") \/ (owner = "a6" /\ Return("blocked", "BLOCKED"))

-----------------------------------------------------------------------------
(* A run that answers PASS, from its own trades or from the stored result, *)
(* leaves nothing open: no position and no active order in the books,      *)
(* entries paused, and the simulator agrees except for what it changed     *)
(* since the last reconciliation began (session.py run, "A6_RESIDUAL_       *)
(* EXPOSURE" and "A6_COMPLETED_SESSION_EXPOSURE_CHANGED").                 *)
PassIsFlat ==
  AtStep("pass") =>
    /\ Flattened /\ entries_paused /\ reconciliation_ok
    /\ \A p \in PositionIds \ moved : held[p] = 0
    /\ \A i \in IntentIds \ moved : ~Live(i)

(* Once a result is stored, running the session again sends no order, of   *)
(* any kind, even when it changed hands over a crash (docs/A6_SESSION.md:  *)
(* "cero submits/cierres nuevos").                                         *)
CompletedSendsNothing ==
  [][a6_result # Nil => \A i \in IntentIds : dispatched'[i] <= dispatched[i]]_dispatched

(* A stored result is the result of the scenario the database is bound to: *)
(* no run answers PASS with what another scenario traded, also after  *)
(* a crash (session.py run, "A6_SESSION_INPUTS_CHANGED").            *)
ResultIsOfBinding == a6_result # Nil => a6_binding = a6_result

(* What the recovery cannot repair: an entry that expired unsent, an order *)
(* sent but unknown to the simulator, a position whose only close is spent, *)
(* an order that ended in a state TRANSITIONS does not let a row reach (it *)
(* expired, or was rejected, while it was being cancelled).                *)
Irreparable ==
  \/ \E s \in Symbols : intents[s].state = "EXPIRED"
  \/ \E i \in IntentIds : intents[i].state = "UNKNOWN" /\ ~Accepted(i)
  \/ \E p \in OpenPositions : Row(p)
  \/ \E i \in IntentIds : Accepted(i) /\ ~ValidTransition(intents[i].state, orders[i].state)

(* A session whose evidence is complete is completed by running it again,  *)
(* whatever a crash interrupted, or what is left is irreparable: nothing   *)
(* accepted is ever stranded (docs/A6_SESSION.md, recovery table).         *)
SessionRecovers ==
  (/\ database = "a6"
   /\ <>(a6_binding # Nil /\ Range(a6_binding.signals)
                               \subseteq a6_binding.quoted \cap a6_binding.closing_quotes))
    => <>(a6_result # Nil) \/ <>[]Irreparable
=============================================================================
