-------------------------- MODULE OperationService --------------------------
(***************************************************************************)
(* The operation service of service.py, which the dashboard and the CLI     *)
(* drive: it owns operation-owner.lock for its whole life, its mutex makes *)
(* commands one at a time, and each command opens an executor of its own.   *)
(* A research run writes its report and then points the dashboard at it.   *)
(* The command queue of persistence/store.py is filled by any connection   *)
(* and drained by an executor (engine.py process_commands).                *)
(***************************************************************************)
EXTENDS OwnerScript

CONSTANTS
  Fixture,     \* the signals of the fixture session, in order of submission
  CommandIds,  \* the identifiers of the commands that may be queued
  QueueKinds,  \* the kinds they may have
  Actions      \* the actions clients ask for

VARIABLES
  commands,      \* table commands, by rowid
  report,        \* the report file of the fixture: absent, torn or whole
  latest_report  \* metadata latest_report names it

serviceVars == <<commands, report, latest_report>>

ServiceInit == commands = <<>> /\ report = "absent" /\ latest_report = FALSE

KeepService == UNCHANGED serviceVars

-----------------------------------------------------------------------------
(* A service starts disarmed.                                              *)
StartService ==
  /\ database = "service" /\ owner = Nil
  /\ owner' = "service"
  /\ Pause(TRUE)
  /\ UNCHANGED <<brokerVars, started, agenda, crashes, script, database>>
  /\ KeepService

StopService ==
  /\ owner = "service" /\ ~started /\ script = <<>>
  /\ owner' = Nil
  /\ UNCHANGED <<vars, script, database>> /\ KeepService

(* The fixture session: its signals, then its closes and the research run. *)
FixtureStart ==
  <<Step("arm")>> \o [k \in 1..Len(Fixture) |-> StepOn("signal", Fixture[k])]
(* Mutant: the dashboard is pointed at the report before it is written.    *)
FixtureCloseEarly == <<Step("closing"), Step("reconcile"), Step("publish"), Step("research")>>

FixtureClose == <<Step("closing"), Step("reconcile"), Step("research"), Step("publish")>>

(* What each action of command() does; all but a backtest do it within an  *)
(* executor of their own.  "drain" stands for an owner that calls          *)
(* process_commands.                                                       *)
Programs ==
  [action \in {"fixture-start", "fixture-close", "demo-offline", "pause-entries",
               "reconcile", "cancel-pending-entries", "backtest", "drain"} |->
    CASE action = "fixture-start" -> FixtureStart
      [] action = "fixture-close" -> FixtureClose
      [] action = "demo-offline"  -> FixtureStart \o FixtureClose
      [] action = "pause-entries" -> <<Step("pause")>>
      [] action = "reconcile"     -> <<Step("reconcile")>>
      [] action = "cancel-pending-entries" -> <<Step("cancel")>>
      [] action = "backtest" -> <<Step("research"), Step("publish")>>
      [] action = "drain" -> <<Step("drain")>>]

ASSUME ServiceAssumption ==
  /\ Fixture \in Seq(Symbols)
  /\ Actions \subseteq DOMAIN Programs
  /\ QueueKinds \subseteq
       {"PAUSE_ENTRIES", "RECONCILE", "CANCEL_PENDING_ENTRIES", "FLATTEN_OWNED"}

Command(action) ==
  /\ owner = "service" /\ ~started /\ script = <<>>
  /\ Goto(IF action = "backtest" THEN Programs[action]
          ELSE <<Step("enter")>> \o Programs[action] \o <<Step("exit")>>)
  /\ KeepService

FixtureSignal ==
  AtStep("signal") /\ database = "service" /\ Submission(Now.id, Left) /\ KeepService

FixtureCloseOwned ==
  AtStep("close") /\ database = "service" /\ CloseOwned(Now.id) /\ KeepService

-----------------------------------------------------------------------------
(* _run_research.  A report is written once, in place: while a file is torn *)
(* save_report cannot read it and raises, a whole one is left as it is.    *)
OpenReport ==
  AtStep("research") /\
    IF report = "torn" THEN Goto(Aborted) /\ KeepService
    ELSE /\ report' = IF report = "absent" THEN "torn" ELSE report
         /\ Goto(<<Step("write")>> \o Left)
         /\ UNCHANGED <<commands, latest_report>>

WriteReport ==
  AtStep("write") /\ report' = "whole" /\ Goto(Left)
    /\ UNCHANGED <<commands, latest_report>>

Publish ==
  AtStep("publish") /\ latest_report' = TRUE /\ Goto(Left)
    /\ UNCHANGED <<commands, report>>

(* command() raises to its caller, and the mutex is free again.            *)
Fails == AtStep("blocked") /\ owner = "service" /\ Goto(Left) /\ KeepService

-----------------------------------------------------------------------------
(* enqueue_command: INSERT OR IGNORE.                                      *)
Enqueue(c, kind) ==
  /\ database = "service"
  /\ \A k \in DOMAIN commands : commands[k].id # c
  /\ commands' = Append(commands, [id |-> c, kind |-> kind, status |-> "PENDING"])
  /\ UNCHANGED <<vars, scriptVars, report, latest_report>>

(* The rows are read once, before the loop, and with them the status they   *)
(* have by then.                                                           *)
Drain ==
  AtStep("drain")
    /\ Goto([k \in 1..Len(commands) |-> StepOn("execute", commands[k])] \o Left)
    /\ KeepService

(* pending_commands selects those that were pending.                       *)
PassOver ==
  AtStep("execute") /\ Now.id.status # "PENDING" /\ Goto(Left) /\ KeepService

CallsOf(kind) ==
  CASE kind = "PAUSE_ENTRIES" -> <<Call("pause")>>
    [] kind = "RECONCILE" -> <<Call("reconcile_all")>>
    [] kind = "CANCEL_PENDING_ENTRIES" -> <<Call("cancel_all")>>
    [] kind = "FLATTEN_OWNED" -> <<Call("pause"), Call("cancel_all"), Call("flatten_all"),
                                   Call("reconcile_all"), Call("confirm_flat")>>

Execute ==
  AtStep("execute") /\ Now.id.status = "PENDING"
    /\ Operation(CallsOf(Now.id.kind))
    /\ Calling(<<StepOn("confirm", Now.id)>> \o Left)
    /\ KeepService

(* Mutant: whatever was executed is done.                                  *)
NothingFailed(c) == TRUE

(* The outcome of the action was not False; pausing and cancelling have none. *)
OutcomeConfirmed(c) ==
  CASE c.kind = "RECONCILE" -> reconciliation_ok
    [] c.kind = "FLATTEN_OWNED" -> Flat
    [] OTHER -> TRUE

FinalStatus(c) == IF OutcomeConfirmed(c) THEN "DONE" ELSE "BLOCKED"

(* Mutant: the update of finish_command matches no row.                    *)
ConfirmNothing == AtStep("confirm") /\ Goto(Left) /\ KeepService

(* finish_command                                                          *)
Confirm ==
  AtStep("confirm")
    /\ commands' = [k \in DOMAIN commands |->
                      IF commands[k].id = Now.id.id
                      THEN [commands[k] EXCEPT !.status = FinalStatus(Now.id)]
                      ELSE commands[k]]
    /\ Goto(Left)
    /\ UNCHANGED <<report, latest_report>>

ServiceOwnSteps ==
  \/ FixtureSignal \/ FixtureCloseOwned \/ OpenReport \/ WriteReport \/ Publish
  \/ Fails
  \/ Drain \/ PassOver \/ Execute \/ Confirm

ServiceCalls ==
  \/ StartService \/ StopService
  \/ \E action \in Actions : Command(action)
  \/ \E c \in CommandIds, kind \in QueueKinds : Enqueue(c, kind)

-----------------------------------------------------------------------------
(* A queued command is marked DONE only when what it asked for is so: a    *)
(* flatten left nothing open, a reconciliation agrees with the simulator,  *)
(* up to what changed since it began, also when the command was executed   *)
(* before by a process that died (engine.py process_commands).             *)
DoneMeansConfirmed ==
  [][\A k \in DOMAIN commands :
       commands[k].status = "PENDING" /\ commands'[k].status = "DONE" =>
         CASE commands[k].kind = "FLATTEN_OWNED" ->
                Flattened /\ \A p \in PositionIds \ moved : held[p] = 0
           [] commands[k].kind = "RECONCILE" ->
                \A i \in IntentIds \ moved : intents[i].filled_units = orders[i].filled_units
           [] OTHER -> TRUE]_commands

(* Every queued command is finished in the end, DONE or BLOCKED, although   *)
(* the process that executes it may die first (store.py pending_commands,  *)
(* finish_command).                                                        *)
CommandsSettle ==
  \A c \in CommandIds :
    (\E k \in DOMAIN commands : commands[k].id = c)
      ~> (\E k \in DOMAIN commands : commands[k].id = c /\ commands[k].status # "PENDING")

(* The report the dashboard is pointed at is always whole, although a      *)
(* process that dies while it writes leaves a torn file (service.py        *)
(* _run_research, snapshot).                                               *)
PublishedReportIsWhole == latest_report => report = "whole"
=============================================================================
