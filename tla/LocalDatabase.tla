---------------------------- MODULE LocalDatabase ----------------------------
(***************************************************************************)
(* The local database with the one owner it is made for, the A6 session or *)
(* the operation service, the processes that die and the scenario control  *)
(* of the simulator (set_order).                                           *)
(***************************************************************************)
EXTENDS DemoSession, OperationService

allVars == <<vars, scriptVars, sessionVars, serviceVars>>

DatabaseInit == OwnerInit /\ SessionInit /\ ServiceInit

-----------------------------------------------------------------------------
(* What a running process does until its script is done.                   *)
ProcessSteps ==
  \/ OwnerSteps /\ KeepSession /\ KeepService
  \/ SessionOwnSteps /\ KeepService
  \/ ServiceOwnSteps /\ KeepSession

(* What its users and the rest of the world do.                            *)
World ==
  \/ \E scenario \in Scenarios : Run(scenario) /\ KeepService
  \/ ServiceCalls /\ KeepSession
  \/ (OwnerDies \/ (BrokerMoves /\ UNCHANGED scriptVars))
       /\ KeepSession /\ KeepService

DatabaseNext == ProcessSteps \/ World

DatabaseSafety == DatabaseInit /\ [][DatabaseNext]_allVars

(* A process runs on.  Its user runs the bound session again until it has   *)
(* a result, starts the service again when it died, and drains the queue   *)
(* again and again; nothing else is ever obliged to happen.                *)
RunAgain  == a6_result = Nil /\ Run(a6_binding) /\ KeepService
Restart   == StartService /\ KeepSession
DrainAgain == Command("drain") /\ KeepSession

DatabaseSpec ==
  /\ DatabaseSafety
  /\ WF_allVars(ProcessSteps)
  /\ WF_allVars(a6_binding # Nil /\ RunAgain)
  /\ WF_allVars(Restart) /\ SF_allVars(DrainAgain)
=============================================================================
