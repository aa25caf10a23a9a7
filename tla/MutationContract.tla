--------------------------- MODULE MutationContract ---------------------------
(***************************************************************************)
(* What a broker adapter promises the executor about a call that changes   *)
(* something at the broker, and all the executor relies on: the change     *)
(* lands at most once; an accepted call landed; a call rejected before     *)
(* sending never lands, not even later; anything may be true of a call     *)
(* that ended unknown, whose request can still be on its way.              *)
(***************************************************************************)
EXTENDS Naturals

CONSTANT Calls  \* the adapter calls of a run

VARIABLES
  answer,  \* what the executor was told about each call
  landed   \* how often its change was made at the broker

contractVars == <<answer, landed>>

ContractInit ==
  /\ answer = [c \in Calls |-> "idle"]
  /\ landed = [c \in Calls |-> 0]

Begin(c) ==
  /\ answer[c] = "idle"
  /\ answer' = [answer EXCEPT ![c] = "open"]
  /\ UNCHANGED landed

Lands(c) ==
  /\ answer[c] \in {"open", "unknown"}
  /\ landed[c] = 0
  /\ landed' = [landed EXCEPT ![c] = 1]
  /\ UNCHANGED answer

Answers(c) ==
  /\ answer[c] = "open"
  /\ \E a \in {"accepted", "rejected", "unknown"} :
       /\ a = "accepted" => landed[c] = 1
       /\ a = "rejected" => landed[c] = 0
       /\ answer' = [answer EXCEPT ![c] = a]
  /\ UNCHANGED landed

ContractNext == \E c \in Calls : Begin(c) \/ Lands(c) \/ Answers(c)

ContractSpec == ContractInit /\ [][ContractNext]_contractVars
=============================================================================
