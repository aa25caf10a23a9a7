--------------------------- MODULE OrderLifecycle ---------------------------
(***************************************************************************)
(* The order lifecycle of execution/models.py: the local order states, the *)
(* states that count as exposure still pending (ACTIVE_STATES), and the    *)
(* table TRANSITIONS, which the documentation calls the authority on state *)
(* changes.  Constant level: every other module extends this one.          *)
(***************************************************************************)

ACTIVE_STATES ==
  {"CREATED", "APPROVED", "SUBMITTING", "ACKNOWLEDGED", "PARTIALLY_FILLED",
   "CANCEL_PENDING", "UNKNOWN"}

TERMINAL_STATES == {"FILLED", "CANCELLED", "REJECTED", "EXPIRED"}

OrderState == ACTIVE_STATES \cup TERMINAL_STATES

(* The states a row of the table may move to, other than itself.           *)
TRANSITIONS ==
  [old \in OrderState |->
    CASE old = "CREATED"  -> {"APPROVED", "REJECTED", "EXPIRED"}
      [] old = "APPROVED" -> {"SUBMITTING", "EXPIRED", "CANCELLED", "REJECTED"}
      [] old = "SUBMITTING" ->
           {"ACKNOWLEDGED", "PARTIALLY_FILLED", "FILLED", "REJECTED", "UNKNOWN",
            "CANCEL_PENDING"}
      [] old = "ACKNOWLEDGED" ->
           {"PARTIALLY_FILLED", "FILLED", "CANCEL_PENDING", "CANCELLED",
            "REJECTED", "EXPIRED", "UNKNOWN"}
      [] old = "PARTIALLY_FILLED" ->
           {"FILLED", "CANCEL_PENDING", "CANCELLED", "EXPIRED", "UNKNOWN"}
      [] old = "CANCEL_PENDING" ->
           {"CANCELLED", "PARTIALLY_FILLED", "FILLED", "UNKNOWN", "ACKNOWLEDGED"}
      [] old = "UNKNOWN" ->
           {"ACKNOWLEDGED", "PARTIALLY_FILLED", "FILLED", "CANCEL_PENDING",
            "CANCELLED", "REJECTED", "EXPIRED"}
         \* A late cumulative fill can cross an authoritative cancellation.
      [] old \in {"CANCELLED", "EXPIRED"} -> {"PARTIALLY_FILLED", "FILLED"}
      [] old \in {"REJECTED", "FILLED"} -> {}]

(* validate_transition: repeating the present state is always allowed. *)
ValidTransition(old, new) == new = old \/ new \in TRANSITIONS[old]
=============================================================================
