---------------------------- MODULE Authorization ----------------------------
(***************************************************************************)
(* The in-memory authorization of brokers/authorization.py: one value that *)
(* arming, pausing and invalidating replace, and the check every mutation  *)
(* passes.  A lease that is not given is NoLease, which no clock precedes; *)
(* the random nonce is a generation number.                                *)
(***************************************************************************)
EXTENDS Naturals, Identity

CONSTANTS
  Unarmed,            \* the evidence of an authorization never armed
  EntrySeconds,       \* activate's entry_seconds, in ticks
  ManagementSeconds,  \* activate's management_seconds, in ticks
  Freshness           \* how old preflight evidence may be, in ticks

ASSUME AuthorizationAssumption ==
  /\ Unarmed \notin Accounts
  /\ EntrySeconds \in Nat \ {0} /\ ManagementSeconds \in Nat
  /\ EntrySeconds <= ManagementSeconds
  /\ Freshness \in Nat

NoLease == 0

(* What a request is bound to; each part may be replaced by another one.   *)
Bindings == [session : {"ours", "other"}, config : {"ours", "other"},
             credential : {"ours", "other"}]
OurBinding == [session |-> "ours", config |-> "ours", credential |-> "ours"]

Purposes == {"entry", "management"}
Permits == [nonce : Nat, purpose : Purposes]

DemoAuthorization ==
  [nonce : Nat, account : Accounts \cup {Unarmed}, credential : {"ours", "other"},
   entry : Nat, management : Nat]
NewAuthorization ==
  [nonce |-> 0, account |-> Unarmed, credential |-> "ours",
   entry |-> NoLease, management |-> NoLease]

PauseEntries(a) == [a EXCEPT !.entry = NoLease]

Invalidate(a) ==
  [PauseEntries(a) EXCEPT !.management = NoLease, !.account = Unarmed, !.nonce = @ + 1]

Permit(a, purpose) == [nonce |-> a.nonce, purpose |-> purpose]

(* activate first pauses; only fresh evidence of an account that may write *)
(* arms it again, under a new nonce.                                       *)
Fresh(evidence, now) == now - evidence.at <= Freshness /\ MayWrite(evidence.scopes)

Activate(a, evidence, now) ==
  IF Fresh(evidence, now)
  THEN [nonce |-> a.nonce + 1, account |-> evidence.account,
        credential |-> evidence.credential,
        entry |-> now + EntrySeconds, management |-> now + ManagementSeconds]
  ELSE PauseEntries(a)

Lease(a, purpose) == IF purpose = "entry" THEN a.entry ELSE a.management

(* check: the checks it makes in order, and what a failed one leaves.      *)
BindingHolds(a, permit, b) ==
  b.session = "ours" /\ (b.config = "ours" \/ permit.purpose = "management")
Armed(a, permit) == a.account # Unarmed /\ permit.nonce = a.nonce
SameCredential(a, b) == b.credential = a.credential
Running(a, permit, now) == now < Lease(a, permit.purpose)

Passes(a, permit, b, now) ==
  BindingHolds(a, permit, b) /\ Armed(a, permit) /\ SameCredential(a, b)
    /\ Running(a, permit, now)

AfterCheck(a, permit, b) ==
  LET paused == IF OurBinding.session = b.session /\ OurBinding.config = b.config
                THEN a ELSE PauseEntries(a)
  IN IF BindingHolds(a, permit, b) /\ Armed(a, permit) /\ ~SameCredential(a, b)
     THEN Invalidate(paused) ELSE paused
=============================================================================
