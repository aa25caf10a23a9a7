------------------------------- MODULE Identity -------------------------------
(***************************************************************************)
(* brokers/identity.py: how an answer of /me is classified.  A document    *)
(* names a demo and a real account (Absent when the field is missing or    *)
(* names no account, Malformed when it is not a number from 0 on, which    *)
(* only the real one tells apart) and the scopes granted; scopes are       *)
(* grouped by what classify_identity tells apart.                          *)
(***************************************************************************)
CONSTANTS
  Accounts,  \* broker account identifiers
  Absent,    \* no identifier
  Malformed  \* an identifier that is none

ASSUME IdentityAssumption == Absent \notin Accounts /\ Malformed \notin Accounts \cup {Absent}

DemoScopes == {"demo:read", "demo:write"}
RealScopes == {"real:read", "real:write"}
Scopes == DemoScopes \cup RealScopes \cup {"wildcard", "other", "malformed"}

Documents == [demoCid : Accounts \cup {Absent}, realCid : Accounts \cup {Absent, Malformed},
              scopes : SUBSET Scopes]

Ambiguous(doc) == doc.demoCid # Absent /\ doc.realCid \in {doc.demoCid, Malformed}

IsDemo(doc) ==
  /\ doc.demoCid # Absent /\ ~Ambiguous(doc)
  /\ doc.scopes # {}
  /\ doc.scopes \cap (RealScopes \cup {"wildcard", "malformed"}) = {}
  /\ doc.scopes \cap DemoScopes # {}

IsReal(doc) ==
  /\ ~IsDemo(doc) /\ ~Ambiguous(doc)
  /\ doc.realCid \in Accounts
  /\ doc.scopes \cap RealScopes # {}

ClassifyIdentity(doc) ==
  IF IsDemo(doc) THEN "DEMO" ELSE IF IsReal(doc) THEN "REAL" ELSE "UNKNOWN"

(* require_demo lets a document through only if it is classified DEMO.     *)
RequireDemo(doc) == ClassifyIdentity(doc) = "DEMO"
MayWrite(scopes) == "demo:write" \in scopes

(* portfolio_cash: a portfolio that names another account is unverified.   *)
PortfolioVerified(cid, account) == cid \in {Absent, account}
=============================================================================
