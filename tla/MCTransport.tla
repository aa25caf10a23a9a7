----------------------------- MODULE MCTransport -----------------------------
(* Values for TLC: a window of two ticks with a shared quota of ten, so    *)
(* that an entry (eight requests) and a close (seven) do not both fit.     *)
EXTENDS GuardedTransport

QuotaValues == [p \in Pools |-> IF p = All THEN 10 ELSE IF p \in {"execution", "costs", "eligibility"} THEN 2 ELSE 4]
PoolNames == {"all", "default", "portfolio", "market", "lookup", "costs", "eligibility", "execution"}
CallKinds == {"entry", "close", "protect", "preflight"}
Answers ==
  {[demoCid |-> demo, realCid |-> Absent, scopes |-> DemoScopes] : demo \in Accounts}
    \cup {[demoCid |-> Owner, realCid |-> Absent, scopes |-> {"demo:read"}],
          [demoCid |-> Owner, realCid |-> Malformed, scopes |-> DemoScopes],
          [demoCid |-> Owner, realCid |-> Absent, scopes |-> {"demo:write", "real:read"}]}
TwoDelays == {1, 3}
=============================================================================
