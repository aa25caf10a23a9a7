--------------------------- MODULE GuardedTransport ---------------------------
(***************************************************************************)
(* GuardedTransport of brokers/transport.py under the calls EtoroDemoAdapter *)
(* makes on it.  One thread runs one adapter call at a time: `todo` holds  *)
(* the checks and requests the call has left, compiled from the adapter's  *)
(* methods, and the code between two waits is one or more steps during     *)
(* which the clock stands still.  While a request is on the network, while *)
(* a retry sleeps and between calls, time passes, credentials and          *)
(* configuration may be replaced, and a lost mutation may still land.      *)
(***************************************************************************)
EXTENDS Authorization, QuotaBudget, FiniteSets

CONSTANTS
  Owner,        \* the account whose keys these are
  Identities,   \* the documents /me may answer
  Attempts,     \* how often request() tries a read
  Delays,       \* the Retry-After delays the provider may answer
  ShortDelay,   \* the longest one a read sleeps through
  SignalAge,    \* how old an entry intent may be
  Operations,   \* the adapter calls of this instance
  Horizon,      \* bound: last tick of the clock
  MaxCalls,     \* bound: adapter calls
  MaxFaults     \* bound: failures, replacements and pauses

ASSUME TransportAssumption ==
  /\ Owner \in Accounts /\ Identities \subseteq Documents
  /\ Attempts \in Nat \ {0} /\ Delays \subseteq Nat
  /\ Operations \subseteq
       {"entry", "close", "cancel", "protect", "query", "queryClose", "preflight"}
  /\ {ShortDelay, SignalAge, Horizon, MaxCalls, MaxFaults} \subseteq Nat
  /\ {"default", "portfolio", "market", "lookup", "costs", "eligibility", "execution"}
       \subseteq Pools

VARIABLES
  now,          \* the clock
  authorization,
  binding,      \* the session, configuration and credentials in use
  quota,
  preflightOnly,
  mutation_attempts,
  evidence,     \* the last observed evidence, for activate
  calls,        \* the adapter calls so far: operation and answer
  todo,         \* the steps the open call has left
  pc,           \* "run", "wait" for an answer, or "sleep" before a retry
  attempt,      \* attempts of the request at the head of todo
  wake,         \* when the retry's sleep ends
  local,        \* the open call's locals: permit, binding, identity, time
  landed,       \* how often each call changed something at the broker
  inflight,     \* mutations the network lost sight of
  traffic,      \* every request sent: time, pool, not-before mark it met
  faults

leaseVars == <<authorization, binding, evidence, preflightOnly>>
netVars == <<quota, mutation_attempts, traffic>>
callVars == <<calls, todo, pc, attempt, wake, local>>
brokerVars == <<landed, inflight>>
vars == <<now, leaseVars, netVars, callVars, brokerVars, faults>>

-----------------------------------------------------------------------------
(* ROUTES: the quota pool of each route, and the mutations among them.     *)
Pool ==
  [me |-> "default", portfolio |-> "portfolio", instruments |-> "market",
   rates |-> "market", lookup |-> "lookup", closeLookup |-> "lookup",
   costs |-> "costs", eligibility |-> "eligibility", orders |-> "execution",
   cancel |-> "execution", close |-> "execution", protect |-> "default"]
Mutations == {"orders", "cancel", "close", "protect"}
PreflightRoutes == {"me", "portfolio", "instruments"}

PurposeOf(op) == IF op = "entry" THEN "entry" ELSE "management"

(* The steps of a call.  A guarded step is inside the try block of         *)
(* verify_mutation_identity, which invalidates the authorization when the  *)
(* step raises; a priority request may take the reserved slots.            *)
Step(do) == <<[do |-> do, route |-> "me", guarded |-> FALSE, priority |-> FALSE]>>
Request(route, priority) ==
  <<[do |-> "request", route |-> route, guarded |-> FALSE, priority |-> priority]>>
Guarded(steps) == [i \in 1..Len(steps) |-> [steps[i] EXCEPT !.guarded = TRUE]]

IdentityReads == Request("me", TRUE) \o Request("portfolio", TRUE)
ObserveDemo == Step("fingerprint") \o IdentityReads \o Step("observed")

(* verify_mutation_identity: "authorize" and "admit" make the checks that  *)
(* precede the identity reads, "verified" the ones that follow them.       *)
Verified == Guarded(IdentityReads \o Step("verified"))
Authorize == Step("authorize") \o Verified
Mutate(route) ==
  <<[Step("admit")[1] EXCEPT !.route = route]>> \o Verified \o Request(route, route # "orders")

(* EtoroDemoAdapter's methods: submit and prepare, close, cancel, protect,  *)
(* query of an entry and of a close, and the preflight.                    *)
Owned == Request("lookup", TRUE)
EntrySteps ==
  Step("age") \o Authorize \o Request("eligibility", FALSE) \o Request("costs", FALSE)
    \o Request("rates", FALSE) \o Step("age") \o Mutate("orders")
CloseSteps == Owned \o Authorize \o Request("lookup", TRUE) \o Mutate("close")
CancelSteps == Authorize \o Request("lookup", TRUE) \o Mutate("cancel")
ProtectSteps ==
  Owned \o Authorize \o Mutate("protect") \o Request("lookup", TRUE) \o Request("lookup", TRUE)
QuerySteps == Request("lookup", TRUE)
QueryCloseSteps == Request("closeLookup", TRUE) \o Request("lookup", TRUE)
PreflightSteps == Step("restrict") \o ObserveDemo \o Request("instruments", FALSE)

Program(op) ==
  CASE op = "entry" -> EntrySteps
    [] op = "close" -> CloseSteps
    [] op = "cancel" -> CancelSteps
    [] op = "protect" -> ProtectSteps
    [] op = "query" -> QuerySteps
    [] op = "queryClose" -> QueryCloseSteps
    [] op = "preflight" -> PreflightSteps

Mutating == {"entry", "close", "cancel", "protect"}
Classified == {"entry", "close"}   \* the methods _classify_pre_send wraps

-----------------------------------------------------------------------------
Idle == IF calls = <<>> THEN TRUE ELSE calls[Len(calls)].answer # "open"
Call == calls[Len(calls)]
Task == todo[1]
RunsTask(do) == ~Idle /\ pc = "run" /\ todo # <<>> /\ Task.do = do
Waiting == Idle \/ pc # "run"

NoLocal == [permit |-> [nonce |-> 0, purpose |-> "management"], bound |-> OurBinding,
            account |-> Unarmed, scopes |-> {}, credential |-> "ours",
            opened |-> 0, attempted |-> 0]

Init ==
  /\ now = 0 /\ faults = 0
  /\ authorization = NewAuthorization /\ binding = OurBinding
  /\ evidence = [account |-> Owner, scopes |-> DemoScopes, credential |-> "ours", at |-> 0]
  /\ preflightOnly = FALSE
  /\ quota = NewBudget /\ mutation_attempts = 0 /\ traffic = <<>>
  /\ calls = <<>> /\ todo = <<>> /\ pc = "run" /\ attempt = 1 /\ wake = 0
  /\ local = NoLocal
  /\ landed = [c \in 1..MaxCalls |-> 0] /\ inflight = {}

Proceed == todo' = Tail(todo) /\ pc' = "run" /\ attempt' = 1 /\ UNCHANGED <<calls, wake>>

(* _classify_pre_send compares the attempt counter with the one it saw.    *)
FailureAnswer ==
  IF Call.op \in Classified /\ mutation_attempts = local.attempted THEN "rejected" ELSE "unknown"

Answered(a) ==
  /\ calls' = [calls EXCEPT ![Len(calls)].answer = a]
  /\ todo' = <<>> /\ pc' = "run" /\ attempt' = 1 /\ wake' = 0 /\ local' = NoLocal

(* A BrokerBlocked leaves the call, through verify_mutation_identity's     *)
(* handler if it was raised inside it; `a` is the authorization so far.    *)
Fails(a) ==
  /\ authorization' = IF Task.guarded THEN Invalidate(a) ELSE a
  /\ Answered(FailureAnswer)

Blocked == Fails(authorization)

-----------------------------------------------------------------------------
(* An adapter call begins; between calls the operator arms from the last   *)
(* evidence, which at first is that of a transport restricted to preflight. *)
Start(op) ==
  /\ Idle /\ Len(calls) < MaxCalls
  /\ calls' = Append(calls, [op |-> op, answer |-> "open"])
  /\ todo' = Program(op)
  /\ local' = [NoLocal EXCEPT !.opened = now, !.attempted = mutation_attempts]
  /\ UNCHANGED <<now, leaseVars, netVars, pc, attempt, wake, brokerVars, faults>>

Arm ==
  /\ Idle
  /\ authorization.entry # now + EntrySeconds
  /\ authorization' = Activate(authorization, evidence, now)
  /\ UNCHANGED <<now, binding, evidence, preflightOnly, netVars, callVars, brokerVars, faults>>

(* The steps that send nothing.  The clock stands still in them, so the    *)
(* checks the code makes twice in a row are made once.                     *)
Signal ==
  /\ RunsTask("age")
  /\ IF now - local.opened <= SignalAge
     THEN Proceed /\ UNCHANGED <<local, authorization>> ELSE Blocked
  /\ UNCHANGED <<binding, evidence, preflightOnly>>

(* _authorization and request(): the check, then the identity's binding.   *)
Check ==
  LET permit == IF Task.do = "authorize" THEN Permit(authorization, PurposeOf(Call.op))
                ELSE local.permit
      a == AfterCheck(authorization, permit, binding)
  IN IF Passes(authorization, permit, binding, now)
     THEN /\ authorization' = a
          /\ local' = [local EXCEPT !.permit = permit, !.bound = binding,
                                    !.credential = binding.credential]
          /\ Proceed
     ELSE Fails(a)

RouteAdmitted(route) == ~preflightOnly \/ route \in PreflightRoutes

BeginVerification ==
  /\ RunsTask("authorize") \/ RunsTask("admit")
  /\ IF Task.do = "admit" /\ ~RouteAdmitted(Task.route) THEN Blocked ELSE Check
  /\ UNCHANGED <<binding, evidence, preflightOnly>>

(* After the reads: the same credentials, binding and account, which may   *)
(* write, and a permit that outlived the reads.                            *)
CredentialsUnchanged == local.credential = binding.credential
IdentityMatches ==
  /\ CredentialsUnchanged
  /\ local.bound = binding
  /\ local.account = authorization.account
  /\ MayWrite(local.scopes)
(* A mutant: the lease is checked before the identity reads only.          *)
PermitHeld == local.permit.nonce = authorization.nonce

PermitHolds == Passes(authorization, local.permit, binding, now)

EndVerification ==
  /\ RunsTask("verified")
  /\ IF IdentityMatches /\ PermitHolds
     THEN /\ authorization' = AfterCheck(authorization, local.permit, binding)
          /\ Proceed /\ UNCHANGED local
     ELSE Blocked
  /\ UNCHANGED <<binding, evidence, preflightOnly>>

(* perform_preflight: restrict_to_preflight and observe_demo.              *)
RestrictToPreflight ==
  /\ RunsTask("restrict")
  /\ preflightOnly' = TRUE
  /\ Proceed /\ UNCHANGED <<authorization, binding, evidence, local>>

ReadFingerprint ==
  /\ RunsTask("fingerprint")
  /\ local' = [local EXCEPT !.credential = binding.credential]
  /\ Proceed /\ UNCHANGED leaseVars

Observed ==
  /\ RunsTask("observed")
  /\ IF CredentialsUnchanged
     THEN /\ evidence' = [account |-> local.account, scopes |-> local.scopes,
                          credential |-> local.credential, at |-> now]
          /\ Proceed /\ UNCHANGED <<authorization, local>>
     ELSE Blocked /\ UNCHANGED evidence
  /\ UNCHANGED <<binding, preflightOnly>>

LocalStep ==
  /\ \/ Signal \/ BeginVerification \/ EndVerification
     \/ RestrictToPreflight \/ ReadFingerprint \/ Observed
  /\ UNCHANGED <<now, netVars, brokerVars, faults>>

(* The call ends when nothing is left of it.                               *)
Return ==
  /\ ~Idle /\ todo = <<>>
  /\ Answered("accepted")
  /\ UNCHANGED <<now, leaseVars, netVars, brokerVars, faults>>

-----------------------------------------------------------------------------
(* One attempt of a request: a slot of the quota is taken, then it is sent. *)
IsMutation(route) == route \in Mutations
Priority == Task.priority

(* A mutant: the attempt is counted when its answer has come.              *)
CountNothingYet(route) == mutation_attempts

CountAttempt(route) == IF IsMutation(route) THEN mutation_attempts + 1 ELSE mutation_attempts

Send ==
  /\ RunsTask("request") /\ RouteAdmitted(Task.route)
  /\ MayTake(quota, Pool[Task.route], Priority, now)
  /\ quota' = Take(quota, Pool[Task.route], now)
  /\ mutation_attempts' = CountAttempt(Task.route)
  /\ traffic' = Append(traffic, [at |-> now, route |-> Task.route, notBefore |-> 0])
  /\ pc' = "wait"
  /\ UNCHANGED <<now, leaseVars, calls, todo, attempt, wake, local, brokerVars, faults>>

NotSent ==
  /\ RunsTask("request")
  /\ ~(RouteAdmitted(Task.route) /\ MayTake(quota, Pool[Task.route], Priority, now))
  /\ quota' = IF RouteAdmitted(Task.route)
              THEN Refused(quota, Pool[Task.route], Priority, now) ELSE quota
  /\ Blocked
  /\ UNCHANGED <<now, binding, evidence, preflightOnly, mutation_attempts, traffic,
                 brokerVars, faults>>

(* What comes back.  `Fault` is any answer but the expected one.           *)
AnswerDue == ~Idle /\ pc = "wait"
Fault == faults < MaxFaults /\ faults' = faults + 1

(* A fault that outlives the sleep is still one fault.                     *)
Outage == IF attempt = 1 THEN Fault ELSE UNCHANGED faults

Sleeps(delay) ==
  /\ pc' = "sleep" /\ wake' = now + delay
  /\ UNCHANGED <<calls, todo, attempt, local, authorization>>

Expected == [demoCid |-> Owner, realCid |-> Absent, scopes |-> DemoScopes]

IdentityAnswered ==
  \E document \in Identities :
    /\ IF document = Expected THEN UNCHANGED faults ELSE Fault
    /\ IF RequireDemo(document)
       THEN /\ local' = [local EXCEPT !.account = document.demoCid, !.scopes = document.scopes]
            /\ Proceed /\ UNCHANGED authorization
       ELSE Blocked

PortfolioAnswered ==
  \E cid \in {Owner, Absent} :
    /\ UNCHANGED faults
    /\ IF PortfolioVerified(cid, local.account)
       THEN Proceed /\ UNCHANGED <<local, authorization>> ELSE Blocked

ReadAnswered ==
  /\ AnswerDue /\ ~IsMutation(Task.route)
  /\ CASE Task.route = "me" -> IdentityAnswered
       [] Task.route = "portfolio" -> PortfolioAnswered
       [] OTHER -> Proceed /\ UNCHANGED <<local, authorization, faults>>
  /\ UNCHANGED <<now, binding, evidence, preflightOnly, netVars, brokerVars>>

(* A status below 500, a redirect, or a body that does not validate.       *)
ReadRefused ==
  /\ AnswerDue /\ ~IsMutation(Task.route) /\ Fault
  /\ Blocked
  /\ UNCHANGED <<now, binding, evidence, preflightOnly, netVars, brokerVars>>

(* No answer, or a server error: the back-off is shorter than a tick.      *)
ReadUnavailable ==
  /\ AnswerDue /\ ~IsMutation(Task.route) /\ Outage
  /\ IF attempt < Attempts THEN Sleeps(0) ELSE Blocked
  /\ UNCHANGED <<now, binding, evidence, preflightOnly, netVars, brokerVars>>

(* A mutant: one attempt too many.                                         *)
RetriesAgain(delay) == delay <= ShortDelay /\ attempt <= Attempts /\ ~IsMutation(Task.route)

Retries(delay) == delay <= ShortDelay /\ attempt < Attempts /\ ~IsMutation(Task.route)

RateLimited ==
  /\ AnswerDue /\ Outage
  /\ \E delay \in Delays :
       /\ quota' = Limited(quota, now, delay)
       /\ traffic' = [traffic EXCEPT ![Len(traffic)].notBefore = now + delay]
       /\ IF Retries(delay) THEN Sleeps(delay) ELSE Blocked
  /\ UNCHANGED <<now, binding, evidence, preflightOnly, mutation_attempts, brokerVars>>

MutationAccepted ==
  /\ AnswerDue /\ IsMutation(Task.route)
  /\ landed' = [landed EXCEPT ![Len(calls)] = @ + 1]
  /\ Proceed
  /\ UNCHANGED <<now, leaseVars, netVars, local, inflight, faults>>

MutationRefused ==
  /\ AnswerDue /\ IsMutation(Task.route) /\ Fault
  /\ Blocked
  /\ UNCHANGED <<now, binding, evidence, preflightOnly, netVars, brokerVars>>

(* No answer, a server error, or an answer that does not validate.         *)
MutationLost ==
  /\ AnswerDue /\ IsMutation(Task.route) /\ Fault
  /\ inflight' = inflight \cup {Len(calls)}
  /\ Blocked
  /\ UNCHANGED <<now, binding, evidence, preflightOnly, netVars, landed>>

Wake ==
  /\ ~Idle /\ pc = "sleep" /\ now >= wake
  /\ pc' = "run" /\ attempt' = attempt + 1 /\ wake' = 0
  /\ UNCHANGED <<now, leaseVars, netVars, calls, todo, local, brokerVars, faults>>

-----------------------------------------------------------------------------
(* What happens while the thread waits.                                    *)
Tick ==
  /\ Waiting /\ now < Horizon
  /\ now' = now + 1
  /\ UNCHANGED <<leaseVars, netVars, callVars, brokerVars, faults>>

Replace ==
  /\ Waiting /\ Fault
  /\ \E part \in DOMAIN binding :
       /\ binding[part] = "ours"
       /\ binding' = [binding EXCEPT ![part] = "other"]
  /\ UNCHANGED <<now, authorization, evidence, preflightOnly, netVars, callVars, brokerVars>>

OperatorPauses ==
  /\ Waiting /\ authorization.entry # NoLease /\ Fault
  /\ authorization' = PauseEntries(authorization)
  /\ UNCHANGED <<now, binding, evidence, preflightOnly, netVars, callVars, brokerVars>>

LateLanding ==
  /\ \E c \in inflight :
       /\ landed' = [landed EXCEPT ![c] = @ + 1]
       /\ inflight' = inflight \ {c}
  /\ UNCHANGED <<now, leaseVars, netVars, callVars, faults>>

Next ==
  \/ \E op \in Operations : Start(op)
  \/ Arm \/ LocalStep \/ Return
  \/ Send \/ NotSent \/ Wake
  \/ ReadAnswered \/ ReadRefused \/ ReadUnavailable \/ RateLimited
  \/ MutationAccepted \/ MutationRefused \/ MutationLost
  \/ Tick \/ Replace \/ OperatorPauses \/ LateLanding

Spec == Init /\ [][Next]_vars

-----------------------------------------------------------------------------
(* TransportTypeOK: every part of the transport keeps its type, and a call *)
(* that is open always has a step to take, an answer or a sleep to await.  *)
TransportTypeOK ==
  /\ now \in 0..Horizon /\ faults \in 0..MaxFaults
  /\ authorization \in DemoAuthorization /\ binding \in Bindings
  /\ quota.uses \in [Pools -> Seq(0..Horizon)] /\ quota.blocked_until \in Nat
  /\ mutation_attempts \in 0..Len(traffic)
  /\ Len(calls) <= MaxCalls /\ attempt \in 1..Attempts
  /\ pc \in {"run", "wait", "sleep"}
  /\ pc # "run" => ~Idle /\ todo # <<>> /\ Task.do = "request"
  /\ Idle => todo = <<>>

(* QuotaPerWindow: however calls, retries and refusals interleave with     *)
(* time, no rolling window ever holds more requests of a pool than its     *)
(* quota, and no more of all pools than the shared one (QuotaBudget.take): *)
(* said of the windows that end with the newest request, in every state.   *)
SentSince(t, p) ==
  {j \in DOMAIN traffic : traffic[j].at + Window > t /\ p \in {All, Pool[traffic[j].route]}}
Newest == traffic[Len(traffic)]
QuotaPerWindow ==
  traffic # <<>> => \A p \in {All, Pool[Newest.route]} :
                      Cardinality(SentSince(Newest.at, p)) <= Quota[p]

(* RefusedOnlyWhenFull: a request is refused for quota only while real     *)
(* requests fill the window of one of its two pools (less the reserve if   *)
(* it has no priority) or the provider's mark has not passed: refused      *)
(* takes, retries and preflight restrictions never use up capacity.        *)
Capacity(p) == IF Priority THEN Quota[p] ELSE Quota[p] - Reserve
ProviderBlocks == \E j \in DOMAIN traffic : traffic[j].notBefore > now
RefusedForQuota == NotSent /\ RouteAdmitted(Task.route)
RefusedOnlyWhenFull ==
  [][RefusedForQuota =>
       \/ ProviderBlocks
       \/ \E p \in {All, Pool[Task.route]} : Cardinality(SentSince(now, p)) >= Capacity(p)]_vars

(* RetryAfterHonoured: after a 429 nothing at all is sent, by any route,   *)
(* retry or later call, before the time the provider asked for.            *)
RetryAfterHonoured ==
  traffic # <<>> => \A i \in 1..Len(traffic) - 1 : Newest.at >= traffic[i].notBefore

(* MutationsAreAuthorized: when a mutation leaves, its permit is the       *)
(* current one and its lease still runs, the account was read again for    *)
(* this request with the credentials now in use and is the armed one, and  *)
(* it may write: nothing that happened during the identity reads           *)
(* (verify_mutation_identity) goes unnoticed.                              *)
SendsMutation == mutation_attempts' = mutation_attempts + 1
Authorized ==
  /\ local.permit.nonce = authorization.nonce
  /\ now < Lease(authorization, local.permit.purpose)
  /\ local.account = authorization.account /\ local.scopes \subseteq DemoScopes \cup {"other"}
  /\ MayWrite(local.scopes)
  /\ binding.session = "ours"
  /\ binding.credential = authorization.credential
  /\ local.credential = binding.credential
  /\ local.permit.purpose = "entry" => binding.config = "ours"
MutationsAreAuthorized == [][SendsMutation => Authorized]_vars

(* ContractSpec: the adapter over this transport implements what the       *)
(* executor relies on (MutationContract): at most one change per call, and *)
(* none, ever, for a call it reported as rejected before sending.          *)
Contract == INSTANCE MutationContract WITH
  Calls <- 1..MaxCalls,
  answer <- [c \in 1..MaxCalls |-> IF c <= Len(calls) /\ calls[c].op \in Mutating
                                   THEN calls[c].answer ELSE "idle"]
ContractSpec == Contract!ContractSpec

(* ManagementOutlivesEntryLease: an entry whose own lease expired or was   *)
(* paused while its identity was read again, with nothing else changed,    *)
(* leaves the management lease alone (docs/adr/006-arming.md: "Entrada     *)
(* expira"; "gestion tiene permiso separado").                             *)
EntryIsOpen == ~Idle /\ Call.op = "entry"
ManagementOutlivesEntryLease ==
  [][EntryIsOpen /\ EndVerification /\ binding = OurBinding /\ IdentityMatches
       => authorization'.management = authorization.management]_vars
=============================================================================
