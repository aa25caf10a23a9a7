------------------------ MODULE GuardedTransport_proofs ------------------------
(***************************************************************************)
(* Safety of the transport for every account, identity document, delay,    *)
(* lease, number of calls, attempts and faults, and every time bound, and  *)
(* its quota for every pool, limit, window and reserve: no window holds    *)
(* more than its quota, nothing is refused before the window is full.      *)
(***************************************************************************)
EXTENDS GuardedTransport, FiniteSetTheorems, TLAPS

-----------------------------------------------------------------------------
(* The compiled calls.  A task is one step of a call.                      *)
Routes == {"me", "portfolio", "instruments", "rates", "lookup", "closeLookup", "costs",
           "eligibility", "orders", "cancel", "close", "protect"}
Tasks ==
  [do : {"age", "authorize", "admit", "verified", "restrict", "fingerprint", "observed",
         "request"},
   route : Routes, guarded : BOOLEAN, priority : BOOLEAN]

Mutates(task) == task.do = "request" /\ task.route \in Mutations

(* Every mutation comes right after the check that ends the identity reads.*)
Covered(steps) ==
  /\ steps \in Seq(Tasks)
  /\ \A i \in 1..Len(steps) : Mutates(steps[i]) => i > 1 /\ steps[i - 1].do = "verified"

Checked(steps) == Covered(steps) /\ steps # <<>> /\ steps[Len(steps)].do = "verified"

(* Where the tasks of a concatenation come from.                           *)
LEMMA Concatenated ==
  ASSUME NEW s, NEW t, NEW u, u = s \o t, Covered(s), t \in Seq(Tasks)
  PROVE  /\ u \in Seq(Tasks) /\ Len(s) \in Nat /\ Len(t) \in Nat /\ Len(u) = Len(s) + Len(t)
         /\ \A i \in 1..Len(s) : u[i] = s[i]
         /\ \A j \in 1..Len(t) : u[Len(s) + j] = t[j]
  BY DEF Covered

(* Covered programs joined are covered: no mutation starts the second.     *)
LEMMA CoveredConcat ==
  ASSUME NEW s, NEW t, Covered(s), Covered(t)
  PROVE  Covered(s \o t)
<1>1. PICK u : u = s \o t
  OBVIOUS
<1>2. /\ u \in Seq(Tasks) /\ Len(s) \in Nat /\ Len(t) \in Nat /\ Len(u) = Len(s) + Len(t)
      /\ \A i \in 1..Len(s) : u[i] = s[i]
      /\ \A j \in 1..Len(t) : u[Len(s) + j] = t[j]
  BY <1>1, Concatenated DEF Covered
<1>3. ASSUME NEW i \in 1..Len(u), Mutates(u[i])
      PROVE  i > 1 /\ u[i - 1].do = "verified"
  <2>1. CASE i \in 1..Len(s)
    <3>1. i > 1 /\ s[i - 1].do = "verified"
      BY <1>2, <1>3, <2>1 DEF Covered
    <3>2. i - 1 \in 1..Len(s)
      BY <1>2, <2>1, <3>1
    <3>3. QED
      BY <1>2, <3>1, <3>2
  <2>2. CASE i \notin 1..Len(s)
    <3>1. PICK j \in 1..Len(t) : i = Len(s) + j
      <4>1. i - Len(s) \in 1..Len(t) /\ i = Len(s) + (i - Len(s))
        BY <1>2, <1>3, <2>2
      <4>2. QED
        BY <4>1
    <3>2. j > 1 /\ t[j - 1].do = "verified"
      BY <1>2, <1>3, <3>1 DEF Covered
    <3>3. u[Len(s) + (j - 1)] = t[j - 1]
      BY <1>2, <3>1, <3>2
    <3>4. i - 1 = Len(s) + (j - 1) /\ i > 1
      BY <1>2, <3>1, <3>2
    <3>5. QED
      BY <3>2, <3>3, <3>4
  <2>3. QED
    BY <2>1, <2>2
<1>4. QED
  BY <1>1, <1>2, <1>3 DEF Covered

(* The join ends in a check when its second part does.                     *)
LEMMA CheckedConcat ==
  ASSUME NEW s, NEW t, Covered(s), Checked(t)
  PROVE  Checked(s \o t)
<1>1. PICK u : u = s \o t
  OBVIOUS
<1>2. Len(s) \in Nat /\ Len(t) \in Nat /\ Len(u) = Len(s) + Len(t) /\ Len(t) > 0
      /\ \A j \in 1..Len(t) : u[Len(s) + j] = t[j]
  BY <1>1, Concatenated DEF Covered, Checked
<1>3. u[Len(s) + Len(t)] = t[Len(t)] /\ u # <<>>
  BY <1>2
<1>4. QED
  BY <1>1, <1>2, <1>3, CoveredConcat DEF Checked

(* A mutation may follow the check.                                        *)
LEMMA CoveredMutation ==
  ASSUME NEW s, NEW task \in Tasks, Checked(s)
  PROVE  Covered(s \o <<task>>)
<1>1. PICK u : u = s \o <<task>>
  OBVIOUS
<1>2. u \in Seq(Tasks) /\ Len(s) \in Nat /\ Len(u) = Len(s) + 1
      /\ \A i \in 1..Len(s) : u[i] = s[i]
  BY <1>1, Concatenated DEF Checked, Covered
<1>3. Len(s) > 0
  BY DEF Checked, Covered
<1>4. ASSUME NEW i \in 1..Len(u), Mutates(u[i])
      PROVE  i > 1 /\ u[i - 1].do = "verified"
  <2>1. CASE i \in 1..Len(s)
    <3>1. i > 1 /\ s[i - 1].do = "verified"
      BY <1>2, <1>4, <2>1 DEF Checked, Covered
    <3>2. i - 1 \in 1..Len(s)
      BY <1>2, <2>1, <3>1
    <3>3. QED
      BY <1>2, <3>1, <3>2
  <2>2. CASE i \notin 1..Len(s)
    <3>1. i = Len(s) + 1 /\ i > 1 /\ i - 1 = Len(s) /\ Len(s) \in 1..Len(s)
      BY <1>2, <1>3, <1>4, <2>2
    <3>2. QED
      BY <1>2, <3>1 DEF Checked
  <2>3. QED
    BY <2>1, <2>2
<1>5. QED
  BY <1>1, <1>2, <1>4 DEF Covered

(* A try block around a program changes no task but its handler.           *)
LEMMA CoveredGuarded ==
  ASSUME NEW s, Covered(s)
  PROVE  Covered(Guarded(s)) /\ (Checked(s) => Checked(Guarded(s)))
<1>1. s \in Seq(Tasks) /\ Len(s) \in Nat
  BY DEF Covered
<1>2. ASSUME NEW i \in 1..Len(s)
      PROVE  /\ Guarded(s)[i] \in Tasks
             /\ Guarded(s)[i].do = s[i].do /\ Guarded(s)[i].route = s[i].route
  <2>1. s[i] \in Tasks
    BY <1>1
  <2>2. Guarded(s)[i] = [s[i] EXCEPT !.guarded = TRUE]
    BY DEF Guarded
  <2>3. QED
    BY <2>1, <2>2 DEF Tasks
<1>3. Guarded(s) \in Seq(Tasks) /\ Len(Guarded(s)) = Len(s)
  BY <1>1, <1>2 DEF Guarded
<1>4. ASSUME NEW i \in 1..Len(s), Mutates(Guarded(s)[i])
      PROVE  i > 1 /\ Guarded(s)[i - 1].do = "verified"
  <2>1. Mutates(s[i])
    BY <1>2, <1>4 DEF Mutates
  <2>2. i > 1 /\ s[i - 1].do = "verified" /\ i - 1 \in 1..Len(s)
    BY <1>1, <2>1 DEF Covered
  <2>3. QED
    BY <1>2, <2>2
<1>5. Covered(Guarded(s))
  BY <1>3, <1>4 DEF Covered
<1>6. ASSUME Checked(s) PROVE Checked(Guarded(s))
  <2>1. Len(s) > 0 /\ Len(s) \in 1..Len(s) /\ s[Len(s)].do = "verified"
    BY <1>1, <1>6 DEF Checked
  <2>2. QED
    BY <1>2, <1>3, <1>5, <2>1 DEF Checked
<1>7. QED
  BY <1>5, <1>6

(* A local step is a covered program.                                      *)
LEMMA CoveredStep ==
  ASSUME NEW do \in {"age", "authorize", "admit", "verified", "restrict", "fingerprint", "observed"}
  PROVE  Covered(Step(do)) /\ (do = "verified" => Checked(Step(do)))
  BY DEF Covered, Checked, Step, Tasks, Routes, Mutates

(* So is a read.                                                           *)
LEMMA CoveredRead ==
  ASSUME NEW route \in Routes \ Mutations, NEW priority \in BOOLEAN
  PROVE  Covered(Request(route, priority))
  BY DEF Covered, Request, Tasks, Mutates

(* The identity reads are covered, and the verification ends in a check.   *)
LEMMA CoveredVerification == Covered(IdentityReads) /\ Checked(Verified)
<1>1. Covered(Request("me", TRUE)) /\ Covered(Request("portfolio", TRUE))
  BY CoveredRead DEF Routes, Mutations
<1>2. Covered(IdentityReads)
  BY <1>1, CoveredConcat DEF IdentityReads
<1>3. Checked(IdentityReads \o Step("verified"))
  BY <1>2, CoveredStep, CheckedConcat
<1>4. QED
  BY <1>2, <1>3, CoveredGuarded DEF Verified, Checked

(* A mutation is sent right after its own verification.                    *)
LEMMA CoveredMutate ==
  ASSUME NEW route \in Mutations
  PROVE  Covered(Mutate(route))
<1> DEFINE admit == [Step("admit")[1] EXCEPT !.route = route]
           request == [do |-> "request", route |-> route, guarded |-> FALSE,
                       priority |-> route # "orders"]
<1>1. admit \in Tasks /\ admit.do = "admit"
  <2>1. Step("admit")[1] \in Tasks /\ Step("admit")[1].do = "admit" /\ route \in Routes
    BY DEF Step, Tasks, Routes, Mutations
  <2>2. QED
    BY <2>1 DEF Tasks
<1>2. request \in Tasks
  BY DEF Tasks, Routes, Mutations
<1>3. Mutate(route) = (<<admit>> \o Verified) \o <<request>>
  BY DEF Mutate, Request
<1> HIDE DEF request, admit
<1>4. Covered(<<admit>>)
  BY <1>1 DEF Covered, Mutates
<1>5. Checked(<<admit>> \o Verified)
  BY <1>4, CoveredVerification, CheckedConcat
<1>6. QED
  BY <1>2, <1>3, <1>5, CoveredMutation

(* Every operation of the adapter compiles to a covered program.           *)
LEMMA CoveredProgram ==
  ASSUME NEW op \in Operations
  PROVE  Covered(Program(op))
<1>1. /\ \A r \in Routes \ Mutations, b \in BOOLEAN : Covered(Request(r, b))
      /\ \A do \in {"age", "authorize", "admit", "verified", "restrict", "fingerprint", "observed"} :
            Covered(Step(do))
      /\ \A r \in Mutations : Covered(Mutate(r))
      /\ Covered(Verified) /\ Covered(IdentityReads)
      /\ \A s, t : Covered(s) /\ Covered(t) => Covered(s \o t)
  BY CoveredRead, CoveredStep, CoveredMutate, CoveredVerification, CoveredConcat DEF Checked
<1>2. Covered(Authorize) /\ Covered(Owned) /\ Covered(ObserveDemo)
  BY <1>1 DEF Authorize, Owned, ObserveDemo, Routes, Mutations
<1>3. Covered(EntrySteps)
  BY <1>1, <1>2 DEF EntrySteps, Routes, Mutations
<1>4. Covered(CloseSteps)
  BY <1>1, <1>2 DEF CloseSteps, Routes, Mutations
<1>5. Covered(CancelSteps)
  BY <1>1, <1>2 DEF CancelSteps, Routes, Mutations
<1>6. Covered(ProtectSteps)
  BY <1>1, <1>2 DEF ProtectSteps, Routes, Mutations
<1>7. Covered(QuerySteps) /\ Covered(QueryCloseSteps) /\ Covered(PreflightSteps)
  BY <1>1, <1>2 DEF QuerySteps, QueryCloseSteps, PreflightSteps, Routes, Mutations
<1>8. QED
  BY <1>3, <1>4, <1>5, <1>6, <1>7, TransportAssumption DEF Program

-----------------------------------------------------------------------------
(* Types.                                                                  *)
TheirScopes == SUBSET (DemoScopes \cup {"other"})
Evidence ==
  [account : Accounts \cup {Unarmed}, scopes : TheirScopes, credential : {"ours", "other"},
   at : Nat]
Locals ==
  [permit : Permits, bound : Bindings, account : Accounts \cup {Unarmed}, scopes : TheirScopes,
   credential : {"ours", "other"}, opened : Nat, attempted : Nat]
Sent == [at : Nat, route : Routes, notBefore : Nat]
AdapterCalls == [op : Operations, answer : {"open", "accepted", "rejected", "unknown"}]

LeaseTypes ==
  /\ now \in Nat /\ mutation_attempts \in Nat
  /\ authorization \in DemoAuthorization /\ binding \in Bindings
  /\ evidence \in Evidence /\ local \in Locals

CallTypes ==
  /\ calls \in Seq(AdapterCalls) /\ todo \in Seq(Tasks)
  /\ pc \in {"run", "wait", "sleep"}
  /\ Idle => todo = <<>> /\ pc = "run"
  /\ pc # "run" => todo # <<>> /\ Task.do = "request"

Types == LeaseTypes /\ CallTypes

(* Answering a call leaves well-typed calls and no task.                   *)
LEMMA AnswerTypes ==
  ASSUME Types, ~Idle
  PROVE  /\ FailureAnswer \in {"rejected", "unknown"}
         /\ \A a \in {"accepted", "rejected", "unknown"} : Answered(a) => CallTypes' /\ todo' = <<>>
<1>1. FailureAnswer \in {"rejected", "unknown"}
  BY DEF FailureAnswer
<1>2. ASSUME NEW a \in {"accepted", "rejected", "unknown"}, Answered(a)
      PROVE  CallTypes' /\ todo' = <<>>
  <2>1. calls # <<>> /\ Len(calls) \in 1..Len(calls) /\ calls \in Seq(AdapterCalls)
    BY DEF Types, CallTypes, Idle
  <2>2. calls' = [calls EXCEPT ![Len(calls)] = [calls[Len(calls)] EXCEPT !.answer = a]]
    BY <1>2 DEF Answered
  <2>3. [calls[Len(calls)] EXCEPT !.answer = a] \in AdapterCalls
        /\ [calls[Len(calls)] EXCEPT !.answer = a].answer = a
    <3>1. calls[Len(calls)] \in AdapterCalls
      BY <2>1
    <3>2. QED
      BY <1>2, <3>1 DEF AdapterCalls
  <2>4. calls' \in Seq(AdapterCalls) /\ Len(calls') = Len(calls)
        /\ calls'[Len(calls)].answer = a
    <3> DEFINE call == [calls[Len(calls)] EXCEPT !.answer = a]
    <3>1. call \in AdapterCalls /\ call.answer = a /\ calls' = [calls EXCEPT ![Len(calls)] = call]
      BY <2>2, <2>3
    <3> HIDE DEF call
    <3>2. QED
      BY <2>1, <3>1
  <2>5. Idle'
    BY <1>2, <2>1, <2>4 DEF Idle
  <2>6. QED
    BY <1>2, <2>4, <2>5 DEF Answered, CallTypes
<1>3. QED
  BY <1>1, <1>2

(* So does going on to the next task.                                      *)
LEMMA ProceedTypes ==
  ASSUME Types, ~Idle, todo # <<>>, Proceed
  PROVE  CallTypes'
<1>1. Tail(todo) \in Seq(Tasks)
  BY DEF Types, CallTypes
<1>2. Idle' <=> Idle
  BY DEF Proceed, Idle
<1>3. QED
  BY <1>1, <1>2 DEF Types, CallTypes, Proceed

(* The operations of DemoAuthorization return one.                         *)
LEMMA LeaseOperators ==
  ASSUME NEW a \in DemoAuthorization
  PROVE  /\ PauseEntries(a) \in DemoAuthorization /\ Invalidate(a) \in DemoAuthorization
         /\ \A permit, b : AfterCheck(a, permit, b) \in DemoAuthorization
         /\ \A e \in Evidence, t \in Nat : Activate(a, e, t) \in DemoAuthorization
<1> USE AuthorizationAssumption DEF DemoAuthorization, NoLease
<1>1. \A x \in DemoAuthorization : PauseEntries(x) \in DemoAuthorization
  BY DEF PauseEntries
<1>2. \A x \in DemoAuthorization : Invalidate(x) \in DemoAuthorization
  <2>1. ASSUME NEW y \in DemoAuthorization
        PROVE  [y EXCEPT !.management = NoLease, !.account = Unarmed, !.nonce = @ + 1]
                 \in DemoAuthorization
    <3>1. y.nonce + 1 \in Nat
      OBVIOUS
    <3>2. \A n \in Nat : [y EXCEPT !.management = NoLease, !.account = Unarmed, !.nonce = n]
                           \in DemoAuthorization
      OBVIOUS
    <3>3. QED
      BY <3>1, <3>2
  <2>2. QED
    BY <1>1, <2>1 DEF Invalidate
<1>3. \A permit, b : AfterCheck(a, permit, b) \in DemoAuthorization
  <2> HIDE DEF DemoAuthorization
  <2>1. QED
    BY <1>1, <1>2 DEF AfterCheck
<1>4. \A e \in Evidence, t \in Nat : Activate(a, e, t) \in DemoAuthorization
  <2> SUFFICES ASSUME NEW e \in Evidence, NEW t \in Nat PROVE Activate(a, e, t) \in DemoAuthorization
    OBVIOUS
  <2>1. /\ a.nonce + 1 \in Nat /\ t + EntrySeconds \in Nat /\ t + ManagementSeconds \in Nat
        /\ e.account \in Accounts \cup {Unarmed} /\ e.credential \in {"ours", "other"}
    BY DEF Evidence
  <2>2. QED
    BY <1>1, <2>1 DEF Activate
<1>5. QED
  BY <1>1, <1>2, <1>3, <1>4

(* A failed call leaves well-typed state.                                  *)
LEMMA FailsTypes ==
  ASSUME Types, ~Idle, NEW a \in DemoAuthorization, Fails(a)
  PROVE  CallTypes' /\ authorization' \in DemoAuthorization /\ local' \in Locals /\ todo' = <<>>
<1>1. CallTypes' /\ todo' = <<>>
  BY AnswerTypes DEF Fails
<1>2. authorization' \in DemoAuthorization
  BY LeaseOperators DEF Fails
<1>3. NoLocal \in Locals
  BY DEF NoLocal, Locals, Permits, Purposes, OurBinding, Bindings, TheirScopes
<1>4. QED
  BY <1>1, <1>2, <1>3 DEF Fails, Answered

-----------------------------------------------------------------------------
(* A mutation that is about to leave is authorized: every mutation left in *)
(* a call follows a check, none waits for a retry, and between the check   *)
(* and the request nothing else happens.                                   *)
OrderInv ==
  /\ \A i \in 2..Len(todo) : Mutates(todo[i]) => todo[i - 1].do = "verified"
  /\ pc = "sleep" => ~Mutates(Task)
  /\ pc = "run" /\ todo # <<>> /\ Mutates(Task) => Authorized

Inv == Types /\ OrderInv

(* What a check that passes says of the leases it leaves.                  *)
LEMMA PassedCheck ==
  ASSUME NEW a \in DemoAuthorization, NEW permit \in Permits, NEW b \in Bindings, NEW t \in Nat,
         Passes(a, permit, b, t)
  PROVE  /\ AfterCheck(a, permit, b).nonce = a.nonce
         /\ AfterCheck(a, permit, b).account = a.account
         /\ AfterCheck(a, permit, b).credential = a.credential
         /\ t < Lease(AfterCheck(a, permit, b), permit.purpose)
<1>1. AfterCheck(a, permit, b) = IF OurBinding.session = b.session /\ OurBinding.config = b.config
                                 THEN a ELSE PauseEntries(a)
  BY DEF Passes, AfterCheck
<1>2. t < Lease(a, permit.purpose)
  BY DEF Passes, Running
<1>3. CASE AfterCheck(a, permit, b) = a
  BY <1>2, <1>3
<1>4. CASE AfterCheck(a, permit, b) # a
  <2>1. permit.purpose = "management"
    BY <1>1, <1>4 DEF Passes, BindingHolds, OurBinding, Permits, Purposes
  <2>2. AfterCheck(a, permit, b) = [a EXCEPT !.entry = NoLease]
    BY <1>1, <1>4 DEF PauseEntries
  <2>3. QED
    BY <1>2, <2>1, <2>2 DEF Lease, DemoAuthorization
<1>5. QED
  BY <1>3, <1>4

(* Going on keeps the invariant, if a check that passed left a lease.      *)
LEMMA ProceedInv ==
  ASSUME Inv, ~Idle, todo # <<>>, Proceed, LeaseTypes', Task.do # "verified" \/ Authorized'
  PROVE  Inv'
<1>1. CallTypes'
  BY ProceedTypes DEF Inv
<1>2. /\ todo \in Seq(Tasks) /\ todo' = Tail(todo) /\ pc' = "run"
      /\ Len(todo') = Len(todo) - 1 /\ Len(todo) \in Nat
      /\ \A i \in 1..Len(todo') : todo'[i] = todo[i + 1]
  BY DEF Inv, Types, CallTypes, Proceed
<1>3. ASSUME NEW i \in 2..Len(todo'), Mutates(todo'[i])
      PROVE  todo'[i - 1].do = "verified"
  <2>1. i + 1 \in 2..Len(todo) /\ todo'[i] = todo[i + 1]
    BY <1>2
  <2>2. todo[(i + 1) - 1].do = "verified"
    BY <1>3, <2>1 DEF Inv, OrderInv
  <2>3. todo'[i - 1] = todo[(i - 1) + 1]
    BY <1>2
  <2>4. QED
    BY <2>2, <2>3
<1>4. ASSUME todo' # <<>>, Mutates(todo'[1]) PROVE Authorized'
  <2>1. 2 \in 2..Len(todo) /\ todo'[1] = todo[2]
    BY <1>2, <1>4
  <2>2. todo[2 - 1].do = "verified"
    BY <1>4, <2>1 DEF Inv, OrderInv
  <2>3. QED
    BY <2>2 DEF Task
<1>5. OrderInv'
  BY <1>2, <1>3, <1>4 DEF OrderInv, Task
<1>6. QED
  BY <1>1, <1>5 DEF Inv, Types

(* An answer leaves nothing of the call.                                   *)
LEMMA AnsweredInv ==
  ASSUME Inv, ~Idle, NEW a \in {"accepted", "rejected", "unknown"}, Answered(a), LeaseTypes'
  PROVE  Inv'
<1>1. CallTypes' /\ todo' = <<>> /\ pc' = "run"
  BY AnswerTypes DEF Inv, Answered
<1>2. QED
  BY <1>1 DEF Inv, OrderInv, Types

(* A failed call keeps the invariant.                                      *)
LEMMA FailsInv ==
  ASSUME Inv, ~Idle, NEW a \in DemoAuthorization, Fails(a),
         now' \in Nat, mutation_attempts' \in Nat, binding' \in Bindings, evidence' \in Evidence
  PROVE  Inv'
<1>1. LeaseTypes'
  BY FailsTypes DEF Inv, LeaseTypes
<1>2. QED
  BY <1>1, AnsweredInv, AnswerTypes DEF Inv, Fails

(* So does a request the code refuses to send.                             *)
LEMMA BlockedInv ==
  ASSUME Inv, ~Idle, Blocked,
         UNCHANGED <<now, binding, evidence, mutation_attempts>>
  PROVE  Inv'
  BY FailsInv DEF Inv, Types, LeaseTypes, Blocked

(* While the thread waits, nothing it was about to send is at stake.       *)
LEMMA WaitingInv ==
  ASSUME Inv, Waiting, UNCHANGED callVars, LeaseTypes'
  PROVE  Inv'
  BY DEF Inv, Types, CallTypes, OrderInv, Waiting, Idle, callVars, Task, Mutates

(* The steps of the adapter that send nothing keep it.                     *)
LEMMA LocalInv ==
  ASSUME Inv, LocalStep
  PROVE  Inv'
<1> USE DEF Inv, Types
<1>1. now' = now /\ mutation_attempts' = mutation_attempts
  BY DEF LocalStep, netVars
<1>2. CASE Signal
  <2>1. ~Idle /\ todo # <<>> /\ Task.do = "age" /\ UNCHANGED <<binding, evidence>>
    BY <1>2 DEF Signal, RunsTask
  <2>2. CASE Proceed /\ UNCHANGED <<local, authorization>>
    BY <1>1, <2>1, <2>2, ProceedInv DEF LeaseTypes
  <2>3. CASE Blocked
    BY <1>1, <2>1, <2>3, BlockedInv
  <2>4. QED
    BY <1>2, <2>2, <2>3 DEF Signal
<1>3. CASE BeginVerification
  <2>1. /\ ~Idle /\ todo # <<>> /\ Task.do # "verified" /\ UNCHANGED <<binding, evidence>>
        /\ (~Idle => Call \in AdapterCalls)
    BY <1>3 DEF BeginVerification, RunsTask, Idle, Call, CallTypes
  <2>2. CASE Blocked
    BY <1>1, <2>1, <2>2, BlockedInv
  <2>3. CASE Check
    <3> DEFINE permit == IF Task.do = "authorize" THEN Permit(authorization, PurposeOf(Call.op))
                         ELSE local.permit
               a == AfterCheck(authorization, permit, binding)
    <3>1. permit \in Permits /\ a \in DemoAuthorization
      <4>1. Permit(authorization, PurposeOf(Call.op)) \in Permits
        BY DEF LeaseTypes, Permit, PurposeOf, Permits, Purposes, DemoAuthorization
      <4>2. local.permit \in Permits
        BY DEF LeaseTypes, Locals
      <4>3. QED
        BY <4>1, <4>2, LeaseOperators DEF LeaseTypes
    <3>2. CASE /\ authorization' = a /\ Proceed
               /\ local' = [local EXCEPT !.permit = permit, !.bound = binding,
                                         !.credential = binding.credential]
      <4> HIDE DEF permit, a
      <4>1. local' \in Locals
        BY <3>1, <3>2 DEF LeaseTypes, Locals, Bindings
      <4>2. QED
        BY <1>1, <2>1, <3>1, <3>2, <4>1, ProceedInv DEF LeaseTypes
    <3>3. CASE Fails(a)
      <4> HIDE DEF permit, a
      <4>1. QED
        BY <1>1, <2>1, <3>1, <3>3, FailsInv DEF LeaseTypes
    <3>4. QED
      BY <2>3, <3>2, <3>3 DEF Check
  <2>4. QED
    BY <1>3, <2>2, <2>3 DEF BeginVerification
<1>4. CASE EndVerification
  <2>1. ~Idle /\ todo # <<>> /\ UNCHANGED <<binding, evidence>>
    BY <1>4 DEF EndVerification, RunsTask
  <2>2. CASE Blocked
    BY <1>1, <2>1, <2>2, BlockedInv
  <2>3. CASE /\ IdentityMatches /\ PermitHolds
             /\ authorization' = AfterCheck(authorization, local.permit, binding)
             /\ Proceed /\ UNCHANGED local
    <3>1. local.permit \in Permits /\ authorization' \in DemoAuthorization
      BY <2>3, LeaseOperators DEF LeaseTypes, Locals
    <3>2. LeaseTypes'
      BY <1>1, <2>1, <2>3, <3>1 DEF LeaseTypes
    <3>3. /\ authorization'.nonce = authorization.nonce
          /\ authorization'.account = authorization.account
          /\ authorization'.credential = authorization.credential
          /\ now < Lease(authorization', local.permit.purpose)
      BY <2>3, <3>1, PassedCheck DEF LeaseTypes, PermitHolds
    <3>4. Authorized'
      BY <1>1, <2>1, <2>3, <3>3 DEF Authorized, IdentityMatches, CredentialsUnchanged, PermitHolds,
         Passes, BindingHolds, Armed, SameCredential, LeaseTypes, Locals, TheirScopes, Permits, Purposes
    <3>5. QED
      BY <2>1, <2>3, <3>2, <3>4, ProceedInv
  <2>4. QED
    BY <1>4, <2>2, <2>3 DEF EndVerification
<1>5. CASE RestrictToPreflight
  <2>1. /\ ~Idle /\ todo # <<>> /\ Task.do = "restrict" /\ Proceed
        /\ UNCHANGED <<authorization, binding, evidence, local>>
    BY <1>5 DEF RestrictToPreflight, RunsTask
  <2>2. QED
    BY <1>1, <2>1, ProceedInv DEF LeaseTypes
<1>6. CASE ReadFingerprint
  <2>1. /\ ~Idle /\ todo # <<>> /\ Task.do = "fingerprint" /\ Proceed
        /\ UNCHANGED <<authorization, binding, evidence>>
    BY <1>6 DEF ReadFingerprint, RunsTask, leaseVars
  <2>2. local' \in Locals
    BY <1>6 DEF ReadFingerprint, LeaseTypes, Locals, Bindings
  <2>3. QED
    BY <1>1, <2>1, <2>2, ProceedInv DEF LeaseTypes
<1>7. CASE Observed
  <2>1. ~Idle /\ todo # <<>> /\ Task.do = "observed" /\ UNCHANGED binding
    BY <1>7 DEF Observed, RunsTask
  <2>2. CASE Blocked /\ UNCHANGED evidence
    BY <1>1, <2>1, <2>2, BlockedInv
  <2>3. CASE /\ evidence' = [account |-> local.account, scopes |-> local.scopes,
                             credential |-> local.credential, at |-> now]
             /\ Proceed /\ UNCHANGED <<authorization, local>>
    <3>1. evidence' \in Evidence
      BY <2>3 DEF LeaseTypes, Locals, Evidence
    <3>2. QED
      BY <1>1, <2>1, <2>3, <3>1, ProceedInv DEF LeaseTypes
  <2>4. QED
    BY <1>7, <2>2, <2>3 DEF Observed
<1>8. QED
  BY <1>2, <1>3, <1>4, <1>5, <1>6, <1>7 DEF LocalStep

(* What comes back keeps it.                                               *)
LEMMA AnswerInv ==
  ASSUME Inv, ReadAnswered \/ ReadRefused \/ ReadUnavailable \/ RateLimited
                \/ MutationAccepted \/ MutationRefused \/ MutationLost
  PROVE  Inv'
<1> USE DEF Inv, Types
<1>1. /\ ~Idle /\ pc = "wait" /\ todo # <<>> /\ Task.do = "request"
      /\ UNCHANGED <<now, binding, evidence, mutation_attempts>>
  BY DEF ReadAnswered, ReadRefused, ReadUnavailable, RateLimited, MutationAccepted,
         MutationRefused, MutationLost, AnswerDue, CallTypes, netVars, leaseVars
<1>2. ASSUME Proceed, UNCHANGED <<local, authorization>> PROVE Inv'
  BY <1>1, <1>2, ProceedInv DEF LeaseTypes
<1>3. ASSUME Blocked PROVE Inv'
  BY <1>1, <1>3, BlockedInv
<1>4. ASSUME NEW delay \in Delays, Sleeps(delay), ~IsMutation(Task.route) PROVE Inv'
  <2>1. LeaseTypes'
    BY <1>1, <1>4 DEF Sleeps, LeaseTypes
  <2>2. CallTypes'
    BY <1>1, <1>4 DEF Sleeps, CallTypes, Idle, Task
  <2>3. OrderInv'
    BY <1>1, <1>4 DEF Sleeps, OrderInv, Task, Mutates, IsMutation
  <2>4. QED
    BY <2>1, <2>2, <2>3
<1>5. CASE ReadAnswered
  <2>1. CASE IdentityAnswered
    <3>1. PICK document \in Identities :
            IF RequireDemo(document)
            THEN /\ local' = [local EXCEPT !.account = document.demoCid, !.scopes = document.scopes]
                 /\ Proceed /\ UNCHANGED authorization
            ELSE Blocked
      BY <2>1 DEF IdentityAnswered
    <3>2. CASE RequireDemo(document)
      <4>1. document.demoCid \in Accounts /\ document.scopes \in TheirScopes
        <5>1. IsDemo(document) /\ document \in Documents
          BY <3>2, TransportAssumption DEF RequireDemo, ClassifyIdentity
        <5>2. QED
          BY <5>1 DEF IsDemo, Documents, Scopes, TheirScopes
      <4>2. local' \in Locals /\ Proceed /\ UNCHANGED authorization
        BY <3>1, <3>2, <4>1 DEF LeaseTypes, Locals
      <4>3. QED
        BY <1>1, <4>2, ProceedInv DEF LeaseTypes
    <3>3. QED
      BY <1>3, <3>1, <3>2
  <2>2. QED
    BY <1>2, <1>3, <1>5, <2>1 DEF ReadAnswered, PortfolioAnswered
<1>6. CASE ReadUnavailable
  <2>1. CASE Sleeps(0)
    BY <1>1, <1>6, <2>1 DEF ReadUnavailable, Sleeps, LeaseTypes, CallTypes, OrderInv, Idle, Task,
                            Mutates, IsMutation
  <2>2. QED
    BY <1>3, <1>6, <2>1 DEF ReadUnavailable
<1>7. CASE RateLimited
  BY <1>3, <1>4, <1>7 DEF RateLimited, Retries
<1>8. QED
  BY <1>2, <1>3, <1>5, <1>6, <1>7 DEF ReadRefused, MutationAccepted, MutationRefused, MutationLost,
     leaseVars

(* Every step keeps it.                                                    *)
LEMMA NextInv ==
  ASSUME Inv, [Next]_vars
  PROVE  Inv'
<1> USE DEF Inv, Types
<1>1. ASSUME NEW op \in Operations, Start(op) PROVE Inv'
  <2>1. /\ Idle /\ pc' = "run" /\ todo' = Program(op)
        /\ calls' = Append(calls, [op |-> op, answer |-> "open"])
        /\ UNCHANGED <<now, authorization, binding, evidence, mutation_attempts>>
        /\ local' = [NoLocal EXCEPT !.opened = now, !.attempted = mutation_attempts]
    BY <1>1 DEF Start, CallTypes, leaseVars, netVars
  <2>2. LeaseTypes'
    <3>1. local' \in Locals
      BY <2>1 DEF LeaseTypes, NoLocal, Locals, Permits, Purposes, OurBinding, Bindings, TheirScopes
    <3>2. QED
      BY <2>1, <3>1 DEF LeaseTypes
  <2>3. calls' \in Seq(AdapterCalls) /\ ~Idle'
    BY <2>1 DEF CallTypes, AdapterCalls, Idle
  <2>4. Covered(todo')
    BY <2>1, CoveredProgram
  <2>5. CallTypes'
    BY <2>1, <2>3, <2>4 DEF CallTypes, Covered
  <2>6. OrderInv'
    <3>1. \A i \in 2..Len(todo') : Mutates(todo'[i]) => todo'[i - 1].do = "verified"
      BY <2>4 DEF Covered
    <3>2. todo' # <<>> => ~Mutates(todo'[1])
      BY <2>4 DEF Covered
    <3>3. QED
      BY <2>1, <3>1, <3>2 DEF OrderInv, Task
  <2>7. QED
    BY <2>2, <2>5, <2>6
<1>2. CASE Arm
  <2>1. authorization' \in DemoAuthorization
    BY <1>2, LeaseOperators DEF Arm, LeaseTypes
  <2>2. QED
    BY <1>2, <2>1, WaitingInv DEF Arm, LeaseTypes, Waiting, netVars, callVars
<1>3. CASE Return
  <2>1. NoLocal \in Locals
    BY DEF NoLocal, Locals, Permits, Purposes, OurBinding, Bindings, TheirScopes
  <2>2. QED
    BY <1>3, <2>1, AnsweredInv DEF Return, leaseVars, netVars, LeaseTypes, Answered
<1>4. CASE Send
  <2>1. /\ ~Idle /\ todo # <<>> /\ Task.do = "request" /\ pc' = "wait"
        /\ UNCHANGED <<now, leaseVars, calls, todo, local>>
        /\ mutation_attempts' = CountAttempt(Task.route)
    BY <1>4 DEF Send, RunsTask
  <2>2. mutation_attempts' \in Nat
    BY <2>1 DEF CountAttempt, LeaseTypes
  <2>3. LeaseTypes'
    BY <2>1, <2>2 DEF LeaseTypes, leaseVars
  <2>4. (Idle' <=> Idle) /\ Task' = Task
    BY <2>1 DEF Idle, Task
  <2>5. CallTypes'
    BY <2>1, <2>4 DEF CallTypes
  <2>6. OrderInv'
    BY <2>1 DEF OrderInv
  <2>7. QED
    BY <2>3, <2>5, <2>6
<1>5. CASE NotSent
  BY <1>5, BlockedInv DEF NotSent, RunsTask
<1>6. CASE Wake
  BY <1>6 DEF Wake, LeaseTypes, CallTypes, OrderInv, Idle, Task, leaseVars, netVars
<1>7. CASE Tick
  BY <1>7, WaitingInv DEF Tick, LeaseTypes, leaseVars, netVars, callVars
<1>8. CASE Replace
  <2>1. binding' \in Bindings
    BY <1>8 DEF Replace, LeaseTypes, Bindings
  <2>2. QED
    BY <1>8, <2>1, WaitingInv DEF Replace, LeaseTypes, netVars, callVars
<1>9. CASE OperatorPauses
  <2>1. authorization' \in DemoAuthorization
    BY <1>9, LeaseOperators DEF OperatorPauses, LeaseTypes
  <2>2. QED
    BY <1>9, <2>1, WaitingInv DEF OperatorPauses, LeaseTypes, netVars, callVars
<1>10. ASSUME UNCHANGED <<now, leaseVars, netVars, callVars>> PROVE Inv'
  BY <1>10 DEF LeaseTypes, CallTypes, OrderInv, Idle, Task, Authorized, leaseVars, netVars, callVars
<1>11. CASE LateLanding
  BY <1>10, <1>11 DEF LateLanding
<1>12. CASE UNCHANGED vars
  BY <1>10, <1>12 DEF vars
<1>13. QED
  BY <1>1, <1>2, <1>3, <1>4, <1>5, <1>6, <1>7, <1>8, <1>9, <1>11, <1>12, LocalInv, AnswerInv DEF Next

(* A new process has it.                                                   *)
LEMMA InitInv == Init => Inv
<1> SUFFICES ASSUME Init PROVE Inv
  OBVIOUS
<1>1. LeaseTypes
  <2>1. NoLocal \in Locals
    BY DEF NoLocal, Locals, Permits, Purposes, OurBinding, Bindings, TheirScopes
  <2>2. NewAuthorization \in DemoAuthorization /\ OurBinding \in Bindings
    BY DEF NewAuthorization, DemoAuthorization, NoLease, OurBinding, Bindings
  <2>3. evidence \in Evidence
    BY TransportAssumption DEF Init, Evidence, TheirScopes
  <2>4. QED
    BY <2>1, <2>2, <2>3 DEF Init, LeaseTypes
<1>2. CallTypes /\ OrderInv
  BY DEF Init, CallTypes, OrderInv, Idle
<1>3. QED
  BY <1>1, <1>2 DEF Inv, Types

(* MutationsAreAuthorized: whatever expires, is paused, replaced or armed  *)
(* again while the identity is read, a mutation leaves only under a permit *)
(* that still runs, for the armed account, with the credentials in use     *)
(* (transport.py verify_mutation_identity, authorization.py check).        *)
THEOREM MutationsNeedPermit == Spec => MutationsAreAuthorized
<1>1. Inv /\ [Next]_vars => Inv'
  BY NextInv
<1>2. Inv /\ [Next]_vars => [SendsMutation => Authorized]_vars
  <2> SUFFICES ASSUME Inv, Next, SendsMutation PROVE Authorized
    BY DEF vars, netVars, SendsMutation, Inv, Types, LeaseTypes
  <2>1. mutation_attempts \in Nat /\ mutation_attempts' # mutation_attempts
    BY DEF SendsMutation, Inv, Types, LeaseTypes
  <2>2. Send
    BY <2>1 DEF Next, Start, Arm, LocalStep, Return, NotSent, Wake, ReadAnswered, ReadRefused,
       ReadUnavailable, RateLimited, MutationAccepted, MutationRefused, MutationLost, Tick,
       Replace, OperatorPauses, LateLanding, netVars
  <2>3. IsMutation(Task.route)
    BY <2>1, <2>2 DEF Send, CountAttempt
  <2>4. QED
    BY <2>2, <2>3 DEF Send, RunsTask, Inv, OrderInv, Mutates, IsMutation
<1>3. QED
  BY InitInv, <1>1, <1>2, PTL DEF Spec, MutationsAreAuthorized

-----------------------------------------------------------------------------
(* Only a request and a 429 touch the budget or the traffic.               *)
NoTraffic == UNCHANGED <<quota, traffic, mutation_attempts>> /\ (pc' = "wait" => pc = "wait")

(* Every other step leaves both as they are.                               *)
LEMMA TrafficSteps ==
  ASSUME [Next]_vars
  PROVE  Send \/ RateLimited \/ NoTraffic
<1>1. CASE UNCHANGED vars
  BY <1>1 DEF NoTraffic, vars, netVars, callVars
<1>2. CASE NotSent
  BY <1>2 DEF NoTraffic, NotSent, Refused, Blocked, Fails, Answered
<1>3. CASE LocalStep
  BY <1>3 DEF NoTraffic, LocalStep, Signal, BeginVerification, Check, EndVerification,
     RestrictToPreflight, ReadFingerprint, Observed, Proceed, Blocked, Fails, Answered, netVars
<1>4. CASE ReadAnswered \/ ReadRefused \/ ReadUnavailable \/ MutationAccepted \/ MutationRefused
             \/ MutationLost
  BY <1>4 DEF NoTraffic, ReadAnswered, IdentityAnswered, PortfolioAnswered, ReadRefused,
     ReadUnavailable, MutationAccepted, MutationRefused, MutationLost, Proceed, Sleeps, Blocked,
     Fails, Answered, netVars
<1>5. CASE (\E op \in Operations : Start(op)) \/ Arm \/ Return \/ Wake \/ Tick \/ Replace
             \/ OperatorPauses \/ LateLanding
  BY <1>5 DEF NoTraffic, Start, Arm, Return, Wake, Tick, Replace, OperatorPauses, LateLanding,
     Answered, netVars, callVars
<1>6. QED
  BY <1>1, <1>2, <1>3, <1>4, <1>5 DEF Next

(* The budget's mark is at least what any answer asked for, so that what   *)
(* passes it was asked for nothing later.                                  *)
RetryInv ==
  /\ DOMAIN quota = {"uses", "blocked_until"} /\ quota.blocked_until \in Nat
  /\ traffic \in Seq(Sent)
  /\ pc = "wait" => traffic # <<>>
  /\ \A i \in 1..Len(traffic) : traffic[i].notBefore <= quota.blocked_until
  /\ \A i \in 1..Len(traffic) - 1 : traffic[Len(traffic)].at >= traffic[i].notBefore

(* A request is sent only once the budget allows it again.                 *)
LEMMA SendRetry ==
  ASSUME Inv, RetryInv, Send
  PROVE  RetryInv'
<1>1. /\ now \in Nat /\ now >= quota.blocked_until /\ Task.route \in Routes
      /\ quota' = Take(quota, Pool[Task.route], now)
      /\ traffic' = Append(traffic, [at |-> now, route |-> Task.route, notBefore |-> 0])
  <2>1. todo # <<>> /\ todo \in Seq(Tasks) /\ now \in Nat
    BY DEF Send, RunsTask, Inv, Types, LeaseTypes, CallTypes
  <2>2. Task \in Tasks
    BY <2>1 DEF Task
  <2>3. QED
    BY <2>1, <2>2 DEF Send, MayTake, Tasks
<1>2. DOMAIN quota' = {"uses", "blocked_until"} /\ quota'.blocked_until = quota.blocked_until
      /\ quota.blocked_until \in Nat
  BY <1>1 DEF Take, RetryInv
<1> DEFINE sent == [at |-> now, route |-> Task.route, notBefore |-> 0]
<1>3. sent \in Sent /\ sent.at = now /\ sent.notBefore = 0
  BY <1>1 DEF Sent
<1>4. traffic' = Append(traffic, sent)
  BY <1>1
<1> HIDE DEF sent
<1>5. /\ traffic' \in Seq(Sent) /\ Len(traffic') = Len(traffic) + 1 /\ Len(traffic) \in Nat
      /\ traffic'[Len(traffic) + 1] = sent
      /\ \A i \in 1..Len(traffic) : traffic'[i] = traffic[i]
  BY <1>3, <1>4 DEF RetryInv
<1>6. \A i \in 1..Len(traffic') : traffic'[i].notBefore <= quota'.blocked_until
  <2> SUFFICES ASSUME NEW i \in 1..Len(traffic') PROVE traffic'[i].notBefore <= quota'.blocked_until
    OBVIOUS
  <2>1. CASE i = Len(traffic) + 1
    BY <1>2, <1>3, <1>5, <2>1
  <2>2. CASE i \in 1..Len(traffic)
    BY <1>2, <1>5, <2>2 DEF RetryInv
  <2>3. QED
    BY <1>5, <2>1, <2>2
<1>7. ASSUME NEW i \in 1..Len(traffic') - 1
      PROVE  traffic'[Len(traffic')].at >= traffic'[i].notBefore
  <2>1. i \in 1..Len(traffic) /\ traffic'[i] = traffic[i] /\ traffic[i] \in Sent
    BY <1>5 DEF RetryInv
  <2>2. traffic[i].notBefore <= quota.blocked_until /\ traffic[i].notBefore \in Nat
    BY <2>1 DEF RetryInv, Sent
  <2>3. traffic'[Len(traffic')].at = now
    BY <1>3, <1>5
  <2>4. QED
    BY <1>1, <2>1, <2>2, <2>3 DEF RetryInv
<1>8. QED
  BY <1>2, <1>5, <1>6, <1>7 DEF RetryInv

(* A 429 moves the mark to the end of the wait it asks for.                *)
LEMMA LimitedRetry ==
  ASSUME Inv, RetryInv, RateLimited
  PROVE  RetryInv'
<1>1. PICK delay \in Delays :
        /\ quota' = Limited(quota, now, delay)
        /\ traffic' = [traffic EXCEPT ![Len(traffic)].notBefore = now + delay]
        /\ pc' # "wait"
  BY DEF RateLimited, Sleeps, Blocked, Fails, Answered
<1>2. now \in Nat /\ delay \in Nat /\ now + delay \in Nat
  BY TransportAssumption DEF Inv, Types, LeaseTypes
<1>3. /\ DOMAIN quota' = {"uses", "blocked_until"} /\ quota'.blocked_until \in Nat
      /\ quota'.blocked_until >= quota.blocked_until /\ quota'.blocked_until >= now + delay
  <2>1. /\ DOMAIN quota' = {"uses", "blocked_until"}
        /\ quota'.blocked_until
             = IF quota.blocked_until > now + delay THEN quota.blocked_until ELSE now + delay
    BY <1>1 DEF Limited, RetryInv
  <2>2. QED
    BY <1>2, <2>1 DEF RetryInv
<1>4. traffic # <<>> /\ Len(traffic) \in 1..Len(traffic) /\ traffic \in Seq(Sent)
  BY DEF RetryInv, RateLimited, AnswerDue
<1> DEFINE last == [traffic[Len(traffic)] EXCEPT !.notBefore = now + delay]
<1>5. last \in Sent /\ last.at = traffic[Len(traffic)].at /\ last.notBefore = now + delay
  <2>1. traffic[Len(traffic)] \in Sent
    BY <1>4
  <2>2. QED
    BY <1>2, <2>1 DEF Sent
<1>6. traffic' = [traffic EXCEPT ![Len(traffic)] = last]
  BY <1>1
<1> HIDE DEF last
<1>7. /\ traffic' \in Seq(Sent) /\ Len(traffic') = Len(traffic) /\ traffic'[Len(traffic)] = last
      /\ \A i \in 1..Len(traffic) : i # Len(traffic) => traffic'[i] = traffic[i]
  BY <1>4, <1>5, <1>6
<1>8. ASSUME NEW i \in 1..Len(traffic) PROVE traffic'[i].notBefore <= quota'.blocked_until
  <2>1. CASE i = Len(traffic)
    BY <1>2, <1>3, <1>5, <1>7, <2>1
  <2>2. CASE i # Len(traffic)
    <3>1. traffic[i].notBefore <= quota.blocked_until /\ traffic[i].notBefore \in Nat
          /\ quota.blocked_until \in Nat
      <4>1. traffic[i] \in Sent
        BY <1>4
      <4>2. traffic[i].notBefore <= quota.blocked_until /\ quota.blocked_until \in Nat
        BY DEF RetryInv
      <4>3. QED
        BY <4>1, <4>2 DEF Sent
    <3>2. traffic'[i] = traffic[i]
      BY <1>7, <2>2
    <3>3. QED
      BY <1>3, <3>1, <3>2
  <2>3. QED
    BY <2>1, <2>2
<1>9. ASSUME NEW i \in 1..Len(traffic) - 1 PROVE traffic'[Len(traffic)].at >= traffic'[i].notBefore
  <2>1. i \in 1..Len(traffic) /\ i # Len(traffic)
    BY <1>4
  <2>2. QED
    BY <1>5, <1>7, <2>1 DEF RetryInv
<1>10. QED
  BY <1>1, <1>3, <1>7, <1>8, <1>9 DEF RetryInv

(* It holds at first, and every step keeps it.                             *)
LEMMA InitRetry == Init => RetryInv
BY DEF Init, RetryInv, NewBudget

(* Every step keeps the waits that were asked for.                         *)
LEMMA NextRetry ==
  ASSUME Inv, RetryInv, [Next]_vars
  PROVE  RetryInv'
<1>1. CASE Send
  BY <1>1, SendRetry
<1>2. CASE RateLimited
  BY <1>2, LimitedRetry
<1>3. CASE NoTraffic
  BY <1>3 DEF NoTraffic, RetryInv
<1>4. QED
  BY <1>1, <1>2, <1>3, TrafficSteps

(* RetryAfterHonoured: after a 429 no route, retry or later call sends     *)
(* anything before the time the provider asked for (transport.py limited,  *)
(* take and request).                                                      *)
THEOREM RetryAfterIsHonoured == Spec => []RetryAfterHonoured
<1> DEFINE Both == Inv /\ RetryInv
<1>1. Init => Both
  BY InitInv, InitRetry
<1>2. Both /\ [Next]_vars => Both'
  BY NextInv, NextRetry
<1>3. Both => RetryAfterHonoured
  BY DEF RetryInv, RetryAfterHonoured, Newest
<1>4. QED
  BY <1>1, <1>2, <1>3, PTL DEF Spec

-----------------------------------------------------------------------------
(* The contract.  A call that changes something has one mutation to send.  *)
None(steps) == \A i \in 1..Len(steps) : ~Mutates(steps[i])
Single(steps) ==
  \E k \in 1..Len(steps) :
    Mutates(steps[k]) /\ \A i \in 1..Len(steps) : Mutates(steps[i]) => i = k

(* Joining a program without mutations in front adds none.                 *)
LEMMA NoneConcat ==
  ASSUME NEW s, NEW t, Covered(s), Covered(t), None(s)
  PROVE  /\ None(t) => None(s \o t)
         /\ Single(t) => Single(s \o t)
<1>1. PICK u : u = s \o t
  OBVIOUS
<1>2. /\ Len(s) \in Nat /\ Len(t) \in Nat /\ Len(u) = Len(s) + Len(t)
      /\ \A i \in 1..Len(s) : u[i] = s[i]
      /\ \A j \in 1..Len(t) : u[Len(s) + j] = t[j]
  BY <1>1, Concatenated DEF Covered
<1>3. ASSUME NEW i \in 1..Len(u), Mutates(u[i])
      PROVE  \E j \in 1..Len(t) : i = Len(s) + j /\ Mutates(t[j])
  <2>1. i \notin 1..Len(s)
    BY <1>2, <1>3 DEF None
  <2>2. i - Len(s) \in 1..Len(t) /\ i = Len(s) + (i - Len(s))
    BY <1>2, <1>3, <2>1
  <2>3. QED
    BY <1>2, <1>3, <2>2
<1>4. ASSUME None(t) PROVE None(u)
  BY <1>3, <1>4 DEF None
<1>5. ASSUME Single(t) PROVE Single(u)
  <2>1. PICK k \in 1..Len(t) : Mutates(t[k]) /\ \A i \in 1..Len(t) : Mutates(t[i]) => i = k
    BY <1>5 DEF Single
  <2>2. Len(s) + k \in 1..Len(u) /\ Mutates(u[Len(s) + k])
    BY <1>2, <2>1
  <2>3. \A i \in 1..Len(u) : Mutates(u[i]) => i = Len(s) + k
    BY <1>3, <2>1
  <2>4. QED
    BY <2>2, <2>3 DEF Single
<1>6. QED
  BY <1>1, <1>4, <1>5

(* Nor does one behind.                                                    *)
LEMMA SingleConcat ==
  ASSUME NEW s, NEW t, Covered(s), Covered(t), Single(s), None(t)
  PROVE  Single(s \o t)
<1>1. PICK u : u = s \o t
  OBVIOUS
<1>2. /\ Len(s) \in Nat /\ Len(t) \in Nat /\ Len(u) = Len(s) + Len(t)
      /\ \A i \in 1..Len(s) : u[i] = s[i]
      /\ \A j \in 1..Len(t) : u[Len(s) + j] = t[j]
  BY <1>1, Concatenated DEF Covered
<1>3. ASSUME NEW i \in 1..Len(u), Mutates(u[i])
      PROVE  i \in 1..Len(s) /\ Mutates(s[i])
  <2>1. CASE i \in 1..Len(s)
    BY <1>2, <1>3, <2>1
  <2>2. CASE i \notin 1..Len(s)
    <3>1. i - Len(s) \in 1..Len(t) /\ i = Len(s) + (i - Len(s))
      BY <1>2, <1>3, <2>2
    <3>2. QED
      BY <1>2, <1>3, <3>1 DEF None
  <2>3. QED
    BY <2>1, <2>2
<1>4. PICK k \in 1..Len(s) : Mutates(s[k]) /\ \A i \in 1..Len(s) : Mutates(s[i]) => i = k
  BY DEF Single
<1>5. k \in 1..Len(u) /\ Mutates(u[k])
  BY <1>2, <1>4
<1>6. QED
  BY <1>1, <1>3, <1>4, <1>5 DEF Single

(* An operation holds one mutation, or none.                               *)
LEMMA ProgramMutations ==
  ASSUME NEW op \in Operations
  PROVE  IF op \in Mutating THEN Single(Program(op)) ELSE None(Program(op))
<1>1. \A r \in Routes \ Mutations, b \in BOOLEAN : Covered(Request(r, b)) /\ None(Request(r, b))
  <2>1. ASSUME NEW r \in Routes \ Mutations, NEW b \in BOOLEAN PROVE None(Request(r, b))
    BY <2>1 DEF None, Request, Mutates
  <2>2. QED
    BY <2>1, CoveredRead
<1>2. \A do \in {"age", "authorize", "admit", "verified", "restrict", "fingerprint", "observed"} :
        Covered(Step(do)) /\ None(Step(do))
  <2>1. ASSUME NEW do, do # "request" PROVE None(Step(do))
    BY <2>1 DEF None, Step, Mutates
  <2>2. QED
    BY <2>1, CoveredStep
<1>3. \A s, t : Covered(s) /\ Covered(t) =>
        /\ Covered(s \o t)
        /\ None(s) /\ None(t) => None(s \o t)
        /\ None(s) /\ Single(t) => Single(s \o t)
        /\ Single(s) /\ None(t) => Single(s \o t)
  BY CoveredConcat, NoneConcat, SingleConcat
<1>4. Covered(IdentityReads) /\ None(IdentityReads)
  BY <1>1, <1>3 DEF IdentityReads, Routes, Mutations
<1>5. Covered(Verified) /\ None(Verified)
  <2> DEFINE reads == IdentityReads \o Step("verified")
  <2>1. Covered(reads) /\ None(reads)
    BY <1>2, <1>3, <1>4
  <2>2. Verified = Guarded(reads)
    BY DEF Verified
  <2> HIDE DEF reads
  <2>3. Len(reads) \in Nat /\ reads \in Seq(Tasks)
    BY <2>1 DEF Covered
  <2>4. Len(Guarded(reads)) = Len(reads)
    BY <2>3 DEF Guarded
  <2>5. ASSUME NEW i \in 1..Len(reads) PROVE ~Mutates(Guarded(reads)[i])
    <3>1. reads[i] \in Tasks /\ ~Mutates(reads[i])
      BY <2>1, <2>3, <2>5 DEF None
    <3>2. Guarded(reads)[i] = [reads[i] EXCEPT !.guarded = TRUE]
      BY DEF Guarded
    <3>3. QED
      BY <3>1, <3>2 DEF Tasks, Mutates
  <2>6. QED
    BY <2>2, <2>4, <2>5, CoveredVerification DEF None, Checked
<1>6. ASSUME NEW route \in Mutations PROVE Covered(Mutate(route)) /\ Single(Mutate(route))
  <2> DEFINE admit == [Step("admit")[1] EXCEPT !.route = route]
             request == Request(route, route # "orders")
  <2>1. admit \in Tasks /\ admit.do = "admit"
    <3>1. Step("admit")[1] \in Tasks /\ Step("admit")[1].do = "admit" /\ route \in Routes
      BY DEF Step, Tasks, Routes, Mutations
    <3>2. QED
      BY <3>1 DEF Tasks
  <2>2. request \in Seq(Tasks) /\ Single(request)
    BY DEF Request, Tasks, Routes, Mutations, Single, Mutates
  <2>3. Mutate(route) = (<<admit>> \o Verified) \o request
    BY DEF Mutate
  <2> HIDE DEF admit, request
  <2>4. Covered(<<admit>>) /\ None(<<admit>>)
    BY <2>1 DEF Covered, None, Mutates
  <2>5. Covered(<<admit>> \o Verified) /\ None(<<admit>> \o Verified)
    BY <1>3, <1>5, <2>4
  <2>6. PICK s, u : s = <<admit>> \o Verified /\ u = s \o request
    OBVIOUS
  <2>7. /\ Len(s) \in Nat /\ Len(request) \in Nat /\ Len(u) = Len(s) + Len(request)
        /\ \A i \in 1..Len(s) : u[i] = s[i]
        /\ \A j \in 1..Len(request) : u[Len(s) + j] = request[j]
    BY <2>2, <2>5, <2>6, Concatenated
  <2>8. PICK k \in 1..Len(request) :
          Mutates(request[k]) /\ \A i \in 1..Len(request) : Mutates(request[i]) => i = k
    BY <2>2 DEF Single
  <2>9. Len(s) + k \in 1..Len(u) /\ Mutates(u[Len(s) + k])
    BY <2>7, <2>8
  <2>10. ASSUME NEW i \in 1..Len(u), Mutates(u[i]) PROVE i = Len(s) + k
    <3>1. i \notin 1..Len(s)
      BY <2>5, <2>6, <2>7, <2>10 DEF None
    <3>2. i - Len(s) \in 1..Len(request) /\ i = Len(s) + (i - Len(s))
      BY <2>7, <2>10, <3>1
    <3>3. QED
      BY <2>7, <2>8, <2>10, <3>2
  <2>11. QED
    BY <2>3, <2>6, <2>9, <2>10, CoveredMutate DEF Single
<1>7. Covered(Authorize) /\ None(Authorize) /\ Covered(Owned) /\ None(Owned)
      /\ Covered(ObserveDemo) /\ None(ObserveDemo)
  BY <1>1, <1>2, <1>3, <1>4, <1>5 DEF Authorize, Owned, ObserveDemo, Routes, Mutations
<1> USE <1>1, <1>2, <1>3, <1>6, <1>7 DEF Routes, Mutations
<1>8. Single(EntrySteps)
  BY DEF EntrySteps
<1>9. Single(CloseSteps)
  BY DEF CloseSteps
<1>10. Single(CancelSteps)
  BY DEF CancelSteps
<1>11. Single(ProtectSteps)
  BY DEF ProtectSteps
<1>12. None(QuerySteps) /\ None(QueryCloseSteps)
  BY DEF QuerySteps, QueryCloseSteps
<1>13. None(PreflightSteps)
  BY DEF PreflightSteps
<1>14. QED
  BY <1>8, <1>9, <1>10, <1>11, <1>12, <1>13, TransportAssumption DEF Program, Mutating

(* While a call is open, either its one mutation is still to be answered   *)
(* and nothing landed, or it landed and was counted.  A lost mutation's    *)
(* call was answered with unknown and has not landed.                      *)
CountInv ==
  /\ mutation_attempts >= local.attempted
  /\ pc = "wait" /\ Mutates(Task) => mutation_attempts > local.attempted
CallInv ==
  IF Call.op \in Mutating
  THEN \/ Single(todo) /\ landed[Len(calls)] = 0
       \/ None(todo) /\ landed[Len(calls)] = 1 /\ mutation_attempts > local.attempted
  ELSE None(todo)
LandInv ==
  /\ Len(calls) <= MaxCalls
  /\ landed \in [1..MaxCalls -> Nat] /\ inflight \subseteq 1..Len(calls)
  /\ \A c \in 1..MaxCalls : c > Len(calls) => landed[c] = 0
  /\ \A c \in inflight : calls[c].answer = "unknown" /\ calls[c].op \in Mutating /\ landed[c] = 0
ContractInv == LandInv /\ (~Idle => CountInv /\ CallInv)

Told ==
  [c \in 1..MaxCalls |-> IF c <= Len(calls) /\ calls[c].op \in Mutating
                         THEN calls[c].answer ELSE "idle"]
ContractStep == [Contract!ContractNext]_<<Told, landed>>

(* What an answer may be, and what may land.                               *)
LEMMA ToldStep ==
  ASSUME NEW c \in 1..MaxCalls
  PROVE  /\ Told[c] = "idle" /\ Told' = [Told EXCEPT ![c] = "open"] /\ landed' = landed
            => ContractStep
         /\ Told[c] \in {"open", "unknown"} /\ landed[c] = 0 /\ landed' = [landed EXCEPT ![c] = 1]
              /\ Told' = Told
            => ContractStep
         /\ \A a \in {"accepted", "rejected", "unknown"} :
              Told[c] = "open" /\ (a = "accepted" => landed[c] = 1) /\ (a = "rejected" => landed[c] = 0)
                /\ Told' = [Told EXCEPT ![c] = a] /\ landed' = landed
              => ContractStep
  BY DEF ContractStep, Told, Contract!ContractNext, Contract!Begin, Contract!Lands, Contract!Answers

(* The call in progress, and what the adapter has told of it.              *)
LEMMA OpenCall ==
  ASSUME Types, LandInv, ~Idle
  PROVE  /\ Len(calls) \in 1..MaxCalls /\ Len(calls) \in 1..Len(calls) /\ calls \in Seq(AdapterCalls)
         /\ Call = calls[Len(calls)] /\ Call \in AdapterCalls /\ Call.answer = "open"
         /\ Len(calls) \notin inflight
         /\ Told[Len(calls)] = IF Call.op \in Mutating THEN "open" ELSE "idle"
<1>1. calls # <<>> /\ calls \in Seq(AdapterCalls) /\ calls[Len(calls)].answer = "open"
      /\ Len(calls) <= MaxCalls /\ MaxCalls \in Nat
  BY TransportAssumption DEF Types, CallTypes, Idle, LandInv, AdapterCalls
<1>2. Len(calls) \in 1..MaxCalls /\ Len(calls) \in 1..Len(calls)
  BY <1>1
<1>3. calls[Len(calls)] \in AdapterCalls
  BY <1>1, <1>2
<1>4. QED
  BY <1>1, <1>2, <1>3 DEF Call, LandInv, Told

(* The call ends with an answer the contract allows.                       *)
LEMMA AnsweredContract ==
  ASSUME Inv, ContractInv, ~Idle, NEW a \in {"accepted", "rejected", "unknown"}, Answered(a),
         UNCHANGED landed, UNCHANGED inflight \/ (a = "unknown" /\ Call.op \in Mutating
              /\ landed[Len(calls)] = 0 /\ inflight' = inflight \cup {Len(calls)}),
         Call.op \in Mutating /\ a = "accepted" => landed[Len(calls)] = 1,
         Call.op \in Mutating /\ a = "rejected" => landed[Len(calls)] = 0
  PROVE  ContractInv' /\ ContractStep
<1> DEFINE n == Len(calls)
           call == [calls[n] EXCEPT !.answer = a]
<1>1. /\ n \in 1..MaxCalls /\ n \in 1..Len(calls) /\ calls \in Seq(AdapterCalls)
      /\ Call = calls[n] /\ Call \in AdapterCalls /\ Call.answer = "open" /\ n \notin inflight
      /\ Told[n] = IF Call.op \in Mutating THEN "open" ELSE "idle"
  BY OpenCall DEF Inv, ContractInv
<1>2. calls' = [calls EXCEPT ![n] = call]
  BY DEF Answered
<1>3. call.op = Call.op /\ call.answer = a
  BY <1>1 DEF AdapterCalls
<1> HIDE DEF call
<1>4. /\ Len(calls') = Len(calls) /\ calls'[n] = call
      /\ \A c \in 1..Len(calls) : c # n => calls'[c] = calls[c]
  BY <1>1, <1>2
<1>5. Idle'
  <2>1. calls'[Len(calls')].answer = a
    BY <1>3, <1>4
  <2>2. QED
    BY <2>1 DEF Idle
<1>6. LandInv'
  <2>1. ASSUME NEW c \in inflight'
        PROVE  /\ c \in 1..Len(calls) /\ calls'[c].answer = "unknown"
               /\ calls'[c].op \in Mutating /\ landed[c] = 0
    <3>1. CASE c \in inflight
      BY <1>1, <1>4, <3>1 DEF ContractInv, LandInv
    <3>2. CASE c \notin inflight
      <4>1. c = n /\ a = "unknown" /\ Call.op \in Mutating /\ landed[n] = 0
        BY <2>1, <3>2
      <4>2. QED
        BY <1>1, <1>3, <1>4, <4>1
    <3>3. QED
      BY <3>1, <3>2
  <2>2. /\ Len(calls) <= MaxCalls /\ landed \in [1..MaxCalls -> Nat]
        /\ \A c \in 1..MaxCalls : c > Len(calls) => landed[c] = 0
    BY DEF ContractInv, LandInv
  <2>3. inflight' \subseteq 1..Len(calls)
    BY <2>1
  <2>4. QED
    BY <1>4, <2>1, <2>2, <2>3 DEF LandInv
<1>7. ContractStep
  <2>1. CASE Call.op \in Mutating
    <3>1. Told' = [Told EXCEPT ![n] = a]
      <4>1. Told'[n] = a
        BY <1>1, <1>3, <1>4, <2>1 DEF Told
      <4>2. ASSUME NEW c \in 1..MaxCalls, c # n PROVE Told'[c] = Told[c]
        BY <1>1, <1>4, <4>2 DEF Told
      <4>3. QED
        BY <4>1, <4>2 DEF Told
    <3>2. QED
      BY <1>1, <2>1, <3>1, ToldStep
  <2>2. CASE Call.op \notin Mutating
    <3>1. Told' = Told
      BY <1>1, <1>3, <1>4, <2>2 DEF Told
    <3>2. QED
      BY <3>1 DEF ContractStep
  <2>3. QED
    BY <2>1, <2>2
<1>8. QED
  BY <1>5, <1>6, <1>7 DEF ContractInv

(* A call that fails before its mutation was sent was rejected.            *)
LEMMA BlockedContract ==
  ASSUME Inv, ContractInv, ~Idle, NEW a \in DemoAuthorization, Fails(a), UNCHANGED <<landed, inflight>>
  PROVE  ContractInv' /\ ContractStep
<1>1. FailureAnswer \in {"rejected", "unknown"} /\ Answered(FailureAnswer)
  BY AnswerTypes DEF Inv, Fails
<1>2. Call.op \in Mutating /\ FailureAnswer = "rejected" => landed[Len(calls)] = 0
  BY DEF FailureAnswer, ContractInv, CallInv, Inv, Types, LeaseTypes, Locals
<1>3. QED
  BY <1>1, <1>2, AnsweredContract

(* A step that sends nothing and gets no answer to a mutation.             *)
LEMMA QuietContract ==
  ASSUME Inv, ContractInv, ~Idle, todo # <<>>, UNCHANGED <<calls, landed, inflight, mutation_attempts>>,
         local'.attempted = local.attempted, ~Mutates(Task),
         Proceed \/ (UNCHANGED todo /\ pc' # "wait")
  PROVE  ContractInv' /\ ContractStep
<1>1. ContractStep /\ LandInv' /\ ~Idle' /\ Call' = Call
  BY DEF ContractInv, LandInv, ContractStep, Told, Idle, Call
<1>2. CountInv'
  BY DEF ContractInv, CountInv, Proceed
<1>3. todo \in Seq(Tasks) /\ Len(todo) \in Nat
  BY DEF Inv, Types, CallTypes
<1>4. /\ None(todo) => None(todo')
      /\ Single(todo) => Single(todo')
  <2>1. CASE UNCHANGED todo
    BY <2>1
  <2>2. CASE Proceed
    <3>1. Len(todo') = Len(todo) - 1 /\ \A i \in 1..Len(todo') : todo'[i] = todo[i + 1]
      BY <1>3, <2>2 DEF Proceed
    <3>2. ASSUME None(todo) PROVE None(todo')
      <4>1. \A i \in 1..Len(todo') : i + 1 \in 1..Len(todo)
        BY <1>3, <3>1
      <4>2. QED
        BY <3>1, <3>2, <4>1 DEF None
    <3>3. ASSUME Single(todo) PROVE Single(todo')
      <4>1. PICK k \in 1..Len(todo) :
              Mutates(todo[k]) /\ \A i \in 1..Len(todo) : Mutates(todo[i]) => i = k
        BY <3>3 DEF Single
      <4>2. k # 1
        BY <4>1 DEF Task
      <4>3. k - 1 \in 1..Len(todo') /\ todo'[k - 1] = todo[(k - 1) + 1]
        BY <1>3, <3>1, <4>2
      <4>4. ASSUME NEW i \in 1..Len(todo'), Mutates(todo'[i]) PROVE i = k - 1
        <5>1. i + 1 \in 1..Len(todo) /\ todo'[i] = todo[i + 1]
          BY <1>3, <3>1
        <5>2. i + 1 = k
          BY <4>1, <4>4, <5>1
        <5>3. QED
          BY <5>2
      <4>5. QED
        BY <4>1, <4>3, <4>4 DEF Single
    <3>4. QED
      BY <3>2, <3>3
  <2>3. QED
    BY <2>1, <2>2
<1>5. CallInv'
  BY <1>1, <1>4 DEF ContractInv, CallInv
<1>6. QED
  BY <1>1, <1>2, <1>5 DEF ContractInv

(* A new call is told nothing yet and has nothing landed.                  *)
LEMMA StartContract ==
  ASSUME Inv, ContractInv, NEW op \in Operations, Start(op)
  PROVE  ContractInv' /\ ContractStep
<1> DEFINE n == Len(calls) + 1
           call == [op |-> op, answer |-> "open"]
<1>1. /\ Idle /\ calls \in Seq(AdapterCalls) /\ Len(calls) \in Nat /\ Len(calls) < MaxCalls
      /\ pc' = "run" /\ calls' = Append(calls, call) /\ todo' = Program(op)
      /\ UNCHANGED <<landed, inflight, mutation_attempts>>
  BY DEF Start, Inv, Types, CallTypes, netVars, brokerVars
<1>2. call.op = op /\ call.answer = "open"
  OBVIOUS
<1> HIDE DEF call
<1>3. /\ Len(calls') = n /\ calls'[n] = call /\ n \in 1..MaxCalls
      /\ \A c \in 1..Len(calls) : calls'[c] = calls[c]
  BY <1>1, TransportAssumption
<1>4. LandInv'
  <2>1. \A c \in inflight : c \in 1..n /\ calls'[c] = calls[c]
    BY <1>1, <1>3 DEF ContractInv, LandInv
  <2>2. \A c \in 1..MaxCalls : c > n => c > Len(calls)
    BY <1>1
  <2>3. QED
    BY <1>1, <1>3, <2>1, <2>2 DEF ContractInv, LandInv
<1>5. CountInv'
  <2>1. local'.attempted = mutation_attempts
    BY DEF Start, NoLocal
  <2>2. QED
    BY <1>1, <2>1 DEF CountInv, Inv, Types, LeaseTypes
<1>6. CallInv'
  <2>1. Call' = call /\ landed[n] = 0
    BY <1>1, <1>3 DEF Call, ContractInv, LandInv
  <2>2. QED
    BY <1>1, <1>2, <1>3, <2>1, ProgramMutations DEF CallInv
<1>7. ContractStep
  <2>1. \A c \in 1..MaxCalls : c # n => Told'[c] = Told[c]
    BY <1>1, <1>3 DEF Told
  <2>2. CASE op \in Mutating
    <3>1. Told[n] = "idle" /\ Told'[n] = "open"
      BY <1>1, <1>2, <1>3, <2>2 DEF Told
    <3>2. Told' = [Told EXCEPT ![n] = "open"]
      BY <1>3, <2>1, <3>1 DEF Told
    <3>3. QED
      BY <1>1, <1>3, <3>1, <3>2, ToldStep
  <2>3. CASE op \notin Mutating
    <3>1. Told[n] = "idle" /\ Told'[n] = "idle"
      BY <1>1, <1>2, <1>3, <2>3 DEF Told
    <3>2. Told' = Told
      BY <1>3, <2>1, <3>1 DEF Told
    <3>3. QED
      BY <1>1, <3>2 DEF ContractStep
  <2>4. QED
    BY <2>2, <2>3
<1>8. QED
  BY <1>4, <1>5, <1>6, <1>7 DEF ContractInv

(* What a mutation's answer does.                                          *)
LEMMA MutationContracts ==
  ASSUME Inv, ContractInv, MutationAccepted \/ MutationLost
  PROVE  ContractInv' /\ ContractStep
<1> DEFINE n == Len(calls)
<1>1. /\ ~Idle /\ pc = "wait" /\ todo # <<>> /\ Mutates(Task) /\ todo \in Seq(Tasks)
      /\ UNCHANGED mutation_attempts
  BY DEF MutationAccepted, MutationLost, AnswerDue, Inv, Types, CallTypes, Mutates, IsMutation, netVars
<1>2. ~None(todo)
  <2>1. 1 \in 1..Len(todo)
    BY <1>1
  <2>2. QED
    BY <1>1, <2>1 DEF None, Task
<1>3. Call.op \in Mutating /\ Single(todo) /\ landed[n] = 0 /\ mutation_attempts > local.attempted
  BY <1>1, <1>2 DEF ContractInv, CallInv, CountInv
<1>4. /\ n \in 1..MaxCalls /\ n \in 1..Len(calls) /\ Call.answer = "open" /\ n \notin inflight
      /\ Told[n] = "open"
  BY <1>1, <1>3, OpenCall DEF Inv, ContractInv
<1>5. CASE MutationAccepted
  <2>1. /\ Proceed /\ UNCHANGED <<local, inflight, calls>> /\ landed' = [landed EXCEPT ![n] = 1]
    BY <1>3, <1>5 DEF MutationAccepted, Proceed, ContractInv, LandInv
  <2>2. landed'[n] = 1 /\ \A c \in 1..MaxCalls : c # n => landed'[c] = landed[c]
    BY <1>4, <2>1 DEF ContractInv, LandInv
  <2>3. LandInv'
    <3>1. landed' \in [1..MaxCalls -> Nat]
      BY <2>1 DEF ContractInv, LandInv
    <3>2. \A c \in 1..MaxCalls : c > Len(calls) => landed'[c] = 0
      BY <1>4, <2>2 DEF ContractInv, LandInv
    <3>3. ASSUME NEW c \in inflight PROVE landed'[c] = 0
      <4>1. c \in 1..MaxCalls /\ c # n
        <5>1. c \in 1..n /\ n \in Nat /\ MaxCalls \in Nat /\ n <= MaxCalls
          BY <1>4, TransportAssumption DEF ContractInv, LandInv
        <5>2. QED
          BY <1>4, <5>1
      <4>2. QED
        BY <2>2, <4>1 DEF ContractInv, LandInv
    <3>4. QED
      BY <2>1, <3>1, <3>2, <3>3 DEF ContractInv, LandInv
  <2>4. None(todo')
    <3>1. PICK k \in 1..Len(todo) : Mutates(todo[k]) /\ \A i \in 1..Len(todo) : Mutates(todo[i]) => i = k
      BY <1>3 DEF Single
    <3>2. k = 1 /\ Len(todo) \in Nat
      BY <1>1, <3>1 DEF Task
    <3>3. Len(todo') = Len(todo) - 1 /\ \A i \in 1..Len(todo') : todo'[i] = todo[i + 1]
      BY <1>1, <2>1 DEF Proceed
    <3>4. \A i \in 1..Len(todo') : i + 1 \in 1..Len(todo) /\ i + 1 # 1
      BY <3>2, <3>3
    <3>5. QED
      BY <3>1, <3>2, <3>3, <3>4 DEF None
  <2>5. ContractStep
    <3>1. Told' = Told
      BY <2>1 DEF Told
    <3>2. QED
      BY <1>3, <1>4, <2>1, <3>1, ToldStep
  <2>6. ~Idle' /\ Call' = Call /\ pc' = "run"
    BY <1>1, <2>1 DEF Idle, Call, Proceed
  <2>7. CountInv' /\ CallInv'
    BY <1>1, <1>3, <2>1, <2>2, <2>4, <2>6 DEF CountInv, CallInv, ContractInv
  <2>8. QED
    BY <2>3, <2>5, <2>7 DEF ContractInv
<1>6. CASE MutationLost
  <2>1. FailureAnswer = "unknown"
    BY <1>3 DEF FailureAnswer, Inv, Types, LeaseTypes, Locals
  <2>2. Answered("unknown") /\ UNCHANGED landed /\ inflight' = inflight \cup {n}
    BY <1>6, <2>1 DEF MutationLost, Blocked, Fails
  <2>3. QED
    BY <1>1, <1>3, <2>2, AnsweredContract
<1>7. QED
  BY <1>5, <1>6

(* Every step is a step of the contract, or a stutter.                     *)
LEMMA NextContract ==
  ASSUME Inv, ContractInv, [Next]_vars
  PROVE  ContractInv' /\ ContractStep
<1>1. ASSUME UNCHANGED <<calls, todo, pc, local, landed, inflight, mutation_attempts>>
      PROVE  ContractInv' /\ ContractStep
  BY <1>1 DEF ContractInv, LandInv, ContractStep, Told, Idle, Call, CountInv, CallInv, Task
<1>2. ASSUME NEW op \in Operations, Start(op) PROVE ContractInv' /\ ContractStep
  BY <1>2, StartContract
<1>3. CASE Arm \/ Tick \/ Replace \/ OperatorPauses \/ UNCHANGED vars
  BY <1>1, <1>3 DEF Arm, Tick, Replace, OperatorPauses, vars, netVars, callVars, brokerVars
<1>4. CASE LocalStep
  <2>1. UNCHANGED <<landed, inflight, mutation_attempts>>
    BY <1>4 DEF LocalStep, netVars, brokerVars
  <2>2. ~Idle /\ todo # <<>> /\ ~Mutates(Task)
    BY <1>4 DEF LocalStep, Signal, BeginVerification, EndVerification, RestrictToPreflight,
           ReadFingerprint,
       Observed, RunsTask, Mutates
  <2>3. ASSUME Proceed, local'.attempted = local.attempted PROVE ContractInv' /\ ContractStep
    BY <2>1, <2>2, <2>3, QuietContract DEF Proceed
  <2>4. ASSUME NEW a \in DemoAuthorization, Fails(a) PROVE ContractInv' /\ ContractStep
    BY <2>1, <2>2, <2>4, BlockedContract
  <2>5. authorization \in DemoAuthorization /\ local \in Locals
    BY DEF Inv, Types, LeaseTypes
  <2>6. CASE Blocked
    BY <2>4, <2>5, <2>6 DEF Blocked
  <2>7. CASE BeginVerification
    <3>1. CASE Check
      <4> DEFINE permit == IF Task.do = "authorize" THEN Permit(authorization, PurposeOf(Call.op))
                           ELSE local.permit
                 a == AfterCheck(authorization, permit, binding)
      <4>1. a \in DemoAuthorization
        BY <2>5, LeaseOperators
      <4>2. Fails(a) \/ (Proceed /\ local' = [local EXCEPT !.permit = permit, !.bound = binding,
                                                          !.credential = binding.credential])
        BY <3>1 DEF Check
      <4> HIDE DEF permit, a
      <4>3. QED
        BY <2>3, <2>4, <2>5, <4>1, <4>2 DEF Locals
    <3>2. QED
      BY <2>6, <2>7, <3>1 DEF BeginVerification
  <2>8. CASE ReadFingerprint
    <3>1. Proceed /\ local'.attempted = local.attempted
      BY <2>5, <2>8 DEF ReadFingerprint, Locals
    <3>2. QED
      BY <2>3, <3>1
  <2>9. QED
    BY <1>4, <2>3, <2>6, <2>7, <2>8 DEF LocalStep, Signal, EndVerification, RestrictToPreflight, Observed
<1>5. CASE Return
  <2>1. ~Idle /\ Answered("accepted") /\ todo = <<>> /\ UNCHANGED <<landed, inflight>>
    BY <1>5 DEF Return, brokerVars
  <2>2. ~Single(todo)
    BY <2>1 DEF Single
  <2>3. Call.op \in Mutating => landed[Len(calls)] = 1
    BY <2>1, <2>2 DEF ContractInv, CallInv
  <2>4. QED
    BY <2>1, <2>3, AnsweredContract
<1>6. CASE Send
  <2>1. /\ ~Idle /\ todo # <<>> /\ Task.do = "request"
        /\ UNCHANGED <<calls, todo, local, landed, inflight>>
        /\ mutation_attempts' = IF Mutates(Task) THEN mutation_attempts + 1 ELSE mutation_attempts
    BY <1>6 DEF Send, RunsTask, brokerVars, CountAttempt, Mutates, IsMutation
  <2>2. mutation_attempts \in Nat /\ local.attempted \in Nat /\ mutation_attempts >= local.attempted
    BY <2>1 DEF Inv, Types, LeaseTypes, Locals, ContractInv, CountInv
  <2>3. ContractStep /\ LandInv' /\ ~Idle' /\ Call' = Call
    BY <2>1 DEF ContractInv, LandInv, ContractStep, Told, Idle, Call
  <2>4. CountInv'
    BY <2>1, <2>2 DEF CountInv, Task
  <2>5. CallInv'
    BY <2>1, <2>2, <2>3 DEF ContractInv, CallInv
  <2>6. QED
    BY <2>3, <2>4, <2>5 DEF ContractInv
<1>7. ASSUME ~Idle, Blocked, UNCHANGED <<landed, inflight>> PROVE ContractInv' /\ ContractStep
  BY <1>7, BlockedContract DEF Blocked, Inv, Types, LeaseTypes
<1>8. CASE NotSent
  BY <1>7, <1>8 DEF NotSent, RunsTask, brokerVars
<1>9. CASE Wake
  <2>1. /\ ~Idle /\ pc = "sleep" /\ todo # <<>> /\ ~Mutates(Task) /\ pc' = "run"
        /\ UNCHANGED <<calls, todo, local, landed, inflight, mutation_attempts>>
    BY <1>9 DEF Wake, netVars, brokerVars, Inv, Types, CallTypes, OrderInv
  <2>2. QED
    BY <2>1, QuietContract
<1>10. ASSUME ~Idle, pc = "wait", ~IsMutation(Task.route),
              UNCHANGED <<landed, inflight, mutation_attempts>>,
              \/ Proceed /\ local'.attempted = local.attempted
              \/ \E delay \in Delays \cup {0} : Sleeps(delay)
       PROVE  ContractInv' /\ ContractStep
  <2>1. todo # <<>> /\ ~Mutates(Task)
    BY <1>10 DEF Inv, Types, CallTypes, Mutates, IsMutation
  <2>2. CASE Proceed /\ local'.attempted = local.attempted
    BY <1>10, <2>1, <2>2, QuietContract DEF Proceed
  <2>3. ASSUME NEW delay, Sleeps(delay) PROVE ContractInv' /\ ContractStep
    BY <1>10, <2>1, <2>3, QuietContract DEF Sleeps
  <2>4. QED
    BY <1>10, <2>2, <2>3
<1>11. CASE ReadAnswered
  <2>1. /\ ~Idle /\ pc = "wait" /\ ~IsMutation(Task.route)
        /\ UNCHANGED <<landed, inflight, mutation_attempts>>
    BY <1>11 DEF ReadAnswered, AnswerDue, netVars, brokerVars
  <2>2. Blocked \/ (Proceed /\ local'.attempted = local.attempted)
    <3>1. CASE IdentityAnswered
      BY <3>1 DEF IdentityAnswered, Inv, Types, LeaseTypes, Locals
    <3>2. QED
      BY <1>11, <3>1 DEF ReadAnswered, PortfolioAnswered
  <2>3. QED
    BY <1>7, <1>10, <2>1, <2>2
<1>12. CASE ReadRefused \/ MutationRefused
  BY <1>7, <1>12 DEF ReadRefused, MutationRefused, AnswerDue, brokerVars
<1>13. CASE ReadUnavailable
  BY <1>7, <1>10, <1>13 DEF ReadUnavailable, AnswerDue, netVars, brokerVars
<1>14. CASE RateLimited
  BY <1>7, <1>10, <1>14 DEF RateLimited, AnswerDue, Retries, brokerVars
<1>15. CASE MutationAccepted \/ MutationLost
  BY <1>15, MutationContracts
<1>16. CASE LateLanding
  <2>1. PICK c \in inflight :
          /\ landed' = [landed EXCEPT ![c] = @ + 1] /\ inflight' = inflight \ {c}
          /\ UNCHANGED <<calls, todo, pc, local, mutation_attempts>>
    BY <1>16 DEF LateLanding, netVars, callVars
  <2>2. /\ c \in 1..MaxCalls /\ c \in 1..Len(calls) /\ landed[c] = 0
        /\ calls[c].answer = "unknown" /\ calls[c].op \in Mutating
        /\ Told[c] = "unknown" /\ Told' = Told
    <3>1. Len(calls) \in Nat /\ MaxCalls \in Nat /\ Len(calls) <= MaxCalls
      BY TransportAssumption DEF Inv, Types, CallTypes, ContractInv, LandInv
    <3>2. c \in 1..Len(calls) /\ c \in 1..MaxCalls
      BY <3>1 DEF ContractInv, LandInv
    <3>3. QED
      BY <2>1, <3>1, <3>2 DEF ContractInv, LandInv, Told
  <2>3. landed' = [landed EXCEPT ![c] = 1]
    BY <2>1, <2>2
  <2>4. ContractStep
    BY <2>2, <2>3, ToldStep
  <2>5. \A d \in 1..MaxCalls : d # c => landed'[d] = landed[d]
    BY <2>3 DEF ContractInv, LandInv
  <2>6. LandInv'
    <3>1. landed' \in [1..MaxCalls -> Nat]
      BY <2>3 DEF ContractInv, LandInv
    <3>2. \A d \in 1..MaxCalls : d > Len(calls) => landed'[d] = 0
      <4>1. Len(calls) \in Nat
        BY DEF Inv, Types, CallTypes
      <4>2. QED
        BY <2>2, <2>5, <4>1 DEF ContractInv, LandInv
    <3>3. \A d \in inflight' : landed'[d] = 0
      <4>1. Len(calls) \in Nat /\ MaxCalls \in Nat /\ Len(calls) <= MaxCalls
        BY TransportAssumption DEF Inv, Types, CallTypes, ContractInv, LandInv
      <4>2. \A d \in inflight' : d \in inflight /\ d # c /\ d \in 1..MaxCalls
        BY <2>1, <4>1 DEF ContractInv, LandInv
      <4>3. QED
        BY <2>5, <4>2 DEF ContractInv, LandInv
    <3>4. QED
      BY <2>1, <3>1, <3>2, <3>3 DEF ContractInv, LandInv
  <2>7. ASSUME ~Idle' PROVE CountInv' /\ CallInv'
    <3>1. ~Idle /\ Call' = Call
      BY <2>1, <2>7 DEF Idle, Call
    <3>2. Len(calls) \in 1..MaxCalls /\ Len(calls) # c
      BY <2>2, <3>1, OpenCall DEF Inv, ContractInv
    <3>3. landed'[Len(calls)] = landed[Len(calls)]
      BY <2>5, <3>2
    <3>4. QED
      BY <2>1, <3>1, <3>3 DEF ContractInv, CountInv, CallInv, Task
  <2>8. QED
    BY <2>4, <2>6, <2>7 DEF ContractInv
<1>17. QED
  BY <1>2, <1>3, <1>4, <1>5, <1>6, <1>8, <1>9, <1>11, <1>12, <1>13, <1>14, <1>15, <1>16 DEF Next

(* ContractSpec: the adapter over it implements MutationContract:          *)
(* whatever is retried, refused, lost or lands late, a call changes the    *)
(* broker at most once, an accepted one did, and one rejected before       *)
(* sending never does (etoro_demo.py _classify_pre_send, transport.py      *)
(* request).                                                               *)
THEOREM ImplementsContract == Spec => ContractSpec
<1>1. Init => ContractInv /\ Contract!ContractInit
  BY TransportAssumption DEF Init, ContractInv, LandInv, Idle, Contract!ContractInit
<1>2. Inv /\ ContractInv /\ [Next]_vars => Inv' /\ ContractInv' /\ ContractStep
  BY NextInv, NextContract
<1>3. ContractStep => [Contract!ContractNext]_(Contract!contractVars)
  BY DEF ContractStep, Told, Contract!contractVars
<1>4. QED
  BY InitInv, <1>1, <1>2, <1>3, PTL DEF Spec, ContractSpec, Contract!ContractSpec

-----------------------------------------------------------------------------
(* The bounds of the clock, the calls, the faults and the attempts: a retry*)
(* sleeps only while an attempt is left.                                   *)
Bounds ==
  /\ now <= Horizon /\ faults \in 0..MaxFaults /\ Len(calls) <= MaxCalls
  /\ attempt \in 1..Attempts /\ (pc = "sleep" => attempt < Attempts)
Uses == quota.uses \in [Pools -> Seq(0..Horizon)] /\ mutation_attempts <= Len(traffic)

(* What an answer does to the bounds.                                      *)
LEMMA AnswerBounds ==
  ASSUME Inv, Bounds, ~Idle, now' = now, Fault \/ Outage \/ UNCHANGED faults,
         \/ Proceed
         \/ \E a \in {"accepted", "rejected", "unknown"} : Answered(a)
         \/ UNCHANGED <<calls, attempt>> /\ (pc' = "sleep" => attempt < Attempts)
  PROVE  Bounds'
<1>1. calls \in Seq(AdapterCalls) /\ now \in Nat
  BY DEF Inv, Types, CallTypes, LeaseTypes
<1>2. faults' \in 0..MaxFaults
  BY TransportAssumption DEF Bounds, Fault, Outage
<1>3. Len(calls') = Len(calls)
  BY <1>1 DEF Proceed, Answered
<1>4. attempt' \in 1..Attempts /\ (pc' = "sleep" => attempt' < Attempts)
  BY TransportAssumption DEF Bounds, Proceed, Answered
<1>5. QED
  BY <1>1, <1>2, <1>3, <1>4 DEF Bounds

(* Every step keeps them.                                                  *)
LEMMA NextBounds ==
  ASSUME Inv, Bounds, [Next]_vars
  PROVE  Bounds'
<1>1. CASE LocalStep
  <2>1. ~Idle /\ now' = now /\ UNCHANGED faults
    BY <1>1 DEF LocalStep, Signal, BeginVerification, EndVerification, RestrictToPreflight,
       ReadFingerprint, Observed, RunsTask
  <2>2. Proceed \/ \E a : Fails(a)
    BY <1>1 DEF LocalStep, Signal, BeginVerification, Check, EndVerification, RestrictToPreflight,
       ReadFingerprint, Observed, Blocked
  <2>3. Proceed \/ \E a \in {"accepted", "rejected", "unknown"} : Answered(a)
    BY <2>1, <2>2, AnswerTypes DEF Fails, Inv
  <2>4. QED
    BY <2>1, <2>3, AnswerBounds
<1>2. CASE ReadAnswered \/ ReadRefused \/ ReadUnavailable \/ RateLimited \/ MutationAccepted
             \/ MutationRefused \/ MutationLost
  <2>1. ~Idle /\ now' = now /\ (Fault \/ Outage \/ UNCHANGED faults)
    BY <1>2 DEF ReadAnswered, IdentityAnswered, PortfolioAnswered, ReadRefused, ReadUnavailable,
       RateLimited, MutationAccepted, MutationRefused, MutationLost, AnswerDue
  <2>2. \/ Proceed \/ Blocked
        \/ UNCHANGED <<calls, attempt>> /\ (pc' = "sleep" => attempt < Attempts)
    BY <1>2 DEF ReadAnswered, IdentityAnswered, PortfolioAnswered, ReadRefused, ReadUnavailable,
       RateLimited, MutationAccepted, MutationRefused, MutationLost, Sleeps, Retries
  <2>3. Blocked => \E a \in {"accepted", "rejected", "unknown"} : Answered(a)
    BY <2>1, AnswerTypes DEF Blocked, Fails, Inv
  <2>4. QED
    BY <2>1, <2>2, <2>3, AnswerBounds
<1>3. CASE NotSent
  <2>1. ~Idle /\ now' = now /\ UNCHANGED faults /\ Blocked
    BY <1>3 DEF NotSent, RunsTask
  <2>2. \E a \in {"accepted", "rejected", "unknown"} : Answered(a)
    BY <2>1, AnswerTypes DEF Blocked, Fails, Inv
  <2>3. QED
    BY <2>1, <2>2, AnswerBounds
<1>4. CASE Return
  BY <1>4, AnswerBounds DEF Return
<1>5. ASSUME NEW op \in Operations, Start(op) PROVE Bounds'
  <2>1. calls \in Seq(AdapterCalls) /\ Len(calls) < MaxCalls
        /\ calls' = Append(calls, [op |-> op, answer |-> "open"])
        /\ UNCHANGED <<now, faults, attempt, pc>>
    BY <1>5 DEF Start, Inv, Types, CallTypes
  <2>2. Len(calls') = Len(calls) + 1 /\ Len(calls) \in Nat /\ MaxCalls \in Nat
    BY <2>1, TransportAssumption
  <2>3. QED
    BY <2>1, <2>2 DEF Bounds
<1>6. CASE Send
  BY <1>6 DEF Send, Bounds
<1>7. CASE Wake
  BY <1>7, TransportAssumption DEF Wake, Bounds
<1>8. CASE Tick
  BY <1>8, TransportAssumption DEF Tick, callVars, Bounds, Inv, Types, LeaseTypes
<1>9. CASE Arm \/ LateLanding \/ UNCHANGED vars
  BY <1>9 DEF Arm, LateLanding, vars, callVars, Bounds
<1>10. CASE Replace \/ OperatorPauses
  BY <1>10, TransportAssumption DEF Replace, OperatorPauses, Fault, callVars, Bounds
<1>11. QED
  BY <1>1, <1>2, <1>3, <1>4, <1>5, <1>6, <1>7, <1>8, <1>9, <1>10 DEF Next

(* A mutation is counted when its request is.                              *)
LEMMA NextUses ==
  ASSUME Inv, RetryInv, Bounds, Uses, [Next]_vars
  PROVE  Uses'
<1>1. CASE Send
  <2>1. now \in 0..Horizon /\ mutation_attempts \in Nat /\ traffic \in Seq(Sent)
    BY TransportAssumption DEF Inv, Types, LeaseTypes, Bounds, RetryInv
  <2>2. \A p \in Pools : quota.uses[p] \in Seq(0..Horizon)
                          /\ Append(quota.uses[p], now) \in Seq(0..Horizon)
    BY <2>1 DEF Uses
  <2>3. quota'.uses \in [Pools -> Seq(0..Horizon)]
    BY <1>1, <2>2 DEF Send, Take, RetryInv
  <2>4. Len(traffic') = Len(traffic) + 1 /\ Len(traffic) \in Nat
    BY <1>1, <2>1 DEF Send
  <2>5. mutation_attempts' <= mutation_attempts + 1
    BY <1>1, <2>1 DEF Send, CountAttempt
  <2>6. mutation_attempts' \in Nat
    BY <1>1, <2>1 DEF Send, CountAttempt
  <2>7. QED
    BY <2>1, <2>3, <2>4, <2>5, <2>6 DEF Uses
<1>2. CASE RateLimited
  <2>1. quota'.uses = quota.uses
    BY <1>2 DEF RateLimited, Limited, RetryInv
  <2>2. Len(traffic') = Len(traffic) /\ mutation_attempts' = mutation_attempts
    BY <1>2 DEF RateLimited, RetryInv
  <2>3. QED
    BY <2>1, <2>2 DEF Uses
<1>3. CASE NoTraffic
  BY <1>3 DEF NoTraffic, Uses
<1>4. QED
  BY <1>1, <1>2, <1>3, TrafficSteps

(* TransportTypeOK: every part of the transport keeps its type and bound,  *)
(* and a call that waits or sleeps has a request to send again.            *)
THEOREM TransportTypes == Spec => []TransportTypeOK
<1> DEFINE Kept == Inv /\ RetryInv /\ Bounds /\ Uses
<1>1. Init => Kept
  <2> SUFFICES ASSUME Init PROVE Bounds /\ Uses
    BY InitInv, InitRetry
  <2>1. Bounds
    BY TransportAssumption DEF Init, Bounds
  <2>2. Uses
    BY DEF Init, Uses, NewBudget
  <2>3. QED
    BY <2>1, <2>2
<1>2. Kept /\ [Next]_vars => Kept'
  BY NextInv, NextRetry, NextBounds, NextUses
<1>3. Kept => TransportTypeOK
  <2> SUFFICES ASSUME Kept PROVE TransportTypeOK
    OBVIOUS
  <2>1. /\ now \in 0..Horizon /\ faults \in 0..MaxFaults
        /\ mutation_attempts \in 0..Len(traffic) /\ quota.blocked_until \in Nat
    BY TransportAssumption DEF Inv, Types, LeaseTypes, RetryInv, Bounds, Uses
  <2>2. pc # "run" => ~Idle /\ todo # <<>> /\ Task.do = "request"
    BY DEF Inv, Types, CallTypes
  <2>3. QED
    BY <2>1, <2>2 DEF TransportTypeOK, Inv, Types, LeaseTypes, CallTypes, Bounds, Uses
<1>4. QED
  BY <1>1, <1>2, <1>3, PTL DEF Spec

-----------------------------------------------------------------------------
(* The budget counts what was sent: in each window, as many uses of a pool *)
(* as requests.                                                            *)
Counted(t, p) == Cardinality(SentSince(t, p)) = Cardinality(Recent(quota.uses[p], t))

QuotaInv ==
  /\ quota.uses \in [Pools -> Seq(Nat)]
  /\ \A p \in Pools, t \in Nat : Counted(t, p)
  /\ QuotaPerWindow

(* Some answer asked for the wait the budget keeps to.                     *)
MarkInv ==
  /\ pc = "wait" => traffic[Len(traffic)].notBefore = 0
  /\ quota.blocked_until = 0
       \/ \E j \in 1..Len(traffic) : traffic[j].notBefore = quota.blocked_until

(* What was sent is finite.                                                *)
LEMMA SentIsFinite ==
  ASSUME traffic \in Seq(Sent), NEW t, NEW p
  PROVE  /\ SentSince(t, p) \subseteq 1..Len(traffic)
         /\ IsFiniteSet(SentSince(t, p)) /\ Cardinality(SentSince(t, p)) \in Nat
<1>1. SentSince(t, p) \subseteq 1..Len(traffic) /\ Len(traffic) \in Nat
  BY DEF SentSince
<1>2. IsFiniteSet(1..Len(traffic))
  BY <1>1, FS_Interval
<1>3. IsFiniteSet(SentSince(t, p))
  BY <1>1, <1>2, FS_Subset
<1>4. QED
  BY <1>1, <1>3, FS_CardinalityType

(* What is counted is finite.                                              *)
LEMMA RecentIsFinite ==
  ASSUME NEW uses \in Seq(Nat), NEW t
  PROVE  /\ Recent(uses, t) \subseteq 1..Len(uses)
         /\ IsFiniteSet(Recent(uses, t)) /\ Cardinality(Recent(uses, t)) \in Nat
<1>1. Recent(uses, t) \subseteq 1..Len(uses) /\ Len(uses) \in Nat
  BY DEF Recent
<1>2. IsFiniteSet(1..Len(uses))
  BY <1>1, FS_Interval
<1>3. IsFiniteSet(Recent(uses, t))
  BY <1>1, <1>2, FS_Subset
<1>4. QED
  BY <1>1, <1>3, FS_CardinalityType

(* One more use of a pool is one more in every window that reaches it.     *)
LEMMA OneMoreUse ==
  ASSUME NEW uses \in Seq(Nat), NEW at \in Nat, NEW t \in Nat
  PROVE  Cardinality(Recent(Append(uses, at), t))
           = IF at + Window > t THEN Cardinality(Recent(uses, t)) + 1
             ELSE Cardinality(Recent(uses, t))
<1> DEFINE n == Len(uses) + 1
           more == Append(uses, at)
<1>1. /\ Len(uses) \in Nat /\ DOMAIN uses = 1..Len(uses) /\ DOMAIN more = 1..n
      /\ more[n] = at /\ \A i \in 1..Len(uses) : more[i] = uses[i]
  OBVIOUS
<1>2. Recent(uses, t) \subseteq 1..Len(uses) /\ IsFiniteSet(Recent(uses, t))
  BY RecentIsFinite
<1>3. n \notin Recent(uses, t)
  BY <1>1, <1>2
<1> HIDE DEF more
<1>4. CASE at + Window > t
  <2>1. Recent(more, t) = Recent(uses, t) \cup {n}
    BY <1>1, <1>4 DEF Recent
  <2>2. QED
    BY <1>2, <1>3, <1>4, <2>1, FS_AddElement DEF more
<1>5. CASE ~(at + Window > t)
  <2>1. Recent(more, t) = Recent(uses, t)
    BY <1>1, <1>5 DEF Recent
  <2>2. QED
    BY <1>5, <2>1 DEF more
<1>6. QED
  BY <1>4, <1>5

(* What a request adds to the traffic and to the budget.                   *)
LEMMA SendSteps ==
  ASSUME Inv, RetryInv, Send
  PROVE  /\ now \in Nat /\ Task.route \in Routes /\ pc' = "wait"
         /\ MayTake(quota, Pool[Task.route], Priority, now)
         /\ quota' = Take(quota, Pool[Task.route], now)
         /\ Len(traffic) \in Nat /\ Len(traffic') = Len(traffic) + 1 /\ traffic' \in Seq(Sent)
         /\ \A i \in 1..Len(traffic) : traffic'[i] = traffic[i]
         /\ traffic'[Len(traffic) + 1] = [at |-> now, route |-> Task.route, notBefore |-> 0]
<1>1. todo # <<>> /\ todo \in Seq(Tasks) /\ now \in Nat
  BY DEF Send, RunsTask, Inv, Types, LeaseTypes, CallTypes
<1>2. Task \in Tasks
  BY <1>1 DEF Task
<1>3. Task.route \in Routes
  BY <1>2 DEF Tasks
<1> DEFINE sent == [at |-> now, route |-> Task.route, notBefore |-> 0]
<1>4. sent \in Sent
  BY <1>1, <1>3 DEF Sent
<1>5. traffic' = Append(traffic, sent) /\ traffic \in Seq(Sent)
  BY DEF Send, RetryInv
<1>6. /\ Len(traffic) \in Nat /\ Len(traffic') = Len(traffic) + 1 /\ traffic' \in Seq(Sent)
      /\ \A i \in 1..Len(traffic) : traffic'[i] = traffic[i]
      /\ traffic'[Len(traffic) + 1] = sent
  <2> HIDE DEF sent
  <2> QED
    BY <1>4, <1>5
<1>7. QED
  BY <1>1, <1>3, <1>6 DEF Send

(* One more request is one more in every window of its pools.              *)
LEMMA OneMoreSent ==
  ASSUME Inv, RetryInv, Send, NEW p \in Pools, NEW t \in Nat
  PROVE  Cardinality(SentSince(t, p)')
           = IF now + Window > t /\ p \in {All, Pool[Task.route]}
             THEN Cardinality(SentSince(t, p)) + 1 ELSE Cardinality(SentSince(t, p))
<1> DEFINE n == Len(traffic) + 1
           charged == now + Window > t /\ p \in {All, Pool[Task.route]}
<1>1. /\ Len(traffic) \in Nat /\ DOMAIN traffic = 1..Len(traffic) /\ DOMAIN traffic' = 1..n
      /\ \A i \in 1..Len(traffic) : traffic'[i] = traffic[i]
      /\ traffic'[n].at = now /\ traffic'[n].route = Task.route
  BY SendSteps DEF RetryInv
<1>2. SentSince(t, p) \subseteq 1..Len(traffic) /\ IsFiniteSet(SentSince(t, p))
  BY SentIsFinite DEF RetryInv
<1>3. n \notin SentSince(t, p)
  BY <1>1, <1>2
<1>4. CASE charged
  <2>1. SentSince(t, p)' = SentSince(t, p) \cup {n}
    BY <1>1, <1>4 DEF SentSince
  <2>2. QED
    BY <1>2, <1>3, <1>4, <2>1, FS_AddElement
<1>5. CASE ~charged
  <2>1. SentSince(t, p)' = SentSince(t, p)
    BY <1>1, <1>5 DEF SentSince
  <2>2. QED
    BY <1>5, <2>1
<1>6. QED
  BY <1>4, <1>5

(* The pool of a route is one of the budget's.                             *)
LEMMA PoolOfRoute ==
  ASSUME NEW route \in Routes
  PROVE  Pool[route] \in Pools
  BY TransportAssumption DEF Routes, Pool

(* A request is charged to its pools, which had room for it.               *)
LEMMA SendQuota ==
  ASSUME Inv, RetryInv, QuotaInv, Send
  PROVE  QuotaInv'
<1> DEFINE route == Task.route
           charged == {All, Pool[route]}
<1>1. /\ now \in Nat /\ charged \subseteq Pools
      /\ quota' = Take(quota, Pool[route], now)
  BY SendSteps, PoolOfRoute, QuotaAssumption
<1>2. /\ quota'.uses = [p \in Pools |-> IF p \in charged THEN Append(quota.uses[p], now)
                                        ELSE quota.uses[p]]
  BY <1>1 DEF Take, RetryInv
<1>3. quota'.uses \in [Pools -> Seq(Nat)]
  <2>1. \A p \in Pools : Append(quota.uses[p], now) \in Seq(Nat) /\ quota.uses[p] \in Seq(Nat)
    BY <1>1 DEF QuotaInv
  <2>2. QED
    BY <1>2, <2>1
<1>4. ASSUME NEW p \in Pools, NEW t \in Nat PROVE Counted(t, p)'
  <2>1. quota.uses[p] \in Seq(Nat) /\ Counted(t, p)
    BY DEF QuotaInv
  <2>2. Cardinality(Recent(quota'.uses[p], t))
          = IF now + Window > t /\ p \in charged THEN Cardinality(Recent(quota.uses[p], t)) + 1
            ELSE Cardinality(Recent(quota.uses[p], t))
    <3>1. CASE p \in charged
      BY <1>1, <1>2, <2>1, <3>1, OneMoreUse
    <3>2. CASE p \notin charged
      BY <1>2, <3>2
    <3>3. QED
      BY <3>1, <3>2
  <2>3. QED
    BY <2>1, <2>2, OneMoreSent DEF Counted
<1>5. QuotaPerWindow'
  <2> PICK at \in Nat : at = now
    BY <1>1
  <2>1. traffic'[Len(traffic')].at = at /\ traffic'[Len(traffic')].route = route
    BY SendSteps
  <2>2. ASSUME NEW p \in Pools, p \in charged
        PROVE  Cardinality(SentSince(at, p)') <= Quota[p]
    <3>1. Cardinality(SentSince(at, p)') = Cardinality(SentSince(at, p)) + 1
      BY <1>1, <2>2, OneMoreSent, QuotaAssumption
    <3>2. /\ Cardinality(SentSince(at, p)) = Cardinality(Recent(quota.uses[p], at))
          /\ Cardinality(SentSince(at, p)) \in Nat
      BY <1>1, SentIsFinite DEF QuotaInv, Counted, RetryInv
    <3>3. HasRoom(quota, p, Priority, now)
      BY <2>2, SendSteps DEF MayTake
    <3>4. Cardinality(Recent(quota.uses[p], at)) < Quota[p] /\ Quota[p] \in Nat
      BY <3>2, <3>3, QuotaAssumption DEF HasRoom
    <3>5. QED
      BY <3>1, <3>2, <3>4
  <2>3. \A p \in charged : Cardinality(SentSince(at, p)') <= Quota[p]
    BY <1>1, <2>1, <2>2
  <2>4. QED
    BY <2>1, <2>3 DEF QuotaPerWindow, Newest, SentSince
<1>6. QED
  BY <1>3, <1>4, <1>5 DEF QuotaInv

(* A 429 changes no use of the budget and no time of the traffic.          *)
LEMMA LimitedQuota ==
  ASSUME Inv, RetryInv, QuotaInv, RateLimited
  PROVE  QuotaInv'
<1>1. PICK delay \in Delays :
        /\ quota' = Limited(quota, now, delay)
        /\ traffic' = [traffic EXCEPT ![Len(traffic)].notBefore = now + delay]
  BY DEF RateLimited
<1>2. quota'.uses = quota.uses
  BY <1>1 DEF Limited, RetryInv
<1>3. /\ traffic # <<>> /\ Len(traffic) \in Nat /\ Len(traffic') = Len(traffic)
      /\ DOMAIN traffic' = DOMAIN traffic
      /\ \A j \in DOMAIN traffic :
           traffic'[j].at = traffic[j].at /\ traffic'[j].route = traffic[j].route
  <2>1. traffic # <<>> /\ traffic \in Seq(Sent)
    BY DEF RateLimited, AnswerDue, RetryInv
  <2>2. \A j \in DOMAIN traffic : traffic[j] \in Sent
    BY <2>1
  <2>3. \A j \in DOMAIN traffic :
           traffic'[j].at = traffic[j].at /\ traffic'[j].route = traffic[j].route
    BY <1>1, <2>2 DEF Sent
  <2>4. Len(traffic) \in Nat /\ Len(traffic') = Len(traffic) /\ DOMAIN traffic' = DOMAIN traffic
    BY <1>1, <2>1
  <2>5. QED
    BY <2>1, <2>3, <2>4
<1>4. \A p, t : SentSince(t, p)' = SentSince(t, p)
  BY <1>3 DEF SentSince
<1>5. Newest'.at = Newest.at /\ Newest'.route = Newest.route
  <2>1. Len(traffic) \in DOMAIN traffic
    BY <1>3 DEF RetryInv
  <2>2. QED
    BY <1>3, <2>1 DEF Newest
<1>6. QuotaPerWindow'
  <2> PICK at : at = Newest.at
    OBVIOUS
  <2>1. \A p \in {All, Pool[Newest.route]} : Cardinality(SentSince(at, p)) <= Quota[p]
    BY <1>3 DEF QuotaInv, QuotaPerWindow, SentSince
  <2>2. \A p \in {All, Pool[Newest.route]} : Cardinality(SentSince(at, p)') <= Quota[p]
    BY <1>4, <2>1
  <2>3. QED
    BY <1>5, <2>2 DEF QuotaPerWindow, SentSince
<1>7. \A p \in Pools, t \in Nat : Counted(t, p)'
  BY <1>2, <1>4 DEF QuotaInv, Counted
<1>8. QED
  BY <1>2, <1>6, <1>7 DEF QuotaInv

(* A new process has sent nothing.                                         *)
LEMMA InitQuota == Init => QuotaInv
<1> SUFFICES ASSUME Init PROVE QuotaInv
  OBVIOUS
<1>1. quota.uses = [p \in Pools |-> <<>>] /\ traffic = <<>>
  BY DEF Init, NewBudget
<1>2. \A p \in Pools, t \in Nat : SentSince(t, p) = {} /\ Recent(quota.uses[p], t) = {}
  BY <1>1 DEF SentSince, Recent
<1>3. \A p \in Pools, t \in Nat : Counted(t, p)
  BY <1>2 DEF Counted
<1>4. quota.uses \in [Pools -> Seq(Nat)] /\ QuotaPerWindow
  BY <1>1 DEF QuotaPerWindow
<1>5. QED
  BY <1>3, <1>4 DEF QuotaInv

(* Every step keeps the counts.                                            *)
LEMMA NextQuota ==
  ASSUME Inv, RetryInv, QuotaInv, [Next]_vars
  PROVE  QuotaInv'
<1>1. CASE Send
  BY <1>1, SendQuota
<1>2. CASE RateLimited
  BY <1>2, LimitedQuota
<1>3. CASE NoTraffic
  BY <1>3 DEF NoTraffic, QuotaInv, Counted, QuotaPerWindow, SentSince, Newest
<1>4. QED
  BY <1>1, <1>2, <1>3, TrafficSteps

(* QuotaPerWindow: no rolling window ever holds more requests of a pool    *)
(* than its quota, whatever is retried, refused or sent by other routes    *)
(* (transport.py QuotaBudget.take).                                        *)
THEOREM QuotaIsKept == Spec => []QuotaPerWindow
<1> DEFINE Kept == Inv /\ RetryInv /\ QuotaInv
<1>1. Init => Kept
  BY InitInv, InitRetry, InitQuota
<1>2. Kept /\ [Next]_vars => Kept'
  BY NextInv, NextRetry, NextQuota
<1>3. Kept => QuotaPerWindow
  BY DEF QuotaInv
<1>4. QED
  BY <1>1, <1>2, <1>3, PTL DEF Spec

-----------------------------------------------------------------------------
(* A step keeps the reason of the mark: a 429 answers a request that was   *)
(* not answered before.                                                    *)
LEMMA NextMark ==
  ASSUME Inv, RetryInv, MarkInv, [Next]_vars
  PROVE  MarkInv'
<1>1. CASE Send
  <2>1. /\ Len(traffic') = Len(traffic) + 1 /\ Len(traffic) \in Nat
        /\ \A i \in 1..Len(traffic) : traffic'[i] = traffic[i]
        /\ traffic'[Len(traffic')].notBefore = 0
    BY <1>1, SendSteps
  <2>2. quota'.blocked_until = quota.blocked_until
    BY <1>1 DEF Send, Take, RetryInv
  <2>3. QED
    BY <2>1, <2>2 DEF MarkInv
<1>2. CASE RateLimited
  <2>1. PICK delay \in Delays :
          /\ quota' = Limited(quota, now, delay)
          /\ traffic' = [traffic EXCEPT ![Len(traffic)].notBefore = now + delay]
          /\ pc' # "wait"
    BY <1>2 DEF RateLimited, Sleeps, Blocked, Fails, Answered
  <2>2. /\ now + delay \in Nat /\ quota.blocked_until \in Nat
        /\ quota'.blocked_until = IF quota.blocked_until > now + delay THEN quota.blocked_until
                                  ELSE now + delay
    BY <2>1, TransportAssumption DEF Limited, RetryInv, Inv, Types, LeaseTypes
  <2>3. /\ Len(traffic) \in 1..Len(traffic) /\ traffic \in Seq(Sent)
        /\ traffic[Len(traffic)].notBefore = 0
    BY <1>2 DEF RateLimited, AnswerDue, RetryInv, MarkInv
  <2>4. /\ Len(traffic') = Len(traffic)
        /\ traffic'[Len(traffic)].notBefore = now + delay
        /\ \A i \in 1..Len(traffic) : i # Len(traffic) => traffic'[i] = traffic[i]
    <3>1. traffic[Len(traffic)] \in Sent
      BY <2>3
    <3>2. QED
      BY <2>1, <2>3, <3>1 DEF Sent
  <2>5. CASE quota.blocked_until > now + delay
    <3>1. PICK j \in 1..Len(traffic) : traffic[j].notBefore = quota.blocked_until
      BY <2>2, <2>5 DEF MarkInv
    <3>2. j # Len(traffic)
      BY <2>2, <2>3, <2>5, <3>1
    <3>3. QED
      BY <2>1, <2>2, <2>4, <2>5, <3>1, <3>2 DEF MarkInv
  <2>6. CASE ~(quota.blocked_until > now + delay)
    BY <2>1, <2>2, <2>3, <2>4, <2>6 DEF MarkInv
  <2>7. QED
    BY <2>5, <2>6
<1>3. CASE NoTraffic
  BY <1>3 DEF NoTraffic, MarkInv
<1>4. QED
  BY <1>1, <1>2, <1>3, TrafficSteps

(* RefusedOnlyWhenFull: only real requests of one of its pools in the      *)
(* window, or a wait the provider asked for, refuse a request; a refused   *)
(* take, a retry that gave up and the preflight restriction cost nothing   *)
(* (transport.py QuotaBudget.take and request).                            *)
THEOREM RefusalsAreJustified == Spec => RefusedOnlyWhenFull
<1> DEFINE Kept == Inv /\ RetryInv /\ QuotaInv /\ MarkInv
           Justified == \/ ProviderBlocks
                        \/ \E p \in {All, Pool[Task.route]} :
                             Cardinality(SentSince(now, p)) >= Capacity(p)
<1>1. Init => Kept
  BY InitInv, InitRetry, InitQuota DEF Init, MarkInv, NewBudget
<1>2. Kept /\ [Next]_vars => Kept'
  BY NextInv, NextRetry, NextQuota, NextMark
<1>3. Kept /\ RefusedForQuota => Justified
  <2> SUFFICES ASSUME Kept, RefusedForQuota PROVE Justified
    OBVIOUS
  <2>1. ~MayTake(quota, Pool[Task.route], Priority, now) /\ now \in Nat /\ Task.route \in Routes
    <3>1. todo # <<>> /\ todo \in Seq(Tasks) /\ now \in Nat
      BY DEF RefusedForQuota, NotSent, RunsTask, Inv, Types, LeaseTypes, CallTypes
    <3>2. Task \in Tasks
      BY <3>1 DEF Task
    <3>3. QED
      BY <3>1, <3>2 DEF RefusedForQuota, NotSent, Tasks
  <2>2. CASE ~(now >= quota.blocked_until)
    <3>1. PICK j \in 1..Len(traffic) : traffic[j].notBefore = quota.blocked_until
      BY <2>1, <2>2 DEF MarkInv
    <3>2. j \in DOMAIN traffic /\ traffic[j].notBefore > now
      BY <2>1, <2>2, <3>1 DEF RetryInv
    <3>3. QED
      BY <3>2 DEF ProviderBlocks
  <2>3. CASE now >= quota.blocked_until
    <3>1. PICK p \in {All, Pool[Task.route]} : ~HasRoom(quota, p, Priority, now)
      BY <2>1, <2>3 DEF MayTake
    <3>2. p \in Pools
      BY <2>1, <3>1, PoolOfRoute, QuotaAssumption
    <3> PICK at \in Nat : at = now
      BY <2>1
    <3>3. Cardinality(Recent(quota.uses[p], at)) = Cardinality(SentSince(at, p))
      BY <3>2 DEF QuotaInv, Counted
    <3>4. Cardinality(SentSince(at, p)) \in Nat
      BY SentIsFinite DEF RetryInv
    <3>5. Cardinality(SentSince(at, p)) >= Capacity(p)
      BY <3>1, <3>2, <3>3, <3>4, QuotaAssumption DEF HasRoom, Capacity
    <3>6. QED
      BY <3>1, <3>5
  <2>4. QED
    BY <2>2, <2>3
<1>4. Kept => [RefusedForQuota => Justified]_vars
  BY <1>3
<1>5. QED
  BY <1>1, <1>2, <1>4, PTL DEF Spec, RefusedOnlyWhenFull
=============================================================================
