------------------------ MODULE LocalDatabase_proofs -------------------------
(***************************************************************************)
(* The local database with its owner, for every scenario, fixture, queue    *)
(* and set of actions, and every death of a process.  The owners are       *)
(* clients of the executor: whatever they do, it takes a step of its own    *)
(* or rests (OwnersMove), so its invariants hold under them, and on these   *)
(* rest their own: what a script still does when, and what a finished one  *)
(* may say.                                                                *)
(***************************************************************************)
EXTENDS LocalDatabase, ExecutorAgreement_proofs

-----------------------------------------------------------------------------
(* The executor under its owners.                                          *)
ExecutorInv == EInv /\ GateInv /\ ExposureInv /\ AgreeInv /\ FlatInv

(* The invariants of the executor hold at the start.                       *)
LEMMA ExecutorInvInit == Init => ExecutorInv
BY EInvInit, GateInit, ExposureInit, AgreedInit, FlatInit DEF ExecutorInv

(* Every step of the executor keeps them.                                  *)
LEMMA ExecutorInvNext ==
  ASSUME ExecutorInv, [Next]_vars
  PROVE  ExecutorInv'
BY EInvNext, GateNext, ExposureNext, AgreedNext, FlatNext DEF ExecutorInv

(* Between executors a service starts and pauses, or a process dies.       *)
Rested ==
  /\ ~started /\ crashes' \in 0..MaxCrashes
  /\ Pause(TRUE) \/ UNCHANGED storeVars
  /\ UNCHANGED <<brokerVars, started, agenda>>

(* Nobody's orders change meanwhile.                                       *)
LEMMA RestedKeeps ==
  ASSUME ExecutorInv, Rested
  PROVE  ExecutorInv'
<1>1. /\ UNCHANGED <<intents, positions, late_fills, orders, held, clock, dispatched>>
      /\ UNCHANGED <<moved, unseen, moves>>
      /\ UNCHANGED <<started, agenda, reconciliation_ok>> /\ agenda = <<>> /\ ~started
  BY DEF Rested, Pause, storeVars, orderVars, bookVars, gateVars, brokerVars, ExecutorInv, GateInv
<1>2. IInv'
  BY IInvOther DEF Rested, ExecutorInv, EInv
<1>3. EInv'
  <2>1. BrokerOK'
    BY <1>1 DEF Rested, ExecutorInv, EInv, BrokerOK, BrokerTyped, BrokerOrders, BrokerHoldings,
       SentOnce, Accepted
  <2>2. Ready(agenda)' /\ Complete'
    BY <1>1 DEF ExecutorInv, EInv, Ready, Complete
  <2>3. (agenda \in Stacks)'
    BY <1>1 DEF ExecutorInv, EInv
  <2>4. QED
    BY <1>2, <2>1, <2>2, <2>3 DEF EInv
<1>4. GateInv'
  <2>1. Unobserved'
    BY <1>1 DEF ExecutorInv, GateInv, Unobserved
  <2>2. <<>> \notin Starting
    BY StartingStacks
  <2>3. QED
    BY <1>1, <2>1, <2>2 DEF GateInv, Handled, Blocking, Answered
<1>5. ExposureInv'
  BY <1>1 DEF ExecutorInv, ExposureInv, Alone, Unsubmitted, Reported, Lagging, Limited, Exposed,
     OpenPositions, Active, Row
<1>6. AgreeInv'
  <2>1. Off' = Off /\ Known' = Known
    BY <1>1 DEF Off, Agreed, Live, Active, Known, Row, Accepted
  <2>2. Due' = Due
    BY <1>1, <2>1 DEF Due, Underway, Active
  <2>3. Outside' /\ Books'
    BY <1>1 DEF ExecutorInv, AgreeInv, Outside, Books, BooksOf, Accepted
  <2>4. Ahead(agenda)'
    BY <1>1 DEF Ahead
  <2>5. QED
    BY <1>1, <2>1, <2>2, <2>3, <2>4 DEF ExecutorInv, AgreeInv
<1>7. FlatInv'
  BY <1>1 DEF ExecutorInv, FlatInv, Paired, Holdings, Ledger
<1>8. QED
  BY <1>3, <1>4, <1>5, <1>6, <1>7 DEF ExecutorInv

-----------------------------------------------------------------------------
(* Scripts.                                                                *)

(* What a queued command is, and the commands of a queue, whatever became   *)
(* of them.                                                                *)
Requests == [id : CommandIds, kind : QueueKinds, status : {"PENDING", "DONE", "BLOCKED"}]

Queued(queue) ==
  {c \in Requests : \E k \in DOMAIN queue : queue[k].id = c.id /\ queue[k].kind = c.kind}

(* The steps of a script.                                                  *)
ResearchOps == {"research", "write", "publish"}
PlainSteps ==
  {"enter", "admit", "arm", "reconciled", "pause", "cancel", "closing", "reconcile", "finish",
   "drain", "exit", "pass", "blocked"} \cup ResearchOps

Steps(queue) ==
  [op : PlainSteps, id : {Nil}] \cup [op : {"signal", "settle"}, id : Symbols]
    \cup [op : {"close"}, id : PositionIds] \cup [op : {"execute", "confirm"}, id : Queued(queue)]

(* Those an owner takes while its executor is entered, or, of a backtest,   *)
(* without one.                                                            *)
InnerOps ==
  {"admit", "arm", "signal", "settle", "reconciled", "pause", "cancel", "closing", "close",
   "reconcile", "finish", "drain", "execute", "confirm"} \cup ResearchOps

Members(s, ops) == \A k \in 1..Len(s) : s[k].op \in ops

(* What is left to do inside the executor, at last to leave it.            *)
Inner(s) == \A k \in 1..Len(s) : s[k].op \in InnerOps \/ (k = Len(s) /\ s[k].op = "exit")

(* Which step has which argument.                                          *)
LEMMA StepFields ==
  ASSUME NEW queue, NEW e \in Steps(queue)
  PROVE  /\ e.op \in InnerOps \cup {"enter", "exit", "pass", "blocked"}
         /\ e.op \in {"signal", "settle"} => e.id \in Symbols
         /\ e.op = "close" => e.id \in PositionIds
         /\ e.op \in {"execute", "confirm"} => e.id \in Queued(queue)
BY DEF Steps, PlainSteps, InnerOps, ResearchOps

(* Steps without an argument, and those with one.                          *)
LEMMA StepForms ==
  ASSUME NEW queue
  PROVE  /\ \A op \in PlainSteps : Step(op) \in Steps(queue) /\ Step(op).op = op
         /\ \A op \in {"signal", "settle"} : \A s \in Symbols :
              StepOn(op, s) \in Steps(queue) /\ StepOn(op, s).op = op
         /\ \A p \in PositionIds : StepOn("close", p) \in Steps(queue) /\ StepOn("close", p).op = "close"
         /\ \A op \in {"execute", "confirm"} : \A c \in Queued(queue) :
              StepOn(op, c) \in Steps(queue) /\ StepOn(op, c).op = op /\ StepOn(op, c).id = c
BY DEF Steps, Step, StepOn

(* One after the other.                                                    *)
LEMMA Joined ==
  ASSUME NEW S, NEW s \in Seq(S), NEW t \in Seq(S)
  PROVE  /\ s \o t \in Seq(S) /\ Len(s \o t) = Len(s) + Len(t) /\ Len(s) \in Nat /\ Len(t) \in Nat
         /\ \A k \in 1..Len(s) : k \in 1..Len(s \o t) /\ (s \o t)[k] = s[k]
         /\ \A k \in 1..Len(t) : Len(s) + k \in 1..Len(s \o t) /\ (s \o t)[Len(s) + k] = t[k]
         /\ \A k \in 1..Len(s \o t) :
              \/ k \in 1..Len(s)
              \/ k - Len(s) \in 1..Len(t) /\ (s \o t)[k] = t[k - Len(s)]
<1>1. /\ s \o t \in Seq(S) /\ Len(s \o t) = Len(s) + Len(t) /\ Len(s) \in Nat /\ Len(t) \in Nat
      /\ \A k \in 1..(Len(s) + Len(t)) :
           (s \o t)[k] = IF k <= Len(s) THEN s[k] ELSE t[k - Len(s)]
  BY ConcatProperties, LenProperties
<1>2. ASSUME NEW k \in 1..Len(s) PROVE k \in 1..Len(s \o t) /\ (s \o t)[k] = s[k]
  <2>1. k \in 1..(Len(s) + Len(t)) /\ k <= Len(s)
    BY <1>1
  <2>2. QED
    BY <1>1, <2>1
<1>3. ASSUME NEW k \in 1..Len(t)
      PROVE  Len(s) + k \in 1..Len(s \o t) /\ (s \o t)[Len(s) + k] = t[k]
  <2>1. Len(s) + k \in 1..(Len(s) + Len(t)) /\ ~(Len(s) + k <= Len(s)) /\ (Len(s) + k) - Len(s) = k
    BY <1>1
  <2>2. QED
    BY <1>1, <2>1
<1>4. ASSUME NEW k \in 1..Len(s \o t), ~(k \in 1..Len(s))
      PROVE  k - Len(s) \in 1..Len(t) /\ (s \o t)[k] = t[k - Len(s)]
  <2>1. k \in 1..(Len(s) + Len(t)) /\ ~(k <= Len(s)) /\ k - Len(s) \in 1..Len(t)
    BY <1>1, <1>4
  <2>2. QED
    BY <1>1, <2>1
<1>5. QED
  BY <1>1, <1>2, <1>3, <1>4

(* What is left of a script after its first step.                          *)
LEMMA Remaining ==
  ASSUME NEW S, NEW s \in Seq(S), s # <<>>
  PROVE  /\ Head(s) \in S /\ Head(s) = s[1] /\ 1 \in 1..Len(s)
         /\ Tail(s) \in Seq(S) /\ Len(Tail(s)) = Len(s) - 1 /\ Len(s) \in Nat
         /\ \A k \in 1..Len(Tail(s)) : k + 1 \in 1..Len(s) /\ Tail(s)[k] = s[k + 1]
BY HeadTailProperties, LenProperties, ElementOfSeq

(* A script keeps what all of its steps have in common.                    *)
LEMMA MembersJoined ==
  ASSUME NEW S, NEW s \in Seq(S), NEW t \in Seq(S), NEW ops, Members(s, ops), Members(t, ops)
  PROVE  Members(s \o t, ops)
<1>1. ASSUME NEW k \in 1..Len(s \o t) PROVE (s \o t)[k].op \in ops
  <2>1. \/ k \in 1..Len(s) /\ (s \o t)[k] = s[k]
        \/ k - Len(s) \in 1..Len(t) /\ (s \o t)[k] = t[k - Len(s)]
    BY Joined
  <2>2. QED
    BY <2>1 DEF Members
<1>2. QED
  BY <1>1 DEF Members

(* The first step, and the others.                                         *)
LEMMA MembersLeft ==
  ASSUME NEW S, NEW s \in Seq(S), s # <<>>, NEW ops, Members(s, ops)
  PROVE  Head(s).op \in ops /\ Members(Tail(s), ops)
BY Remaining DEF Members

(* Fewer kinds of steps are also of more kinds.                            *)
LEMMA MembersMore ==
  ASSUME NEW s, NEW ops, NEW more, Members(s, ops), ops \subseteq more
  PROVE  Members(s, more)
BY DEF Members

(* The steps inside an executor, and what comes before them.               *)
LEMMA InnerJoined ==
  ASSUME NEW S, NEW s \in Seq(S), NEW t \in Seq(S), Members(s, InnerOps), Inner(t)
  PROVE  Inner(s \o t)
<1>1. ASSUME NEW k \in 1..Len(s \o t)
      PROVE  \/ (s \o t)[k].op \in InnerOps
             \/ k = Len(s \o t) /\ (s \o t)[k].op = "exit"
  <2>1. CASE k \in 1..Len(s)
    BY <2>1, Joined DEF Members
  <2>2. CASE k - Len(s) \in 1..Len(t) /\ (s \o t)[k] = t[k - Len(s)]
    <3>1. \/ t[k - Len(s)].op \in InnerOps
          \/ k - Len(s) = Len(t) /\ t[k - Len(s)].op = "exit"
      BY <2>2 DEF Inner
    <3>2. k - Len(s) = Len(t) => k = Len(s \o t)
      BY Joined
    <3>3. QED
      BY <2>2, <3>1, <3>2
  <2>3. QED
    BY <2>1, <2>2, Joined
<1>2. QED
  BY <1>1 DEF Inner

(* The first of them.                                                      *)
LEMMA InnerLeft ==
  ASSUME NEW S, NEW s \in Seq(S), s # <<>>, Inner(s)
  PROVE  /\ Inner(Tail(s)) /\ Head(s).op \in InnerOps \cup {"exit"}
         /\ Head(s).op = "exit" => Tail(s) = <<>>
<1>1. ASSUME NEW k \in 1..Len(Tail(s))
      PROVE  Tail(s)[k].op \in InnerOps \/ (k = Len(Tail(s)) /\ Tail(s)[k].op = "exit")
  <2>1. k + 1 \in 1..Len(s) /\ Tail(s)[k] = s[k + 1] /\ (k + 1 = Len(s) => k = Len(Tail(s)))
    BY Remaining
  <2>2. QED
    BY <2>1 DEF Inner
<1>2. Head(s).op \in InnerOps \/ (1 = Len(s) /\ Head(s).op = "exit")
  BY Remaining DEF Inner
<1>3. 1 = Len(s) => Tail(s) = <<>>
  <2>1. 1 = Len(s) => Len(Tail(s)) = 0
    BY Remaining
  <2>2. QED
    BY <2>1, Remaining, EmptySeq
<1>4. "exit" \notin InnerOps
  BY DEF InnerOps, ResearchOps
<1>5. QED
  BY <1>1, <1>2, <1>3, <1>4 DEF Inner

(* Steps that are all inside.                                              *)
LEMMA InnerMembers ==
  ASSUME NEW s, Members(s, InnerOps)
  PROVE  Inner(s)
BY DEF Members, Inner

-----------------------------------------------------------------------------
(* The calls of an operation, under a simulator that protects every fill.   *)
Handling == {"pause", "unreconciled", "to_unknown"}

(* A set of calls that call no others.                                     *)
Closed(ops) ==
  /\ Handling \subseteq ops
  /\ "prepare" \in ops => "submit" \in ops
  /\ "submit" \in ops => {"send", "sending"} \subseteq ops
  /\ "send" \in ops => "apply" \in ops
  /\ "reconcile_all" \in ops => "reconcile" \in ops
  /\ "reconcile" \in ops => "apply" \in ops
  /\ "cancel_all" \in ops => "cancel" \in ops
  /\ "cancel" \in ops => {"ask_cancel", "cancelling"} \subseteq ops
  /\ "ask_cancel" \in ops => "apply" \in ops
  /\ "close" \in ops => {"cancel_all", "close_recheck", "submit"} \subseteq ops
  /\ "close_recheck" \in ops => "submit" \in ops
  /\ "flatten_all" \in ops => "flatten" \in ops
  /\ "flatten" \in ops => "close" \in ops

(* A call above others of such a set.                                      *)
LEMMA MembersAbove ==
  ASSUME NEW L, NEW f, NEW below \in Seq(L), NEW ops
  PROVE  Members(Above(f, below), ops) <=> f.op \in ops /\ Members(below, ops)
<1> DEFINE K == L \cup {f}
           s == Above(f, below)
<1>1. <<f>> \in Seq(K) /\ below \in Seq(K) /\ Len(<<f>>) = 1 /\ <<f>>[1] = f
  OBVIOUS
<1>2. /\ Len(s) = Len(below) + 1 /\ Len(below) \in Nat
      /\ \A k \in 1..(Len(below) + 1) : s[k] = IF k <= 1 THEN f ELSE below[k - 1]
  BY <1>1, ConcatProperties, LenProperties DEF Above
<1> HIDE DEF s
<1>3. s[1] = f /\ 1 \in 1..Len(s) /\ \A k \in 1..Len(below) : k + 1 \in 1..Len(s) /\ s[k + 1] = below[k]
  BY <1>2
<1>4. \A k \in 1..Len(s) : k # 1 => k - 1 \in 1..Len(below) /\ s[k] = below[k - 1]
  BY <1>2
<1>5. QED
  BY <1>3, <1>4 DEF Members, s

(* What an exception leaves.                                               *)
LEMMA MembersRaise ==
  ASSUME NEW ops, Handling \subseteq ops, NEW s \in Seq(Low), Members(s, ops)
  PROVE  Members(Raise(s), ops)
<1> DEFINE L == {f \in Low : f.op \in ops}
<1>1. L \in SUBSET Low
  OBVIOUS
<1>2. Call("pause") \in L /\ Call("unreconciled") \in L
  BY CallFrames DEF PlainOps, Handling
<1>3. s \in Seq(L)
  <2>1. Len(s) \in Nat /\ s = [k \in 1..Len(s) |-> s[k]] /\ \A k \in 1..Len(s) : s[k] \in L
    BY LenProperties, ElementOfSeq DEF Members
  <2> HIDE DEF L
  <2>2. QED
    BY <2>1
<1>4. \A t \in Seq(L) : Members(t, ops) /\ t \in Seq(Low)
  <2>1. ASSUME NEW t \in Seq(L) PROVE Members(t, ops) /\ t \in Seq(Low)
    <3>1. \A k \in 1..Len(t) : t[k] \in L
      BY ElementOfSeq
    <3>2. t \in Seq(Low)
      BY <1>1, SeqMonotonic
    <3>3. QED
      BY <3>1, <3>2 DEF Members
  <2>2. QED
    BY <2>1
<1>5. \A f \in L : f \in Low /\ f.op \in ops
  OBVIOUS
<1> HIDE DEF L
<1>6. CASE Raise(s) = <<>>
  BY <1>6 DEF Members
<1>7. ASSUME NEW f \in L, NEW below \in Seq(L), f.op = "reconcile",
             Raise(s) = Above([f EXCEPT !.clean = FALSE], below)
      PROVE  Members(Raise(s), ops)
  <2> DEFINE g == [f EXCEPT !.clean = FALSE]
  <2>1. f \in Frames /\ f.op \in Loops /\ f.todo \in SUBSET f.todo /\ FALSE \in BOOLEAN
    BY <1>5, <1>7 DEF Low, Loops
  <2>2. g.op = "reconcile"
    BY <2>1, <1>7, LoopGoesOn
  <2>3. "reconcile" \in ops
    BY <1>5, <1>7
  <2> HIDE DEF g
  <2>4. Raise(s) = Above(g, below)
    BY <1>7 DEF g
  <2>5. QED
    BY <1>4, <2>2, <2>3, <2>4, MembersAbove
<1>8. ASSUME NEW i \in IntentIds, NEW guard \in Guards, NEW below \in Seq(L),
             Raise(s) = Interrupted(i, guard, below)
      PROVE  Members(Raise(s), ops)
  <2>1. AmbiguityCalls(guard) \o below \in Seq(L)
    BY <1>1, <1>2, Ambiguity
  <2>2. CallOn("to_unknown", i).op = "to_unknown"
    BY DEF CallOn, Frame
  <2> DEFINE calls == AmbiguityCalls(guard) \o below
  <2> HIDE DEF calls
  <2>3. Raise(s) = Above(CallOn("to_unknown", i), calls) /\ calls \in Seq(L)
    BY <1>8, <2>1 DEF Interrupted, calls
  <2>4. QED
    BY <1>4, <2>2, <2>3, MembersAbove DEF Handling
<1>9. \/ Raise(s) = <<>> /\ ~Reconciling(s)
      \/ \E f \in L, below \in Seq(L) :
           f.op = "reconcile" /\ Raise(s) = Above([f EXCEPT !.clean = FALSE], below)
      \/ \E i \in IntentIds, guard \in Guards, below \in Seq(L) :
           /\ Raise(s) = Interrupted(i, guard, below)
           /\ Reconciling(s) => Reconciling(below)
  BY <1>1, <1>3, Raises
<1>10. QED
  BY <1>6, <1>7, <1>8, <1>9

(* What is left on the stack when the topmost call returns, raises or calls. *)
LEMMA MembersRest ==
  ASSUME agenda \in Stacks, NEW op, Running(op), NEW ops, Members(agenda, ops), Handling \subseteq ops
  PROVE  /\ op \in ops /\ Members(Then(<<>>), ops)
         /\ op \notin {"pause", "unreconciled"} =>
              /\ Members(Raise(Rest), ops)
              /\ \A f : f.op \in ops => Members(Then(<<f>>), ops) /\ Members(<<f>> \o Rest, ops)
              /\ \A f, g : f.op \in ops /\ g.op \in ops =>
                   Members(Then(<<f, g>>), ops) /\ Members(<<f, g>> \o Rest, ops)
              /\ \A f, g, h : f.op \in ops /\ g.op \in ops /\ h.op \in ops =>
                   Members(<<f, g, h>> \o Rest, ops)
              /\ \A f, g \in Low : f.op \in ops /\ g.op \in ops =>
                   Members(Raise(<<f, g>> \o Rest), ops)
<1>1. agenda \in Seq(Frames) /\ agenda # <<>> /\ Top.op = op
  BY StacksOfFrames DEF Running
<1>2. Rest \in Seq(Frames) /\ op \in ops /\ Members(Rest, ops)
  BY <1>1, TopAndRest, MembersLeft DEF Top, Rest
<1>3. Members(Then(<<>>), ops)
  <2>1. Then(<<>>) \in {Rest, Tail(Rest)} /\ (Then(<<>>) = Tail(Rest) => Then(<<>>) = Rest \/ Rest # <<>>)
    BY DEF Then
  <2>2. QED
    BY <1>2, <2>1, MembersLeft
<1>4. ASSUME op \notin {"pause", "unreconciled"}
      PROVE  /\ Members(Raise(Rest), ops)
             /\ \A f : f.op \in ops => Members(Then(<<f>>), ops) /\ Members(<<f>> \o Rest, ops)
             /\ \A f, g : f.op \in ops /\ g.op \in ops =>
                  Members(Then(<<f, g>>), ops) /\ Members(<<f, g>> \o Rest, ops)
             /\ \A f, g, h : f.op \in ops /\ g.op \in ops /\ h.op \in ops =>
                  Members(<<f, g, h>> \o Rest, ops)
             /\ \A f, g \in Low : f.op \in ops /\ g.op \in ops =>
                  Members(Raise(<<f, g>> \o Rest), ops)
  <2>1. Rest \in Seq(Low)
    BY <1>1, <1>4, Topmost
  <2>2. Members(Raise(Rest), ops)
    BY <1>2, <2>1, MembersRaise
  <2>3. ASSUME NEW f, f.op \in ops PROVE Members(Then(<<f>>), ops) /\ Members(<<f>> \o Rest, ops)
    BY <1>2, <2>3, MembersAbove DEF Then, Above
  <2>4. ASSUME NEW f, NEW g, f.op \in ops, g.op \in ops
        PROVE  Members(Then(<<f, g>>), ops) /\ Members(<<f, g>> \o Rest, ops)
    <3>1. Then(<<f, g>>) = <<f, g>> \o Rest
      BY DEF Then
    <3>2. <<f, g>> \o Rest = Above(f, Above(g, Rest))
      BY <2>1, TwoAbove
    <3>3. Above(g, Rest) \in Seq(Low \cup {g}) /\ Members(Above(g, Rest), ops)
      <4>1. Rest \in Seq(Low \cup {g})
        BY <2>1, SeqMonotonic
      <4>2. QED
        BY <1>2, <2>4, <4>1, AboveProperties, MembersAbove
    <3>4. QED
      BY <2>4, <3>1, <3>2, <3>3, MembersAbove
  <2>5. ASSUME NEW f, NEW g, NEW h, f.op \in ops, g.op \in ops, h.op \in ops
        PROVE  Members(<<f, g, h>> \o Rest, ops)
    <3> DEFINE K == Low \cup {g, h}
    <3>1. <<f, g, h>> \o Rest = Above(f, Above(g, Above(h, Rest)))
      BY <2>1, ThreeAbove
    <3>2. Rest \in Seq(K) /\ g \in K /\ h \in K
      BY <2>1, SeqMonotonic
    <3> HIDE DEF K
    <3>3. Above(h, Rest) \in Seq(K) /\ Members(Above(h, Rest), ops)
      BY <1>2, <2>5, <3>2, AboveProperties, MembersAbove
    <3>4. Above(g, Above(h, Rest)) \in Seq(K) /\ Members(Above(g, Above(h, Rest)), ops)
      BY <2>5, <3>2, <3>3, AboveProperties, MembersAbove
    <3>5. QED
      BY <2>5, <3>1, <3>4, MembersAbove
  <2>6. ASSUME NEW f \in Low, NEW g \in Low, f.op \in ops, g.op \in ops
        PROVE  Members(Raise(<<f, g>> \o Rest), ops)
    <3>1. <<f, g>> \o Rest \in Seq(Low)
      BY <2>1
    <3>2. Members(<<f, g>> \o Rest, ops)
      BY <2>4, <2>6
    <3>3. QED
      BY <3>1, <3>2, MembersRaise
  <2>7. QED
    BY <2>2, <2>3, <2>4, <2>5, <2>6
<1>5. QED
  BY <1>2, <1>3, <1>4

(* No report of the simulator is an incident.                              *)
LEMMA NoIncident ==
  ASSUME EInv, Running("apply")
  PROVE  IncidentCalls(Top.report) = <<>>
<1>1. Top \in Frames /\ Top.op = "apply"
  BY Topmost DEF EInv, Running
<1>2. Top.report \in Reports
  BY <1>1, FrameFields DEF Typed
<1>3. Top.report.protected \in Protection
  BY <1>2 DEF Reports, Report, BrokerOrder
<1>4. QED
  BY <1>3, SimulatorAssumption DEF IncidentCalls, Incident

(* The calls that return.                                                  *)
LEMMA OpsReturn ==
  ASSUME EInv, NEW ops, Closed(ops), Members(agenda, ops),
         \/ PauseCall \/ UnreconciledCall \/ ToUnknown \/ ApplyReport \/ ApplyRefused
         \/ LoopEnds("recover") \/ LoopEnds("cancel") \/ LoopEnds("flatten")
         \/ ReconcileEnds \/ CloseNothing \/ ConfirmFlat \/ AskCancelFailed
  PROVE  Members(agenda', ops)
<1>0. agenda \in Stacks /\ Handling \subseteq ops
  BY DEF EInv, Closed
<1>1. ASSUME NEW op, Running(op)
      PROVE  /\ Members(Then(<<>>), ops)
             /\ op \notin {"pause", "unreconciled"} =>
                  Members(Raise(Rest), ops) /\ Members(Then(<<Call("pause")>>), ops)
  <2>1. Call("pause").op \in ops
    BY <1>0 DEF Call, Frame, Handling
  <2>2. QED
    BY <1>0, <1>1, <2>1, MembersRest
<1>2. CASE PauseCall \/ UnreconciledCall
  BY <1>1, <1>2 DEF PauseCall, UnreconciledCall
<1>3. CASE ToUnknown \/ CloseNothing \/ ConfirmFlat
  BY <1>1, <1>3 DEF ToUnknown, CloseNothing, ConfirmFlat
<1>4. CASE LoopEnds("recover") \/ LoopEnds("cancel") \/ LoopEnds("flatten")
  BY <1>1, <1>4 DEF LoopEnds
<1>5. CASE ApplyReport
  <2>1. Running("apply") /\ agenda' = Then(IncidentCalls(Top.report))
    BY <1>5 DEF ApplyReport
  <2>2. QED
    BY <1>1, <2>1, NoIncident
<1>6. CASE ApplyRefused \/ AskCancelFailed
  BY <1>1, <1>6 DEF ApplyRefused, AskCancelFailed
<1>7. CASE ReconcileEnds
  <2>1. /\ Running("reconcile")
        /\ agenda' = Then(<<>>) \/ agenda' = Then(<<Call("pause")>>)
    BY <1>7 DEF ReconcileEnds
  <2>2. QED
    BY <1>1, <2>1
<1>8. QED
  BY <1>2, <1>3, <1>4, <1>5, <1>6, <1>7

(* The calls that call others.                                             *)
LEMMA OpsCall ==
  ASSUME EInv, NEW ops, Closed(ops), Members(agenda, ops),
         \/ SimulatorSends \/ Submit \/ SendAccepted \/ ReconcileAll \/ CancelAll
         \/ SimulatorCancels \/ CloseAfterCancel \/ CloseCreate \/ CloseRecheck \/ FlattenAll
  PROVE  Members(agenda', ops)
<1>0. agenda \in Stacks /\ Handling \subseteq ops
  BY DEF EInv, Closed
<1>1. ASSUME NEW op, Running(op), op \notin {"pause", "unreconciled"}
      PROVE  /\ op \in ops /\ Members(Then(<<>>), ops) /\ Members(Raise(Rest), ops)
             /\ \A f : f.op \in ops => Members(Then(<<f>>), ops) /\ Members(<<f>> \o Rest, ops)
             /\ \A f, g : f.op \in ops /\ g.op \in ops =>
                  Members(Then(<<f, g>>), ops) /\ Members(<<f, g>> \o Rest, ops)
  BY <1>0, <1>1, MembersRest
<1>2. /\ \A op, i : CallOn(op, i).op = op
      /\ \A op, todo : Loop(op, todo).op = op
      /\ \A op : Call(op).op = op
      /\ \A u : Apply(u).op = "apply"
  BY DEF CallOn, Loop, Call, Apply, Frame
<1>3. CASE SimulatorSends
  <2>1. Running("prepare") /\ agenda' = Then(<<CallOn("submit", Top.id)>>)
    BY <1>3 DEF SimulatorSends, Prepare
  <2>2. PICK i : i = Top.id
    OBVIOUS
  <2>3. QED
    BY <1>1, <1>2, <2>1, <2>2 DEF Closed
<1>4. CASE Submit
  BY <1>1, <1>2, <1>4 DEF Submit, Closed
<1>5. CASE SendAccepted
  <2>1. Running("send") /\ "apply" \in ops
    BY <1>1, <1>5 DEF SendAccepted, Closed
  <2>2. agenda' = Raise(Rest) \/ \E u : agenda' = <<Apply(u)>> \o Rest
    BY <1>5 DEF SendAccepted
  <2>3. QED
    BY <1>1, <1>2, <2>1, <2>2
<1>6. CASE ReconcileAll \/ CancelAll \/ FlattenAll
  <2>1. ASSUME ReconcileAll PROVE \E todo : agenda' = <<Loop("reconcile", todo)>> \o Rest
    BY <2>1 DEF ReconcileAll
  <2>2. ASSUME CancelAll PROVE \E todo : agenda' = <<Loop("cancel", todo)>> \o Rest
    BY <2>2 DEF CancelAll
  <2>3. ASSUME FlattenAll PROVE \E todo : agenda' = <<Loop("flatten", todo)>> \o Rest
    BY <2>3 DEF FlattenAll
  <2>4. /\ ReconcileAll => Running("reconcile_all")
        /\ CancelAll => Running("cancel_all")
        /\ FlattenAll => Running("flatten_all")
    BY DEF ReconcileAll, CancelAll, FlattenAll
  <2>5. /\ "reconcile_all" \in ops => "reconcile" \in ops
        /\ "cancel_all" \in ops => "cancel" \in ops
        /\ "flatten_all" \in ops => "flatten" \in ops
    BY DEF Closed
  <2>6. \E op : op \in ops /\ \E todo : agenda' = <<Loop(op, todo)>> \o Rest
    <3>1. CASE ReconcileAll
      BY <1>1, <2>1, <2>4, <2>5, <3>1
    <3>2. CASE CancelAll
      BY <1>1, <2>2, <2>4, <2>5, <3>2
    <3>3. CASE FlattenAll
      BY <1>1, <2>3, <2>4, <2>5, <3>3
    <3>4. QED
      BY <1>6, <3>1, <3>2, <3>3
  <2>7. \E op : Running(op) /\ op \notin {"pause", "unreconciled"}
    BY <1>6, <2>4
  <2>8. QED
    BY <1>1, <1>2, <2>6, <2>7
<1>7. CASE SimulatorCancels
  <2>1. Running("ask_cancel") /\ "apply" \in ops
    BY <1>1, <1>7 DEF SimulatorCancels, AskCancel, Closed
  <2>2. agenda' = Raise(Rest) \/ \E u : agenda' = <<Apply(u)>> \o Rest
    BY <1>7 DEF SimulatorCancels, AskCancel
  <2>3. QED
    BY <1>1, <1>2, <2>1, <2>2
<1>8. CASE CloseAfterCancel
  <2>1. Running("close") /\ agenda' = Then(<<Call("cancel_all"), CallOn("close_recheck", Top.id)>>)
    BY <1>8 DEF CloseAfterCancel
  <2>2. QED
    BY <1>1, <1>2, <2>1 DEF Closed
<1>9. CASE CloseCreate \/ CloseRecheck
  <2>1. \/ agenda' = Then(<<>>)
        \/ agenda' = Then(<<CallOn("submit", Top.id)>>)
    BY <1>9 DEF CloseCreate, CloseRecheck, CreateCloseOf
  <2>2. Running("close") \/ Running("close_recheck")
    BY <1>9 DEF CloseCreate, CloseRecheck
  <2>3. PICK op \in {"close", "close_recheck"} : Running(op)
    BY <2>2
  <2>4. "submit" \in ops
    BY <1>1, <2>3 DEF Closed
  <2>5. QED
    BY <1>1, <1>2, <2>1, <2>3, <2>4
<1>10. QED
  BY <1>3, <1>4, <1>5, <1>6, <1>7, <1>8, <1>9

(* The loops that go on.                                                   *)
LEMMA OpsLoop ==
  ASSUME EInv, NEW ops, Closed(ops), Members(agenda, ops),
         \/ Recover \/ SimulatorAnswers \/ SimulatorUnseen
         \/ CancelUnsent \/ CancelSent \/ FlattenNext
  PROVE  Members(agenda', ops)
<1>0. agenda \in Stacks /\ Handling \subseteq ops
  BY DEF EInv, Closed
<1>1. ASSUME NEW op \in Loops, Running(op), NEW e
      PROVE  /\ Members(<<Without(e)>> \o Rest, ops) /\ op \in ops
             /\ \A clean \in BOOLEAN : Members(<<[Without(e) EXCEPT !.clean = clean]>> \o Rest, ops)
             /\ \A f : f.op \in ops => Members(<<f, Without(e)>> \o Rest, ops)
             /\ \A f : \A clean \in BOOLEAN :
                  f.op \in ops => Members(<<f, [Without(e) EXCEPT !.clean = clean]>> \o Rest, ops)
             /\ \A f, g : f.op \in ops /\ g.op \in ops =>
                  Members(<<f, g, Without(e)>> \o Rest, ops)
             /\ Without(e) \in Frames /\ Without(e).op = op
  <2>1. /\ Without(e).op = op /\ Without(e) \in Frames
        /\ \A clean \in BOOLEAN : [Without(e) EXCEPT !.clean = clean].op = op
    BY <1>1, LoopLeft
  <2>2. op \in ops /\ op \notin {"pause", "unreconciled"}
    BY <1>0, <1>1, MembersRest DEF Loops
  <2>3. /\ \A f : f.op \in ops => Members(<<f>> \o Rest, ops)
        /\ \A f, g : f.op \in ops /\ g.op \in ops => Members(<<f, g>> \o Rest, ops)
        /\ \A f, g, h : f.op \in ops /\ g.op \in ops /\ h.op \in ops =>
             Members(<<f, g, h>> \o Rest, ops)
    BY <1>0, <1>1, <2>2, MembersRest
  <2>4. ASSUME NEW w, w.op = op
        PROVE  /\ Members(<<w>> \o Rest, ops)
               /\ \A f : f.op \in ops => Members(<<f, w>> \o Rest, ops)
               /\ \A f, g : f.op \in ops /\ g.op \in ops => Members(<<f, g, w>> \o Rest, ops)
    BY <2>2, <2>3, <2>4
  <2>5. QED
    BY <2>1, <2>2, <2>4
<1>2. /\ \A op, i : CallOn(op, i).op = op
      /\ \A u : Apply(u).op = "apply"
  BY DEF CallOn, Apply, Frame
<1>3. "recover" \in Loops /\ "reconcile" \in Loops /\ "cancel" \in Loops /\ "flatten" \in Loops
  BY DEF Loops
<1>4. CASE Recover
  <2>1. Running("recover") /\ \E e : agenda' = <<Without(e)>> \o Rest
    BY <1>4 DEF Recover
  <2>2. QED
    BY <1>1, <1>3, <2>1
<1>5. CASE CancelUnsent
  <2>1. Running("cancel") /\ \E e : agenda' = <<Without(e)>> \o Rest
    BY <1>5 DEF CancelUnsent
  <2>2. QED
    BY <1>1, <1>3, <2>1
<1>6. CASE FlattenNext
  <2>1. PICK e : Running("flatten") /\ agenda' = <<CallOn("close", e.id), Without(e)>> \o Rest
    BY <1>6 DEF FlattenNext
  <2>2. "close" \in ops
    BY <1>1, <1>3, <2>1 DEF Closed
  <2>3. \A f : f.op \in ops => Members(<<f, Without(e)>> \o Rest, ops)
    BY <1>1, <1>3, <2>1
  <2>4. QED
    BY <1>2, <2>1, <2>2, <2>3
<1>7. CASE SimulatorAnswers \/ SimulatorUnseen
  <2>1. Running("reconcile") /\ "apply" \in ops
    <3>1. Running("reconcile")
      BY <1>7 DEF SimulatorAnswers, SimulatorUnseen, QueryAnswered, QueryUnseen
    <3>2. QED
      BY <1>1, <1>3, <3>1 DEF Closed
  <2>2. ASSUME NEW e PROVE \A w : Without(e).clean \in BOOLEAN
    BY <1>1, <1>3, <2>1, FrameFields DEF Typed
  <2>3. CASE SimulatorAnswers
    <3>1. PICK e, u : agenda' = <<Apply(u), [Without(e) EXCEPT !.clean = @ /\ u.state # "UNKNOWN"]>> \o Rest
      BY <2>3 DEF SimulatorAnswers, QueryAnswered
    <3>2. agenda' = <<Apply(u), [Without(e) EXCEPT !.clean = Without(e).clean /\ u.state # "UNKNOWN"]>> \o Rest
      BY <3>1
    <3>3. (Without(e).clean /\ u.state # "UNKNOWN") \in BOOLEAN
      OBVIOUS
    <3>4. QED
      BY <1>1, <1>2, <1>3, <2>1, <3>2, <3>3
  <2>4. CASE SimulatorUnseen
    <3>1. PICK e : agenda' = <<[Without(e) EXCEPT !.clean = @ /\ e.state \notin ACTIVE_STATES]>> \o Rest
      BY <2>4 DEF SimulatorUnseen, QueryUnseen
    <3>2. agenda' = <<[Without(e) EXCEPT !.clean = Without(e).clean /\ e.state \notin ACTIVE_STATES]>> \o Rest
      BY <3>1
    <3>3. (Without(e).clean /\ e.state \notin ACTIVE_STATES) \in BOOLEAN
      OBVIOUS
    <3>4. QED
      BY <1>1, <1>3, <2>1, <3>2, <3>3
  <2>5. QED
    BY <1>7, <2>3, <2>4
<1>8. CASE CancelSent
  <2>1. PICK e \in Top.todo :
          /\ Running("cancel")
          /\ \/ agenda' = <<CallOn("ask_cancel", e.id), CallOn("cancelling", e.id), Without(e)>> \o Rest
             \/ agenda' = Raise(<<CallOn("cancelling", e.id), Without(e)>> \o Rest)
    BY <1>8 DEF CancelSent
  <2>2. {"ask_cancel", "cancelling"} \subseteq ops /\ "cancel" \in ops
    BY <1>1, <1>3, <2>1 DEF Closed
  <2>3. CASE agenda' = <<CallOn("ask_cancel", e.id), CallOn("cancelling", e.id), Without(e)>> \o Rest
    BY <1>1, <1>2, <1>3, <2>1, <2>2, <2>3
  <2>4. CASE agenda' = Raise(<<CallOn("cancelling", e.id), Without(e)>> \o Rest)
    <3>1. Top \in Frames /\ Top.op = "cancel"
      BY <2>1, <1>0, Topmost DEF Running
    <3>2. e \in PendingEntries
      BY <2>1, <3>1, FrameFields DEF Typed
    <3>3. e.id \in IntentIds
      BY <3>2 DEF PendingEntries, IntentIds
    <3>4. CallOn("cancelling", e.id) \in Low
      BY <3>3, IntentFrames DEF IntentOps, TopOnly
    <3>5. Without(e) \in Low /\ Without(e).op = "cancel"
      BY <1>1, <1>3, <2>1 DEF Low, TopOnly
    <3>6. ASSUME NEW f \in Low, NEW g \in Low, f.op \in ops, g.op \in ops
          PROVE  Members(Raise(<<f, g>> \o Rest), ops)
      BY <1>0, <2>1, <3>6, MembersRest
    <3>7. QED
      BY <1>2, <2>2, <2>4, <3>4, <3>5, <3>6
  <2>5. QED
    BY <2>1, <2>3, <2>4
<1>9. QED
  BY <1>4, <1>5, <1>6, <1>7, <1>8

(* No operation makes other calls than those that belong to its own.       *)
LEMMA OpsKept ==
  ASSUME EInv, NEW ops, Closed(ops), Members(agenda, ops), SimulatorSteps
  PROVE  Members(agenda', ops)
<1>1. CASE Release
  BY <1>1 DEF Release, Members
<1>2. CASE ~Release
  BY <1>2, OpsReturn, OpsCall, OpsLoop DEF SimulatorSteps
<1>3. QED
  BY <1>1, <1>2

(* A step of the simulator is one of the executor.                         *)
LEMMA SimulatorNext ==
  ASSUME SimulatorSteps
  PROVE  Next /\ (~Release => UNCHANGED started) /\ UNCHANGED crashes
<1>1. ExecutorSteps
  BY DEF SimulatorSteps, SimulatorSends, SimulatorAnswers, SimulatorUnseen, SimulatorCancels,
     ExecutorSteps
<1>2. UNCHANGED crashes
  BY DEF SimulatorSteps, SimulatorSends, SimulatorAnswers, SimulatorUnseen, SimulatorCancels,
     PauseCall, UnreconciledCall, ToUnknown, Release, LoopEnds, Recover, Prepare, Submit,
     SendAccepted, ApplyReport, ApplyRefused, ReconcileAll, QueryAnswered, QueryUnseen,
     ReconcileEnds, CancelAll, CancelUnsent, CancelSent, AskCancel, AskCancelFailed,
     CloseNothing, CloseAfterCancel, CloseCreate, CloseRecheck, CreateCloseOf, FlattenAll,
     FlattenNext, ConfirmFlat, Local, Internal
<1>3. ~Release => UNCHANGED started
  BY DEF SimulatorSteps, SimulatorSends, SimulatorAnswers, SimulatorUnseen, SimulatorCancels,
     PauseCall, UnreconciledCall, ToUnknown, Release, LoopEnds, Recover, Prepare, Submit,
     SendAccepted, ApplyReport, ApplyRefused, ReconcileAll, QueryAnswered, QueryUnseen,
     ReconcileEnds, CancelAll, CancelUnsent, CancelSent, AskCancel, AskCancelFailed,
     CloseNothing, CloseAfterCancel, CloseCreate, CloseRecheck, CreateCloseOf, FlattenAll,
     FlattenNext, ConfirmFlat, Local, Internal
<1>4. QED
  BY <1>1, <1>2, <1>3 DEF Next

-----------------------------------------------------------------------------
(* Owners, scripts and queues.                                             *)
Ops == InnerOps \cup {"enter", "exit", "pass", "blocked"}

RightOwner == owner \in {Nil, database} /\ (owner = Nil => ~started /\ script = <<>>)

Unrepeated(queue) == \A j, k \in DOMAIN queue : queue[j].id = queue[k].id => j = k

Scripted ==
  /\ database \in {"a6", "service"}
  /\ commands \in Seq(Requests) /\ Unrepeated(commands)
  /\ script \in Seq(Steps(commands))

(* The step an owner is at.                                                *)
LEMMA AtNow ==
  ASSUME Scripted, NEW op, AtStep(op)
  PROVE  /\ script # <<>> /\ Now \in Steps(commands) /\ Now.op = op /\ op \in Ops
         /\ Left \in Seq(Steps(commands)) /\ agenda = <<>> /\ owner # Nil
         /\ op \in {"signal", "settle"} => Now.id \in Symbols
         /\ op = "close" => Now.id \in PositionIds
         /\ op \in {"execute", "confirm"} => Now.id \in Queued(commands)
<1>1. script # <<>> /\ Now.op = op /\ agenda = <<>> /\ owner # Nil
  BY DEF AtStep
<1>2. Now \in Steps(commands) /\ Left \in Seq(Steps(commands))
  BY <1>1, Remaining DEF Scripted, Now, Left
<1>3. QED
  BY <1>1, <1>2, StepFields DEF Ops

(* What a queued command asks the executor for.                            *)
LEMMA QueuedKinds ==
  ASSUME NEW queue, NEW c \in Queued(queue)
  PROVE  /\ c \in Requests /\ c.kind \in QueueKinds
         /\ c.kind \in {"PAUSE_ENTRIES", "RECONCILE", "CANCEL_PENDING_ENTRIES", "FLATTEN_OWNED"}
BY ServiceAssumption DEF Queued, Requests

(* Whatever it asks for is an operation of the executor.                   *)
LEMMA QueuedOperation ==
  ASSUME NEW queue, NEW c \in Queued(queue), Operation(CallsOf(c.kind))
  PROVE  Operations
<1>1. \/ CallsOf(c.kind) = <<Call("pause")>>
      \/ CallsOf(c.kind) = <<Call("reconcile_all")>>
      \/ CallsOf(c.kind) = <<Call("cancel_all")>>
      \/ CallsOf(c.kind) = <<Call("pause"), Call("cancel_all"), Call("flatten_all"),
                             Call("reconcile_all"), Call("confirm_flat")>>
  BY QueuedKinds DEF CallsOf
<1>2. QED
  BY <1>1 DEF Operations, FlattenOwned

(* A submission.                                                           *)
LEMMA SubmissionNext ==
  ASSUME NEW s \in Symbols, NEW steps, Submission(s, steps)
  PROVE  [Next]_vars
<1>1. MaxUnits \in Units
  BY StoreAssumption DEF Units
<1>2. ASSUME Goto(steps) PROVE UNCHANGED vars
  BY <1>2 DEF Goto, tradeVars
<1>3. ASSUME NEW stop \in StopPrices, SubmitEntry(s, MaxUnits, stop) PROVE Next
  BY <1>1, <1>3 DEF Next, Operations
<1>4. QED
  BY <1>2, <1>3 DEF Submission

(* Whatever the owners and the world do, the executor takes a step of its   *)
(* own or rests (session.py run and service.py command over engine.py).    *)
LEMMA OwnersMove ==
  ASSUME ExecutorInv, RightOwner, Scripted, [DatabaseNext]_allVars
  PROVE  [Next]_vars \/ Rested
<1>1. ASSUME NEW steps, Goto(steps) PROVE UNCHANGED vars
  BY <1>1 DEF Goto, tradeVars
<1>2. UNCHANGED allVars => UNCHANGED vars
  BY DEF allVars
<1>3. CASE OwnerSteps
  <2>1. CASE SimulatorSteps
    BY <2>1, SimulatorNext
  <2>2. CASE EnterExecutor \/ ExitExecutor \/ Reconcile \/ PauseEntries \/ CancelEntries
    BY <2>2 DEF EnterExecutor, ExitExecutor, Reconcile, PauseEntries, CancelEntries, Next, Operations
  <2>3. CASE Arm \/ Closing
    BY <1>1, <2>3 DEF Arm, Closing, Next, Operations
  <2>4. QED
    BY <1>3, <2>1, <2>2, <2>3 DEF OwnerSteps
<1>4. ASSUME NEW p \in PositionIds, CloseOwned(p) PROVE Next
  BY <1>4 DEF CloseOwned, Next, Operations
<1>5. CASE SessionOwnSteps
  <2>1. CASE Admit \/ Reconciled \/ Finish
    BY <1>1, <2>1 DEF Admit, Reconciled, Finish, Block
  <2>2. CASE Signal
    <3>1. AtStep("signal")
      BY <2>2 DEF Signal
    <3>2. Now.id \in Symbols
      BY <3>1, AtNow
    <3>3. \/ \E steps : Goto(steps)
          \/ \E steps : Submission(Now.id, steps)
      BY <2>2 DEF Signal, Block
    <3>4. QED
      BY <1>1, <3>2, <3>3, SubmissionNext
  <2>3. CASE Settle
    BY <1>1, <2>3 DEF Settle, Block, Next, Operations
  <2>4. CASE CloseQuoted
    <3>1. AtStep("close")
      BY <2>4 DEF CloseQuoted
    <3>2. Now.id \in PositionIds
      BY <3>1, AtNow
    <3>3. QED
      BY <1>1, <1>4, <2>4, <3>2 DEF CloseQuoted, Block
  <2>5. CASE \/ Return("pass", "PASS") \/ Return("blocked", "BLOCKED")
    BY <2>5 DEF Return
  <2>6. QED
    BY <1>5, <2>1, <2>2, <2>3, <2>4, <2>5 DEF SessionOwnSteps
<1>6. CASE ServiceOwnSteps
  <2>1. CASE FixtureSignal
    <3>1. AtStep("signal") /\ Submission(Now.id, Left)
      BY <2>1 DEF FixtureSignal
    <3>2. QED
      BY <3>1, AtNow, SubmissionNext
  <2>2. CASE FixtureCloseOwned
    <3>1. AtStep("close") /\ CloseOwned(Now.id)
      BY <2>2 DEF FixtureCloseOwned
    <3>2. QED
      BY <1>4, <3>1, AtNow
  <2>3. CASE OpenReport \/ WriteReport \/ Publish \/ Fails \/ Drain \/ PassOver \/ Confirm
    BY <1>1, <2>3 DEF OpenReport, WriteReport, Publish, Fails, Drain, PassOver, Confirm
  <2>4. CASE Execute
    <3>1. AtStep("execute") /\ Operation(CallsOf(Now.id.kind))
      BY <2>4 DEF Execute
    <3>2. QED
      BY <3>1, AtNow, QueuedOperation DEF Next
  <2>5. QED
    BY <1>6, <2>1, <2>2, <2>3, <2>4 DEF ServiceOwnSteps
<1>7. CASE World
  <2>1. CASE \E scenario \in Scenarios : Run(scenario)
    BY <2>1 DEF Run
  <2>2. CASE ServiceCalls
    <3>1. CASE StartService
      <4>1. ~started /\ Pause(TRUE) /\ UNCHANGED <<brokerVars, started, agenda, crashes>>
        BY <3>1 DEF StartService, RightOwner
      <4>2. crashes \in 0..MaxCrashes
        BY DEF ExecutorInv, EInv, BrokerOK, BrokerTyped
      <4>3. QED
        BY <4>1, <4>2 DEF Rested
    <3>2. CASE StopService
      BY <3>2 DEF StopService
    <3>3. CASE \E action \in Actions : Command(action)
      BY <1>1, <3>3 DEF Command
    <3>4. CASE \E c \in CommandIds, kind \in QueueKinds : Enqueue(c, kind)
      BY <3>4 DEF Enqueue
    <3>5. QED
      BY <2>2, <3>1, <3>2, <3>3, <3>4 DEF ServiceCalls
  <2>3. CASE OwnerDies
    <3>1. started => Crash
      BY <2>3 DEF OwnerDies, Crash
    <3>2. ASSUME ~started PROVE Rested
      <4>1. agenda = <<>>
        BY <3>2 DEF ExecutorInv, GateInv
      <4>2. crashes \in 0..MaxCrashes /\ crashes < MaxCrashes /\ MaxCrashes \in Nat
        BY <2>3, ExecutorAssumption DEF OwnerDies, ExecutorInv, EInv, BrokerOK, BrokerTyped
      <4>3. crashes' \in 0..MaxCrashes
        BY <2>3, <4>2 DEF OwnerDies
      <4>4. started = FALSE
        BY <3>2 DEF ExecutorInv, EInv, BrokerOK, BrokerTyped
      <4>5. QED
        BY <2>3, <3>2, <4>1, <4>3, <4>4 DEF OwnerDies, Rested
    <3>3. QED
      BY <3>1, <3>2 DEF Next
  <2>4. CASE BrokerMoves
    BY <2>4 DEF Next
  <2>5. QED
    BY <1>7, <2>1, <2>2, <2>3, <2>4 DEF World
<1>8. QED
  BY <1>2, <1>3, <1>5, <1>6, <1>7 DEF DatabaseNext, ProcessSteps

-----------------------------------------------------------------------------
(* What the owners write into their scripts.                               *)

(* Steps that no other step leads to.                                      *)
NewOps == InnerOps \ {"admit", "finish", "publish"}

(* One signal after the other.                                             *)
LEMMA Signalling ==
  ASSUME NEW queue, NEW signals \in Seq(Symbols)
  PROVE  /\ [k \in 1..Len(signals) |-> StepOn("signal", signals[k])] \in Seq(Steps(queue))
         /\ Members([k \in 1..Len(signals) |-> StepOn("signal", signals[k])], NewOps)
<1> DEFINE s == [k \in 1..Len(signals) |-> StepOn("signal", signals[k])]
<1>1. Len(signals) \in Nat /\ \A k \in 1..Len(signals) : signals[k] \in Symbols
  BY LenProperties, ElementOfSeq
<1>2. \A k \in 1..Len(signals) : s[k] \in Steps(queue) /\ s[k].op = "signal"
  BY <1>1, StepForms
<1>3. s = [k \in 1..Len(signals) |-> s[k]]
  OBVIOUS
<1> HIDE DEF s
<1>4. s \in Seq(Steps(queue)) /\ Len(s) = Len(signals)
  BY <1>1, <1>2, <1>3
<1>5. "signal" \in NewOps
  BY DEF NewOps, InnerOps, ResearchOps
<1>6. Members(s, NewOps)
  BY <1>2, <1>4, <1>5 DEF Members
<1>7. QED
  BY <1>4, <1>6 DEF s

(* The positions to close, one after the other.                            *)
LEMMA ClosingList ==
  ASSUME NEW queue
  PROVE  ClosingSteps \in Seq(Steps(queue)) /\ Members(ClosingSteps, NewOps)
<1> DEFINE n == Cardinality(OpenPositions)
           open == SetToSeq(OpenPositions)
<1>1. IsFiniteSet(OpenPositions)
  BY FiniteIdsAssumption, FS_Subset DEF OpenPositions
<1>2. n \in Nat /\ ExistsBijection(1..n, OpenPositions)
  BY <1>1, FS_CardinalityType
<1>3. \E f \in [1..n -> OpenPositions] : IsInjective(f)
  BY <1>2 DEF ExistsBijection, Bijection, Injection, IsInjective
<1>4. open \in [1..n -> OpenPositions]
  BY <1>3 DEF SetToSeq
<1>5. ClosingSteps = [k \in 1..n |-> StepOn("close", open[k])]
  BY DEF ClosingSteps
<1> HIDE DEF n, open
<1>6. \A k \in 1..n : open[k] \in PositionIds
  BY <1>4 DEF OpenPositions
<1>7. \A k \in 1..n : ClosingSteps[k] \in Steps(queue) /\ ClosingSteps[k].op = "close"
  BY <1>5, <1>6, StepForms
<1>8. ClosingSteps \in Seq(Steps(queue)) /\ Len(ClosingSteps) = n
  <2>1. ClosingSteps = [k \in 1..n |-> ClosingSteps[k]]
    BY <1>5
  <2>2. QED
    BY <1>2, <1>7, <2>1
<1>9. "close" \in NewOps
  BY DEF NewOps, InnerOps, ResearchOps
<1>10. QED
  BY <1>7, <1>8, <1>9 DEF Members

(* A few steps without an argument.                                        *)
LEMMA PlainLists ==
  ASSUME NEW queue, NEW e \in Steps(queue), NEW f \in Steps(queue), NEW ops
  PROVE  /\ <<e>> \in Seq(Steps(queue)) /\ <<e, f>> \in Seq(Steps(queue))
         /\ e.op \in ops => Members(<<e>>, ops)
         /\ e.op \in ops /\ f.op \in ops => Members(<<e, f>>, ops)
         /\ <<>> \in Seq(Steps(queue)) /\ Members(<<>>, ops)
BY DEF Members

(* More of them.                                                           *)
LEMMA LongLists ==
  ASSUME NEW queue, NEW e \in Steps(queue), NEW f \in Steps(queue), NEW g \in Steps(queue),
         NEW h \in Steps(queue), NEW i \in Steps(queue), NEW ops, e.op \in ops, f.op \in ops,
         g.op \in ops, h.op \in ops
  PROVE  /\ <<e, f, g, h>> \in Seq(Steps(queue)) /\ Members(<<e, f, g, h>>, ops)
         /\ <<e, f, g, h, i>> \in Seq(Steps(queue))
         /\ i.op \in ops => Members(<<e, f, g, h, i>>, ops)
BY DEF Members

(* What a session trades.                                                  *)
LEMMA Trading ==
  ASSUME NEW queue, a6_binding \in Scenarios
  PROVE  TradingSteps \in Seq(Steps(queue)) /\ Members(TradingSteps, NewOps \cup {"finish"})
<1> DEFINE ops == NewOps \cup {"finish"}
           signals == [k \in 1..Len(a6_binding.signals) |-> StepOn("signal", a6_binding.signals[k])]
           ends == <<Step("pause"), Step("cancel"), Step("closing"), Step("reconcile"), Step("finish")>>
<1>1. a6_binding.signals \in Seq(Symbols)
  BY ScenariosAssumption DEF Scenario
<1>2. signals \in Seq(Steps(queue)) /\ Members(signals, ops)
  BY <1>1, Signalling, MembersMore
<1>3. \A op \in {"arm", "pause", "cancel", "closing", "reconcile", "finish"} :
        Step(op) \in Steps(queue) /\ Step(op).op \in ops
  BY StepForms DEF PlainSteps, NewOps, InnerOps, ResearchOps
<1> HIDE DEF ops
<1>4. <<Step("arm")>> \in Seq(Steps(queue)) /\ Members(<<Step("arm")>>, ops)
  BY <1>3, PlainLists
<1>5. ends \in Seq(Steps(queue)) /\ Members(ends, ops)
  BY <1>3, LongLists
<1>6. TradingSteps = (<<Step("arm")>> \o signals) \o ends
  BY DEF TradingSteps, SignalSteps
<1> HIDE DEF signals, ends
<1>7. <<Step("arm")>> \o signals \in Seq(Steps(queue)) /\ Members(<<Step("arm")>> \o signals, ops)
  BY <1>2, <1>4, Joined, MembersJoined
<1>8. QED
  BY <1>5, <1>6, <1>7, Joined, MembersJoined DEF ops

(* A report is published where it has been written before.                 *)
Preceded(s) ==
  \A k \in 1..Len(s) : s[k].op = "publish" => \E j \in 1..(k - 1) : s[j].op \in {"research", "write"}

(* Nothing is published.                                                   *)
LEMMA PrecededMembers ==
  ASSUME NEW s, NEW ops, Members(s, ops), "publish" \notin ops
  PROVE  Preceded(s)
BY DEF Preceded, Members

(* One step alone, or a report that is written and published.              *)
LEMMA PrecededShort ==
  ASSUME NEW e, NEW f
  PROVE  /\ e.op # "publish" => Preceded(<<e>>)
         /\ e.op = "research" => Preceded(<<e, f>>)
<1>1. e.op # "publish" => Preceded(<<e>>)
  BY DEF Preceded
<1>2. ASSUME e.op = "research" PROVE Preceded(<<e, f>>)
  <2>1. <<e, f>>[1] = e /\ Len(<<e, f>>) = 2
    OBVIOUS
  <2>2. ASSUME NEW k \in 1..2, <<e, f>>[k].op = "publish"
        PROVE  \E j \in 1..(k - 1) : <<e, f>>[j].op \in {"research", "write"}
    <3>1. k # 1
      BY <1>2, <2>1, <2>2
    <3>2. 1 \in 1..(k - 1)
      BY <3>1
    <3>3. QED
      BY <1>2, <2>1, <3>2
  <2>3. QED
    BY <2>1, <2>2 DEF Preceded
<1>3. QED
  BY <1>1, <1>2

(* A script written before another one.                                    *)
LEMMA PrecededJoined ==
  ASSUME NEW S, NEW s \in Seq(S), NEW t \in Seq(S), Preceded(s), Preceded(t)
  PROVE  Preceded(s \o t)
<1> SUFFICES ASSUME NEW k \in 1..Len(s \o t), (s \o t)[k].op = "publish"
             PROVE  \E j \in 1..(k - 1) : (s \o t)[j].op \in {"research", "write"}
  BY DEF Preceded
<1>1. Len(s) \in Nat /\ Len(t) \in Nat /\ k \in Nat /\ Len(s \o t) = Len(s) + Len(t)
  BY Joined
<1>2. CASE k \in 1..Len(s)
  <2>1. PICK j \in 1..(k - 1) : s[j].op \in {"research", "write"}
    BY <1>2, Joined DEF Preceded
  <2>2. j \in 1..Len(s)
    BY <1>1, <1>2
  <2>3. (s \o t)[j] = s[j]
    BY <2>2, Joined
  <2>4. QED
    BY <2>1, <2>3
<1>3. CASE k - Len(s) \in 1..Len(t) /\ (s \o t)[k] = t[k - Len(s)]
  <2>1. PICK j \in 1..((k - Len(s)) - 1) : t[j].op \in {"research", "write"}
    BY <1>3 DEF Preceded
  <2>2. j \in 1..Len(t) /\ Len(s) + j \in 1..(k - 1)
    BY <1>1, <1>3
  <2>3. (s \o t)[Len(s) + j] = t[j]
    BY <2>2, Joined
  <2>4. QED
    BY <2>1, <2>2, <2>3
<1>4. QED
  BY <1>2, <1>3, Joined

(* What is left after another step.                                        *)
LEMMA PrecededLeft ==
  ASSUME NEW S, NEW s \in Seq(S), s # <<>>, Preceded(s)
  PROVE  /\ Head(s).op # "publish"
         /\ Head(s).op \notin {"research", "write"} => Preceded(Tail(s))
<1>1. /\ Head(s) = s[1] /\ 1 \in 1..Len(s) /\ Len(s) \in Nat /\ Len(Tail(s)) = Len(s) - 1
      /\ \A k \in 1..Len(Tail(s)) : k + 1 \in 1..Len(s) /\ Tail(s)[k] = s[k + 1]
  BY Remaining
<1>2. Head(s).op # "publish"
  <2>1. ~\E j \in 1..(1 - 1) : TRUE
    OBVIOUS
  <2>2. QED
    BY <1>1, <2>1 DEF Preceded
<1>3. ASSUME Head(s).op \notin {"research", "write"}, NEW k \in 1..Len(Tail(s)), Tail(s)[k].op = "publish"
      PROVE  \E j \in 1..(k - 1) : Tail(s)[j].op \in {"research", "write"}
  <2>1. PICK j \in 1..((k + 1) - 1) : s[j].op \in {"research", "write"}
    BY <1>1, <1>3 DEF Preceded
  <2>2. j # 1
    BY <1>1, <1>3, <2>1
  <2>3. j - 1 \in 1..(k - 1) /\ j - 1 \in 1..Len(Tail(s)) /\ (j - 1) + 1 = j
    BY <1>1, <1>3, <2>1, <2>2
  <2>4. Tail(s)[j - 1] = s[j]
    BY <1>1, <2>3
  <2>5. QED
    BY <2>1, <2>3, <2>4
<1>4. QED
  BY <1>2, <1>3 DEF Preceded

(* What the service makes of an action.                                    *)
LEMMA ProgramSteps ==
  ASSUME NEW queue, NEW action \in Actions
  PROVE  /\ Programs[action] \in Seq(Steps(queue))
         /\ Members(Programs[action], InnerOps \ {"admit", "finish"})
         /\ Preceded(Programs[action])
         /\ action = "backtest" => Programs[action] = <<Step("research"), Step("publish")>>
<1> DEFINE ops == InnerOps \ {"admit", "finish"}
           good(s) == s \in Seq(Steps(queue)) /\ Members(s, ops) /\ Preceded(s)
<1>1. \A op \in {"arm", "pause", "cancel", "closing", "reconcile", "research", "publish", "drain"} :
        Step(op) \in Steps(queue) /\ Step(op).op \in ops /\ Step(op).op = op
  BY StepForms DEF PlainSteps, InnerOps, ResearchOps
<1>2. NewOps \subseteq ops /\ "publish" \notin NewOps
  BY DEF NewOps
<1> HIDE DEF ops
<1>3. good(FixtureStart)
  <2> DEFINE signals == [k \in 1..Len(Fixture) |-> StepOn("signal", Fixture[k])]
  <2>1. good(signals)
    BY <1>2, ServiceAssumption, Signalling, MembersMore, PrecededMembers
  <2>2. good(<<Step("arm")>>)
    BY <1>1, PlainLists, PrecededShort
  <2>3. FixtureStart = <<Step("arm")>> \o signals
    BY DEF FixtureStart
  <2> HIDE DEF signals
  <2>4. QED
    BY <2>1, <2>2, <2>3, Joined, MembersJoined, PrecededJoined
<1>4. good(FixtureClose)
  <2>1. Preceded(FixtureClose)
    BY <1>1 DEF FixtureClose, Preceded
  <2>2. QED
    BY <1>1, <2>1, LongLists DEF FixtureClose
<1>5. good(FixtureStart \o FixtureClose)
  BY <1>3, <1>4, Joined, MembersJoined, PrecededJoined
<1>6. /\ good(<<Step("pause")>>) /\ good(<<Step("reconcile")>>) /\ good(<<Step("cancel")>>)
      /\ good(<<Step("drain")>>) /\ good(<<Step("research"), Step("publish")>>)
  BY <1>1, PlainLists, PrecededShort
<1>7. action \in {"fixture-start", "fixture-close", "demo-offline", "pause-entries",
                  "reconcile", "cancel-pending-entries", "backtest", "drain"}
  BY ServiceAssumption DEF Programs
<1>8. good(Programs[action]) /\ (action = "backtest" => Programs[action] = <<Step("research"), Step("publish")>>)
  <2> HIDE DEF good
  <2>1. QED
    BY <1>3, <1>4, <1>5, <1>6, <1>7 DEF Programs
<1>9. QED
  BY <1>8 DEF ops

(* A larger queue has more steps.                                          *)
LEMMA MoreSteps ==
  ASSUME NEW queue, NEW later, Queued(queue) \subseteq Queued(later), NEW s \in Seq(Steps(queue))
  PROVE  s \in Seq(Steps(later))
<1>1. Steps(queue) \subseteq Steps(later)
  BY DEF Steps
<1>2. QED
  BY <1>1, SeqMonotonic

-----------------------------------------------------------------------------
(* What a step does to the script and to the calls of the executor.         *)
Ended == {<<>>, <<Step("pass")>>, <<Step("blocked")>>}
Ending == {<<Step("exit"), Step("pass")>>, <<Step("exit"), Step("blocked")>>}
Leaving == {<<Call("pause"), Call("release")>>, <<Call("release")>>}
Underneath == Calls \ {"release"}

(* A script is before, inside or after its executor; a backtest has none.   *)
Phase ==
  \/ /\ ~started /\ agenda = <<>>
     /\ \/ script \in Ended \/ Members(script, ResearchOps)
        \/ script # <<>> /\ Now.op = "enter" /\ Inner(Left)
  \/ started /\ Members(agenda, Underneath) /\ (Inner(script) \/ script \in Ending)
  \/ started /\ agenda \in Leaving /\ script \in Ended

(* The steps that look at the scenario have one.                           *)
Bound ==
  Members(script, Ops \ {"admit", "finish"}) \/ (database = "a6" /\ a6_binding \in Scenarios)

ScriptInv == Scripted /\ RightOwner /\ Phase /\ Bound

(* The owner waits, the executor or the broker goes on.                    *)
Waiting ==
  /\ UNCHANGED <<scriptVars, a6_binding>>
  /\ UNCHANGED vars \/ BrokerMoves \/ SimulatorSteps

(* The owner takes a step inside, and has others to take before the rest.   *)
Onward(op, steps) ==
  /\ AtStep(op) /\ op \in InnerOps
  /\ steps \in Seq(Steps(commands))
  /\ Members(steps, IF op = "admit" THEN NewOps \cup {"finish"} ELSE NewOps)
  /\ script' = steps \/ script' = steps \o Left
  /\ Members(agenda', Underneath)
  /\ op \in ResearchOps => agenda' = <<>> /\ Members(steps, ResearchOps)
  /\ op = "admit" => a6_result = Nil
  /\ UNCHANGED <<owner, database, started, a6_binding>>

(* Its step raises, or the session has its result.                         *)
BreakingOff(op, steps) ==
  /\ AtStep(op) /\ op \in InnerOps
  /\ \/ steps = Aborted
     \/ /\ op \in {"admit", "finish"} /\ steps = <<Step("exit"), Step("pass")>>
        /\ reconciliation_ok /\ Flattened
  /\ script' = steps
  /\ UNCHANGED <<vars, owner, database, a6_binding>>

GoingIn ==
  /\ AtStep("enter") /\ Enter /\ script' = Left /\ UNCHANGED <<owner, database, a6_binding>>

GoingOut ==
  /\ AtStep("exit") /\ Exit /\ script' = Left /\ UNCHANGED <<owner, database, a6_binding>>

(* The script is done.                                                     *)
Ends(op) ==
  /\ AtStep(op) /\ op \in {"pass", "blocked"}
  /\ script' \in {<<>>, Left} /\ owner' \in {owner, Nil} /\ (script' = <<>> \/ owner' = owner)
  /\ UNCHANGED <<vars, database, a6_binding>>

(* A session or a command begins.                                          *)
Begins(steps) ==
  /\ ~started /\ script = <<>> /\ owner' = database
  /\ steps \in Seq(Steps(commands)) /\ script' = steps /\ Preceded(steps)
  /\ \/ Members(steps, ResearchOps)
     \/ steps # <<>> /\ Head(steps).op = "enter" /\ Inner(Tail(steps))
  /\ \/ Members(steps, Ops \ {"admit", "finish"})
     \/ database = "a6" /\ a6_binding' \in Scenarios
  /\ database = "a6" => steps = SessionSteps
  /\ UNCHANGED <<vars, database>>

(* Nobody does anything here.                                              *)
Vacant ==
  /\ ~started /\ script' = <<>> /\ script = <<>> /\ owner' \in {Nil, database}
  /\ UNCHANGED <<started, agenda, database, a6_binding>>

(* The process dies.                                                       *)
Dies ==
  /\ owner' = Nil /\ script' = <<>> /\ started' = FALSE /\ agenda' = <<>>
  /\ UNCHANGED <<database, a6_binding>>

(* The broker moves without the executor.                                  *)
LEMMA OthersMove ==
  ASSUME BrokerMoves
  PROVE  UNCHANGED <<storeVars, dispatched, unseen, started, agenda, crashes>>
BY DEF BrokerMoves, BrokerFills, BrokerEnds, StopOut, MoveOf

(* Calls the owner makes of its executor.                                  *)
LEMMA OwnersCalls ==
  /\ \A f : f.op \in Underneath => Members(<<f>>, Underneath)
  /\ \A f, g, h, k, l :
       f.op \in Underneath /\ g.op \in Underneath /\ h.op \in Underneath /\ k.op \in Underneath
         /\ l.op \in Underneath => Members(<<f, g, h, k, l>>, Underneath)
  /\ \A op \in {"pause", "reconcile_all", "cancel_all", "flatten_all", "confirm_flat"} :
       Call(op).op \in Underneath
  /\ \A i : CallOn("close", i).op \in Underneath /\ CallOn("prepare", i).op \in Underneath
  /\ Members(<<>>, Underneath)
BY DEF Members, Underneath, Calls, Call, CallOn, Frame

(* A step that starts an operation.                                        *)
LEMMA CallsOnward ==
  ASSUME Scripted, NEW op \in InnerOps \ ({"admit"} \cup ResearchOps), AtStep(op),
         NEW steps \in Seq(Steps(commands)), Members(steps, NewOps),
         Members(agenda', Underneath), UNCHANGED started,
         Calling(steps \o Left), UNCHANGED a6_binding
  PROVE  Onward(op, steps)
BY DEF Calling, Onward

(* A step of the script alone.                                             *)
LEMMA GoesOnward ==
  ASSUME Scripted, NEW op \in InnerOps \ {"admit"}, AtStep(op),
         NEW steps \in Seq(Steps(commands)), Members(steps, NewOps),
         op \in ResearchOps => Members(steps, ResearchOps),
         Goto(steps \o Left), UNCHANGED a6_binding
  PROVE  Onward(op, steps)
<1>1. UNCHANGED <<vars, owner, database>> /\ script' = steps \o Left
  BY DEF Goto, tradeVars
<1>2. agenda' = <<>> /\ UNCHANGED started
  BY <1>1 DEF vars, AtStep
<1>3. Members(agenda', Underneath)
  BY <1>2, OwnersCalls
<1>4. QED
  BY <1>1, <1>2, <1>3 DEF Onward

(* The next step follows.                                                  *)
LEMMA NothingFirst ==
  ASSUME Scripted, NEW op, AtStep(op)
  PROVE  /\ <<>> \in Seq(Steps(commands)) /\ <<>> \o Left = Left
         /\ Members(<<>>, NewOps) /\ Members(<<>>, ResearchOps)
         /\ \A e \in Steps(commands) : e.op \in NewOps =>
              <<e>> \in Seq(Steps(commands)) /\ Members(<<e>>, NewOps)
         /\ \A e, f \in Steps(commands) : e.op \in NewOps /\ f.op \in NewOps =>
              <<e, f>> \in Seq(Steps(commands)) /\ Members(<<e, f>>, NewOps)
<1>1. Left \in Seq(Steps(commands))
  BY AtNow
<1>2. <<>> \o Left = Left
  BY <1>1
<1>3. QED
  BY <1>2 DEF Members

(* A step that raises.                                                     *)
LEMMA RaisesInside ==
  ASSUME NEW op \in InnerOps, AtStep(op), Goto(Aborted), UNCHANGED a6_binding
  PROVE  BreakingOff(op, Aborted)
BY DEF Goto, tradeVars, BreakingOff

(* The submission of a signal.                                             *)
LEMMA SubmitsOnward ==
  ASSUME Scripted, AtStep("signal"), NEW steps \in Seq(Steps(commands)), Members(steps, NewOps),
         Submission(Now.id, steps \o Left), UNCHANGED a6_binding
  PROVE  Onward("signal", steps)
<1>1. "signal" \in InnerOps \ ({"admit"} \cup ResearchOps)
  BY DEF InnerOps, ResearchOps
<1>2. CASE Goto(steps \o Left)
  BY <1>1, <1>2, GoesOnward
<1>3. ASSUME NEW stop \in StopPrices, SubmitEntry(Now.id, MaxUnits, stop), Calling(steps \o Left)
      PROVE  Onward("signal", steps)
  <2>1. agenda' = <<CallOn("prepare", Now.id)>> /\ UNCHANGED started
    BY <1>3 DEF SubmitEntry, Local
  <2>2. Members(agenda', Underneath)
    BY <2>1, OwnersCalls
  <2>3. QED
    BY <1>1, <1>3, <2>1, <2>2, CallsOnward
<1>4. QED
  BY <1>2, <1>3 DEF Submission

(* The steps both owners take.                                             *)
LEMMA OwnerKinds ==
  ASSUME Scripted, OwnerSteps, KeepSession
  PROVE  \/ Waiting \/ GoingIn \/ GoingOut
         \/ \E op, steps : Onward(op, steps) \/ BreakingOff(op, steps)
<1>0. UNCHANGED a6_binding
  BY DEF KeepSession, sessionVars
<1>1. CASE SimulatorSteps /\ UNCHANGED scriptVars
  BY <1>0, <1>1 DEF Waiting
<1>2. CASE EnterExecutor
  BY <1>0, <1>2 DEF EnterExecutor, Calling, GoingIn
<1>3. CASE ExitExecutor
  BY <1>0, <1>3 DEF ExitExecutor, Calling, GoingOut
<1>4. ASSUME NEW op \in {"reconcile", "pause", "cancel"}, AtStep(op), NEW f, f.op \in Underneath,
             Operation(<<f>>), Calling(Left)
      PROVE  Onward(op, <<>>)
  <2>1. op \in InnerOps \ ({"admit"} \cup ResearchOps)
    BY DEF InnerOps, ResearchOps
  <2>2. agenda' = <<f>> /\ UNCHANGED started
    BY <1>4 DEF Operation, Internal, Local
  <2>3. Members(agenda', Underneath)
    BY <1>4, <2>2, OwnersCalls
  <2>4. <<>> \in Seq(Steps(commands)) /\ Members(<<>>, NewOps) /\ Calling(<<>> \o Left)
    BY <1>4, NothingFirst
  <2>5. QED
    BY <1>0, <1>4, <2>1, <2>2, <2>3, <2>4, CallsOnward
<1>5. CASE Reconcile \/ PauseEntries \/ CancelEntries
  BY <1>4, <1>5, OwnersCalls DEF Reconcile, PauseEntries, CancelEntries
<1>6. CASE Arm
  <2>1. AtStep("arm") /\ "arm" \in InnerOps \ ({"admit"} \cup ResearchOps)
    BY <1>6 DEF Arm, InnerOps, ResearchOps
  <2>2. <<>> \in Seq(Steps(commands)) /\ Members(<<>>, NewOps) /\ <<>> \o Left = Left
    BY <2>1, NothingFirst
  <2>3. CASE ArmOffline /\ Calling(Left)
    <3>1. agenda' = <<>> /\ UNCHANGED started
      BY <2>3 DEF ArmOffline, Local
    <3>2. Members(agenda', Underneath)
      BY <3>1, OwnersCalls
    <3>3. QED
      BY <1>0, <2>1, <2>2, <2>3, <3>1, <3>2, CallsOnward
  <2>4. CASE Goto(Aborted)
    BY <1>0, <2>1, <2>4, RaisesInside
  <2>5. QED
    BY <1>6, <2>3, <2>4 DEF Arm
<1>7. CASE Closing
  <2>1. AtStep("closing") /\ "closing" \in InnerOps \ ({"admit"} \cup ResearchOps) /\ Goto(ClosingSteps \o Left)
    BY <1>7 DEF Closing, InnerOps, ResearchOps
  <2>2. QED
    BY <1>0, <2>1, ClosingList, GoesOnward
<1>8. QED
  BY <1>1, <1>2, <1>3, <1>5, <1>6, <1>7 DEF OwnerSteps

(* Who looks at the scenario has one.                                      *)
LEMMA BoundNow ==
  ASSUME Scripted, Bound, NEW op \in {"admit", "finish"}, AtStep(op)
  PROVE  database = "a6" /\ a6_binding \in Scenarios
<1>1. script # <<>> /\ Head(script).op = op
  BY DEF AtStep, Now
<1>2. ASSUME Members(script, Ops \ {"admit", "finish"}) PROVE FALSE
  BY <1>1, <1>2, MembersLeft DEF Scripted
<1>3. QED
  BY <1>2 DEF Bound

(* The steps of a session (session.py run).                                *)
LEMMA SessionKinds ==
  ASSUME Scripted, Bound, SessionOwnSteps
  PROVE  \E op, steps : Onward(op, steps) \/ BreakingOff(op, steps) \/ Ends(op)
<1>1. ASSUME NEW op \in InnerOps, AtStep(op), Block PROVE BreakingOff(op, Aborted)
  BY <1>1, RaisesInside DEF Block, KeepSession, sessionVars
<1>2. ASSUME NEW op \in InnerOps \ {"admit"}, AtStep(op), Goto(Left), KeepSession
      PROVE  Onward(op, <<>>)
  BY <1>2, NothingFirst, GoesOnward DEF KeepSession, sessionVars
<1>3. CASE Admit
  <2>1. AtStep("admit") /\ "admit" \in InnerOps
    BY <1>3 DEF Admit, InnerOps
  <2>2. CASE Block
    BY <1>1, <2>1, <2>2
  <2>3. CASE a6_result = Nil /\ Goto(TradingSteps) /\ KeepSession
    <3>1. UNCHANGED <<vars, owner, database, a6_binding>> /\ script' = TradingSteps
      BY <2>3 DEF Goto, tradeVars, KeepSession, sessionVars
    <3>2. agenda' = <<>> /\ UNCHANGED started
      BY <2>1, <3>1 DEF vars, AtStep
    <3>3. TradingSteps \in Seq(Steps(commands)) /\ Members(TradingSteps, NewOps \cup {"finish"})
      BY <2>1, BoundNow, Trading
    <3>4. Members(agenda', Underneath)
      BY <3>2, OwnersCalls
    <3>5. Onward("admit", TradingSteps)
      BY <2>1, <2>3, <3>1, <3>2, <3>3, <3>4 DEF Onward, ResearchOps
    <3>6. QED
      BY <3>5
  <2>4. CASE /\ Goto(<<Step("exit"), Step("pass")>>) /\ KeepSession
             /\ reconciliation_ok /\ Flattened
    <3>1. BreakingOff("admit", <<Step("exit"), Step("pass")>>)
      BY <2>1, <2>4 DEF Goto, tradeVars, KeepSession, sessionVars, BreakingOff
    <3>2. QED
      BY <3>1
  <2>5. QED
    BY <1>3, <2>2, <2>3, <2>4 DEF Admit
<1>4. CASE Signal
  <2>1. AtStep("signal") /\ "signal" \in InnerOps \ {"admit"}
    BY <1>4 DEF Signal, InnerOps
  <2>2. CASE Block
    BY <1>1, <2>1, <2>2
  <2>3. CASE Goto(Left) /\ KeepSession
    BY <1>2, <2>1, <2>3
  <2>4. CASE Submission(Now.id, <<StepOn("settle", Now.id), Step("reconciled")>> \o Left) /\ KeepSession
    <3> DEFINE steps == <<StepOn("settle", Now.id), Step("reconciled")>>
    <3>1. /\ StepOn("settle", Now.id) \in Steps(commands) /\ Step("reconciled") \in Steps(commands)
          /\ StepOn("settle", Now.id).op \in NewOps /\ Step("reconciled").op \in NewOps
      BY <2>1, AtNow, StepForms DEF PlainSteps, NewOps, InnerOps, ResearchOps
    <3>2. steps \in Seq(Steps(commands)) /\ Members(steps, NewOps)
      BY <2>1, <3>1, NothingFirst
    <3>3. UNCHANGED a6_binding /\ Submission(Now.id, steps \o Left)
      BY <2>4 DEF KeepSession, sessionVars
    <3> HIDE DEF steps
    <3>4. Onward("signal", steps)
      BY <2>1, <3>2, <3>3, SubmitsOnward
    <3>5. QED
      BY <3>4
  <2>5. QED
    BY <1>4, <2>2, <2>3, <2>4 DEF Signal
<1>5. CASE Settle
  <2>1. AtStep("settle") /\ "settle" \in InnerOps \ ({"admit"} \cup ResearchOps)
    BY <1>5 DEF Settle, InnerOps, ResearchOps
  <2>2. CASE Block
    BY <1>1, <2>1, <2>2
  <2>3. CASE Operation(<<Call("reconcile_all")>>) /\ Calling(Left) /\ KeepSession
    <3>1. /\ Members(agenda', Underneath) /\ UNCHANGED started
      BY <2>3, OwnersCalls DEF Operation, Internal, Local
    <3>2. Onward("settle", <<>>)
      BY <2>1, <2>3, <3>1, NothingFirst, CallsOnward DEF KeepSession, sessionVars
    <3>3. QED
      BY <3>2
  <2>4. QED
    BY <1>5, <2>2, <2>3 DEF Settle
<1>6. CASE Reconciled
  <2>1. AtStep("reconciled") /\ "reconciled" \in InnerOps \ {"admit"}
    BY <1>6 DEF Reconciled, InnerOps
  <2>2. QED
    BY <1>1, <1>2, <1>6, <2>1 DEF Reconciled
<1>7. CASE CloseQuoted
  <2>1. AtStep("close") /\ "close" \in InnerOps \ ({"admit"} \cup ResearchOps)
    BY <1>7 DEF CloseQuoted, InnerOps, ResearchOps
  <2>2. CASE Block
    BY <1>1, <2>1, <2>2
  <2>3. CASE CloseOwned(Now.id) /\ KeepSession
    <3>1. Members(agenda', Underneath) /\ UNCHANGED started /\ Calling(Left)
      BY <2>3, OwnersCalls DEF CloseOwned, Operation, Internal, Local
    <3>2. Onward("close", <<>>)
      BY <2>1, <2>3, <3>1, NothingFirst, CallsOnward DEF KeepSession, sessionVars
    <3>3. QED
      BY <3>2
  <2>4. QED
    BY <1>7, <2>2, <2>3 DEF CloseQuoted
<1>8. CASE Finish
  <2>1. AtStep("finish") /\ "finish" \in InnerOps
    BY <1>8 DEF Finish, InnerOps
  <2>2. CASE Block
    BY <1>1, <2>1, <2>2
  <2>3. CASE /\ Goto(<<Step("exit"), Step("pass")>>) /\ UNCHANGED a6_binding
             /\ reconciliation_ok /\ Flattened
    <3>1. BreakingOff("finish", <<Step("exit"), Step("pass")>>)
      BY <2>1, <2>3 DEF Goto, tradeVars, BreakingOff
    <3>2. QED
      BY <3>1
  <2>4. QED
    BY <1>8, <2>2, <2>3 DEF Finish
<1>9. CASE Return("pass", "PASS") \/ Return("blocked", "BLOCKED")
  <2>1. Ends("pass") \/ Ends("blocked")
    BY <1>9 DEF Return, Ends
  <2>2. QED
    BY <2>1
<1>10. QED
  BY <1>3, <1>4, <1>5, <1>6, <1>7, <1>8, <1>9 DEF SessionOwnSteps

(* The steps of the service (service.py command, engine.py                  *)
(* process_commands).                                                      *)
LEMMA ServiceKinds ==
  ASSUME Scripted, ServiceOwnSteps, KeepSession
  PROVE  \E op, steps : Onward(op, steps) \/ BreakingOff(op, steps) \/ Ends(op)
<1>0. UNCHANGED a6_binding
  BY DEF KeepSession, sessionVars
<1>1. ASSUME NEW op \in InnerOps \ {"admit"}, AtStep(op), Goto(Left)
      PROVE  Onward(op, <<>>)
  BY <1>0, <1>1, NothingFirst, GoesOnward
<1>2. CASE FixtureSignal
  <2>1. AtStep("signal") /\ Submission(Now.id, Left)
    BY <1>2 DEF FixtureSignal
  <2>2. <<>> \in Seq(Steps(commands)) /\ Members(<<>>, NewOps) /\ <<>> \o Left = Left
    BY <2>1, NothingFirst
  <2>3. Onward("signal", <<>>)
    BY <1>0, <2>1, <2>2, SubmitsOnward
  <2>4. QED
    BY <2>3
<1>3. CASE FixtureCloseOwned
  <2>1. AtStep("close") /\ "close" \in InnerOps \ ({"admit"} \cup ResearchOps) /\ CloseOwned(Now.id)
    BY <1>3 DEF FixtureCloseOwned, InnerOps, ResearchOps
  <2>2. Members(agenda', Underneath) /\ UNCHANGED started /\ Calling(Left)
    BY <2>1, OwnersCalls DEF CloseOwned, Operation, Internal, Local
  <2>3. Onward("close", <<>>)
    BY <1>0, <2>1, <2>2, NothingFirst, CallsOnward
  <2>4. QED
    BY <2>3
<1>4. CASE OpenReport
  <2>1. AtStep("research") /\ "research" \in InnerOps \ {"admit"}
    BY <1>4 DEF OpenReport, InnerOps, ResearchOps
  <2>2. CASE Goto(Aborted)
    BY <1>0, <2>1, <2>2, RaisesInside
  <2>3. CASE Goto(<<Step("write")>> \o Left)
    <3>1. Step("write") \in Steps(commands) /\ Step("write").op \in NewOps
      BY StepForms DEF PlainSteps, NewOps, InnerOps, ResearchOps
    <3>2. Members(<<Step("write")>>, ResearchOps)
      BY StepForms DEF Members, PlainSteps, ResearchOps
    <3>3. Onward("research", <<Step("write")>>)
      BY <1>0, <2>1, <2>3, <3>1, <3>2, NothingFirst, GoesOnward
    <3>4. QED
      BY <3>3
  <2>4. QED
    BY <1>4, <2>2, <2>3 DEF OpenReport
<1>5. CASE WriteReport \/ Publish \/ PassOver \/ Confirm
  <2>1. \E op \in {"write", "publish", "execute", "confirm"} : AtStep(op) /\ Goto(Left)
    BY <1>5 DEF WriteReport, Publish, PassOver, Confirm
  <2>2. {"write", "publish", "execute", "confirm"} \subseteq InnerOps \ {"admit"}
    BY DEF InnerOps, ResearchOps
  <2>3. QED
    BY <1>1, <2>1, <2>2
<1>6. CASE Fails
  <2>1. Ends("blocked")
    BY <1>0, <1>6 DEF Fails, Goto, tradeVars, Ends
  <2>2. QED
    BY <2>1
<1>7. CASE Drain
  <2> DEFINE steps == [k \in 1..Len(commands) |-> StepOn("execute", commands[k])]
  <2>1. AtStep("drain") /\ "drain" \in InnerOps \ ({"admit"} \cup ResearchOps) /\ Goto(steps \o Left)
    BY <1>7 DEF Drain, InnerOps, ResearchOps
  <2>2. /\ Len(commands) \in Nat /\ DOMAIN commands = 1..Len(commands)
        /\ \A k \in 1..Len(commands) : commands[k] \in Requests
    BY LenProperties, ElementOfSeq DEF Scripted
  <2>3. \A k \in 1..Len(commands) : commands[k] \in Queued(commands)
    BY <2>2 DEF Queued
  <2>4. \A k \in 1..Len(commands) : steps[k] \in Steps(commands) /\ steps[k].op = "execute"
    BY <2>3, StepForms
  <2>5. steps \in Seq(Steps(commands)) /\ Len(steps) = Len(commands)
    <3>1. steps = [k \in 1..Len(commands) |-> steps[k]]
      OBVIOUS
    <3> HIDE DEF steps
    <3>2. QED
      BY <2>2, <2>4, <3>1
  <2> HIDE DEF steps
  <2>6. Members(steps, NewOps)
    BY <2>4, <2>5 DEF Members, NewOps, InnerOps
  <2>7. Onward("drain", steps)
    BY <1>0, <2>1, <2>5, <2>6, GoesOnward
  <2>8. QED
    BY <2>7
<1>8. CASE Execute
  <2>1. /\ AtStep("execute") /\ "execute" \in InnerOps \ ({"admit"} \cup ResearchOps)
        /\ Operation(CallsOf(Now.id.kind)) /\ Calling(<<StepOn("confirm", Now.id)>> \o Left)
    BY <1>8 DEF Execute, InnerOps, ResearchOps
  <2>2. Now.id \in Queued(commands)
    BY <2>1, AtNow
  <2>3. Members(CallsOf(Now.id.kind), Underneath)
    BY <2>2, QueuedKinds, OwnersCalls DEF CallsOf
  <2>4. Members(agenda', Underneath) /\ UNCHANGED started
    BY <2>1, <2>3 DEF Operation, Internal, Local
  <2>5. /\ <<StepOn("confirm", Now.id)>> \in Seq(Steps(commands))
        /\ Members(<<StepOn("confirm", Now.id)>>, NewOps)
    <3>1. /\ StepOn("confirm", Now.id) \in Steps(commands)
          /\ StepOn("confirm", Now.id).op = "confirm" /\ "confirm" \in NewOps
      BY <2>2, StepForms DEF NewOps, InnerOps, ResearchOps
    <3>2. QED
      BY <2>1, <3>1, NothingFirst
  <2>6. Onward("execute", <<StepOn("confirm", Now.id)>>)
    BY <1>0, <2>1, <2>4, <2>5, CallsOnward
  <2>7. QED
    BY <2>6
<1>9. QED
  BY <1>2, <1>3, <1>4, <1>5, <1>6, <1>7, <1>8 DEF ServiceOwnSteps

-----------------------------------------------------------------------------
(* Every step is of one of these kinds.                                    *)
Kinds ==
  \/ Waiting \/ GoingIn \/ GoingOut \/ Vacant \/ Dies
  \/ \E op, steps : Onward(op, steps) \/ BreakingOff(op, steps) \/ Ends(op)
  \/ \E steps : Begins(steps)

(* Who holds the lock of a database is its owner.                          *)
LEMMA OwnedBy ==
  ASSUME RightOwner
  PROVE  /\ owner = "service" => database = "service"
         /\ owner = Nil => ~started /\ script = <<>>
         /\ "a6" # Nil /\ "service" # Nil
BY OwnersAssumption DEF RightOwner

(* The steps of the users and of the world.                                *)
LEMMA WorldKinds ==
  ASSUME ExecutorInv, ScriptInv, World
  PROVE  Kinds
<1>0. Scripted /\ RightOwner
  BY DEF ScriptInv
<1>1. ASSUME NEW scenario \in Scenarios, Run(scenario) PROVE Kinds
  <2>1. ~started /\ script = <<>> /\ database = "a6" /\ UNCHANGED <<vars, database>>
    BY <1>0, <1>1, OwnedBy DEF Run
  <2>2. UNCHANGED <<started, agenda>>
    BY <2>1 DEF vars
  <2>3. CASE BindingAccepted(scenario)
    <3>1. a6_binding' = scenario /\ owner' = database /\ script' = SessionSteps
      BY <1>1, <2>1, <2>3 DEF Run
    <3>2. /\ Step("enter") \in Steps(commands) /\ Step("admit") \in Steps(commands)
          /\ Step("enter").op = "enter" /\ Step("admit").op = "admit"
      BY StepForms DEF PlainSteps
    <3>3. /\ SessionSteps \in Seq(Steps(commands)) /\ SessionSteps # <<>>
          /\ Head(SessionSteps) = Step("enter") /\ Tail(SessionSteps) = <<Step("admit")>>
      BY <3>2, PlainLists DEF SessionSteps
    <3>4. Inner(<<Step("admit")>>)
      BY <3>2 DEF Inner, InnerOps
    <3>7. Preceded(SessionSteps)
      BY <3>2 DEF SessionSteps, Preceded
    <3>5. Begins(SessionSteps)
      BY <2>1, <3>1, <3>2, <3>3, <3>4, <3>7 DEF Begins
    <3>6. QED
      BY <3>5 DEF Kinds
  <2>4. CASE ~BindingAccepted(scenario)
    <3>1. owner' = owner /\ script' = script /\ a6_binding' = a6_binding /\ owner = Nil
      BY <1>1, <2>4 DEF Run
    <3>2. Vacant
      BY <2>1, <2>2, <3>1 DEF Vacant
    <3>3. QED
      BY <3>2 DEF Kinds
  <2>5. QED
    BY <2>3, <2>4
<1>2. ASSUME UNCHANGED a6_binding, StartService \/ StopService PROVE Kinds
  <2>1. ~started /\ script = <<>> /\ UNCHANGED <<script, database, started, agenda>>
    BY <1>0, <1>2, OwnedBy DEF StartService, StopService, vars
  <2>2. owner' \in {Nil, database}
    BY <1>0, <1>2, OwnedBy DEF StartService, StopService
  <2>3. Vacant
    BY <1>2, <2>1, <2>2 DEF Vacant
  <2>4. QED
    BY <2>3 DEF Kinds
<1>3. ASSUME NEW action \in Actions, Command(action), UNCHANGED a6_binding PROVE Kinds
  <2> DEFINE program == Programs[action]
             steps == IF action = "backtest" THEN program
                      ELSE <<Step("enter")>> \o program \o <<Step("exit")>>
             ops == InnerOps \ {"admit", "finish"}
  <2>1. /\ owner = "service" /\ ~started /\ script = <<>> /\ script' = steps
        /\ UNCHANGED <<vars, database>> /\ owner' = owner
    BY <1>3 DEF Command, Goto, tradeVars
  <2>2. owner' = database /\ database # "a6"
    BY <1>0, <2>1, OwnedBy
  <2>3. /\ program \in Seq(Steps(commands)) /\ Members(program, ops) /\ Preceded(program)
        /\ action = "backtest" => program = <<Step("research"), Step("publish")>>
    BY ProgramSteps
  <2>4. /\ \A op \in {"enter", "exit", "research", "publish"} :
             Step(op) \in Steps(commands) /\ Step(op).op = op
    BY StepForms DEF PlainSteps, ResearchOps
  <2>5. CASE action = "backtest"
    <3>1. Members(<<Step("research"), Step("publish")>>, ResearchOps)
      <4>1. Step("research").op \in ResearchOps /\ Step("publish").op \in ResearchOps
        BY <2>4 DEF ResearchOps
      <4>2. QED
        BY <2>4, <4>1, PlainLists
    <3>2. ResearchOps \subseteq Ops \ {"admit", "finish"}
      BY DEF Ops, InnerOps, ResearchOps
    <3>3. steps \in Seq(Steps(commands)) /\ Members(steps, ResearchOps) /\ Preceded(steps)
      BY <2>3, <2>5, <3>1
    <3> HIDE DEF steps
    <3>4. Begins(steps)
      BY <2>1, <2>2, <3>2, <3>3, MembersMore DEF Begins
    <3>5. QED
      BY <3>4 DEF Kinds
  <2>6. CASE action # "backtest"
    <3> DEFINE first == <<Step("enter")>>
               last == <<Step("exit")>>
    <3>1. steps = (first \o program) \o last
      BY <2>6
    <3>2. /\ first \in Seq(Steps(commands)) /\ last \in Seq(Steps(commands))
          /\ Members(first, Ops \ {"admit", "finish"}) /\ Members(last, Ops \ {"admit", "finish"})
          /\ Preceded(first) /\ Preceded(last)
      BY <2>4, PlainLists, PrecededShort DEF Ops
    <3>3. Members(program, Ops \ {"admit", "finish"}) /\ Members(program, InnerOps)
      BY <2>3, MembersMore DEF Ops
    <3>4. Inner(last)
      BY <2>4 DEF Inner
    <3> DEFINE tail == program \o last
    <3>5. Inner(tail) /\ tail \in Seq(Steps(commands))
      BY <2>3, <3>2, <3>3, <3>4, InnerJoined, Joined
    <3>6. steps = first \o tail
      <4> HIDE DEF first, last, program, steps
      <4>1. (first \o program) \o last = first \o (program \o last)
        BY <2>3, <3>2, ConcatAssociative
      <4>2. QED
        BY <3>1, <4>1
    <3>7. ASSUME NEW e, NEW t \in Seq(Steps(commands))
          PROVE  <<e>> \o t # <<>> /\ Head(<<e>> \o t) = e /\ Tail(<<e>> \o t) = t
      BY AboveProperties DEF Above
    <3>8. /\ steps \in Seq(Steps(commands)) /\ Members(steps, Ops \ {"admit", "finish"})
          /\ Preceded(steps)
      <4>1. /\ first \o program \in Seq(Steps(commands)) /\ Preceded(first \o program)
            /\ Members(first \o program, Ops \ {"admit", "finish"})
        BY <2>3, <3>2, <3>3, Joined, MembersJoined, PrecededJoined
      <4> HIDE DEF first, last, program, steps
      <4>2. QED
        BY <3>1, <3>2, <3>3, <4>1, Joined, MembersJoined, PrecededJoined
    <3> HIDE DEF tail, steps
    <3>9. steps # <<>> /\ Head(steps) = Step("enter") /\ Tail(steps) = tail
      BY <3>5, <3>6, <3>7
    <3>10. Begins(steps)
      BY <2>1, <2>2, <2>4, <3>5, <3>8, <3>9 DEF Begins
    <3>11. QED
      BY <3>10 DEF Kinds
  <2>7. QED
    BY <2>5, <2>6
<1>4. ASSUME UNCHANGED a6_binding, \/ \E c \in CommandIds, kind \in QueueKinds : Enqueue(c, kind)
                                   \/ BrokerMoves /\ UNCHANGED scriptVars
      PROVE  Kinds
  <2>1. UNCHANGED scriptVars /\ (UNCHANGED vars \/ BrokerMoves)
    BY <1>4 DEF Enqueue
  <2>2. Waiting
    BY <1>4, <2>1 DEF Waiting
  <2>3. QED
    BY <2>2 DEF Kinds
<1>5. CASE OwnerDies /\ UNCHANGED a6_binding
  BY <1>5 DEF OwnerDies, Dies, Kinds
<1>6. QED
  BY <1>1, <1>2, <1>3, <1>4, <1>5 DEF World, ServiceCalls, KeepSession, sessionVars

(* So is every step.                                                       *)
LEMMA AllKinds ==
  ASSUME ExecutorInv, ScriptInv, [DatabaseNext]_allVars
  PROVE  Kinds
<1>0. Scripted /\ Bound
  BY DEF ScriptInv
<1>1. ASSUME OwnerSteps, KeepSession PROVE Kinds
  BY <1>0, <1>1, OwnerKinds DEF Kinds
<1>2. ASSUME SessionOwnSteps PROVE Kinds
  BY <1>0, <1>2, SessionKinds DEF Kinds
<1>3. ASSUME ServiceOwnSteps, KeepSession PROVE Kinds
  BY <1>0, <1>3, ServiceKinds DEF Kinds
<1>4. ASSUME UNCHANGED allVars PROVE Kinds
  BY <1>4 DEF allVars, sessionVars, Waiting, Kinds
<1>5. QED
  BY <1>1, <1>2, <1>3, <1>4, WorldKinds DEF DatabaseNext, ProcessSteps

-----------------------------------------------------------------------------
(* The queue grows, and its rows keep what they ask for.                   *)
LEMMA QueueNext ==
  ASSUME Scripted, [DatabaseNext]_allVars
  PROVE  /\ commands' \in Seq(Requests) /\ Unrepeated(commands')
         /\ DOMAIN commands \subseteq DOMAIN commands'
         /\ \A k \in DOMAIN commands :
              commands'[k].id = commands[k].id /\ commands'[k].kind = commands[k].kind
         /\ Queued(commands) \subseteq Queued(commands')
<1>0. /\ Len(commands) \in Nat /\ DOMAIN commands = 1..Len(commands)
      /\ \A k \in DOMAIN commands : commands[k] \in Requests
      /\ commands \in Seq(Requests) /\ Unrepeated(commands)
  BY LenProperties, ElementOfSeq DEF Scripted
<1>1. ASSUME commands' \in Seq(Requests), Unrepeated(commands'), DOMAIN commands \subseteq DOMAIN commands',
             \A k \in DOMAIN commands :
               commands'[k].id = commands[k].id /\ commands'[k].kind = commands[k].kind
      PROVE  Queued(commands) \subseteq Queued(commands')
  BY <1>1 DEF Queued
<1>2. CASE UNCHANGED commands
  BY <1>0, <1>1, <1>2
<1>3. ASSUME NEW c \in CommandIds, NEW kind \in QueueKinds, Enqueue(c, kind)
      PROVE  /\ commands' \in Seq(Requests) /\ Unrepeated(commands')
             /\ DOMAIN commands \subseteq DOMAIN commands'
             /\ \A k \in DOMAIN commands : commands'[k] = commands[k]
  <2> DEFINE row == [id |-> c, kind |-> kind, status |-> "PENDING"]
  <2>1. row \in Requests /\ row.id = c
    BY DEF Requests
  <2>2. commands' = Append(commands, row) /\ \A k \in DOMAIN commands : commands[k].id # c
    BY <1>3 DEF Enqueue
  <2> HIDE DEF row
  <2>3. /\ commands' \in Seq(Requests) /\ DOMAIN commands' = 1..(Len(commands) + 1)
        /\ \A k \in 1..Len(commands) : commands'[k] = commands[k]
        /\ commands'[Len(commands) + 1] = row
    BY <1>0, <2>1, <2>2, AppendProperties, LenProperties
  <2>4. \A k \in DOMAIN commands' : k \in DOMAIN commands \/ k = Len(commands) + 1
    BY <1>0, <2>3
  <2>5. Unrepeated(commands')
    BY <1>0, <2>1, <2>2, <2>3, <2>4 DEF Unrepeated
  <2>6. QED
    BY <1>0, <2>3, <2>5
<1>4. CASE Confirm
  <2>1. AtStep("confirm")
    BY <1>4 DEF Confirm
  <2>2. Now.id \in Queued(commands)
    BY <2>1, AtNow
  <2> DEFINE status == FinalStatus(Now.id)
  <2>3. status \in {"DONE", "BLOCKED"}
    BY DEF FinalStatus
  <2>4. commands' = [k \in DOMAIN commands |->
                       IF commands[k].id = Now.id.id THEN [commands[k] EXCEPT !.status = status]
                       ELSE commands[k]]
    BY <1>4 DEF Confirm
  <2> HIDE DEF status
  <2>5. /\ DOMAIN commands' = 1..Len(commands)
        /\ \A k \in DOMAIN commands :
             /\ commands'[k] \in Requests
             /\ commands'[k].id = commands[k].id /\ commands'[k].kind = commands[k].kind
    BY <1>0, <2>3, <2>4 DEF Requests
  <2>6. commands' \in Seq(Requests)
    <3>1. commands' = [k \in 1..Len(commands) |-> commands'[k]]
      BY <1>0, <2>4
    <3>2. QED
      BY <1>0, <2>5, <3>1
  <2>7. Unrepeated(commands')
    BY <1>0, <2>5 DEF Unrepeated
  <2>8. QED
    BY <1>0, <1>1, <2>5, <2>6, <2>7
<1>5. CASE ProcessSteps
  BY <1>2, <1>4, <1>5 DEF ProcessSteps, KeepService, serviceVars, ServiceOwnSteps, FixtureSignal,
     FixtureCloseOwned, OpenReport, WriteReport, Publish, Fails, Drain, PassOver, Execute
<1>6. CASE World
  <2>1. UNCHANGED commands \/ \E c \in CommandIds, kind \in QueueKinds : Enqueue(c, kind)
    BY <1>6 DEF World, KeepService, serviceVars, ServiceCalls, StartService, StopService, Command
  <2>2. QED
    BY <1>0, <1>1, <1>2, <1>3, <2>1
<1>7. QED
  BY <1>2, <1>5, <1>6 DEF DatabaseNext, allVars, serviceVars

(* The ends of a script.                                                   *)
LEMMA EndingLists ==
  ASSUME NEW queue
  PROVE  /\ <<Step("exit"), Step("pass")>> \in Seq(Steps(queue))
         /\ <<Step("exit"), Step("blocked")>> \in Seq(Steps(queue))
         /\ <<Step("pass")>> \in Seq(Steps(queue)) /\ <<Step("blocked")>> \in Seq(Steps(queue))
         /\ <<>> \in Seq(Steps(queue))
         /\ \A s \in Ended \cup Ending : Members(s, {"exit", "pass", "blocked"})
         /\ \A s \in Ended \cup Ending : s # <<>> =>
              IF s \in Ended THEN Head(s).op \in {"pass", "blocked"} /\ Tail(s) = <<>>
              ELSE Head(s).op = "exit" /\ Tail(s) \in Ended
<1>1. /\ Step("exit") \in Steps(queue) /\ Step("pass") \in Steps(queue)
      /\ Step("blocked") \in Steps(queue)
      /\ Step("exit").op = "exit" /\ Step("pass").op = "pass" /\ Step("blocked").op = "blocked"
  BY StepForms DEF PlainSteps
<1>2. \A s \in Ended \cup Ending : Members(s, {"exit", "pass", "blocked"})
  BY <1>1 DEF Ended, Ending, Members
<1>7. ASSUME NEW e PROVE Head(<<e>>) = e /\ Tail(<<e>>) = <<>>
  OBVIOUS
<1>8. ASSUME NEW e, NEW f PROVE <<e, f>> # <<>> /\ Head(<<e, f>>) = e /\ Tail(<<e, f>>) = <<f>>
  OBVIOUS
<1>3. ASSUME NEW s \in Ended, s # <<>> PROVE Head(s).op \in {"pass", "blocked"} /\ Tail(s) = <<>>
  <2>1. s = <<Step("pass")>> \/ s = <<Step("blocked")>>
    BY <1>3 DEF Ended
  <2>2. Head(s) \in {Step("pass"), Step("blocked")} /\ Tail(s) = <<>>
    BY <1>7, <2>1
  <2>3. QED
    BY <1>1, <2>2
<1>4. ASSUME NEW s \in Ending PROVE s # <<>> /\ Head(s).op = "exit" /\ Tail(s) \in Ended
  <2>1. \/ s = <<Step("exit"), Step("pass")>>
        \/ s = <<Step("exit"), Step("blocked")>>
    BY <1>4 DEF Ending
  <2>2. s # <<>> /\ Head(s) = Step("exit") /\ Tail(s) \in {<<Step("pass")>>, <<Step("blocked")>>}
    BY <1>8, <2>1
  <2>3. QED
    BY <1>1, <2>2 DEF Ended
<1>5. /\ <<Step("exit"), Step("pass")>> \in Seq(Steps(queue))
      /\ <<Step("exit"), Step("blocked")>> \in Seq(Steps(queue))
      /\ <<Step("pass")>> \in Seq(Steps(queue)) /\ <<Step("blocked")>> \in Seq(Steps(queue))
      /\ <<>> \in Seq(Steps(queue))
  BY <1>1
<1>6. QED
  BY <1>2, <1>3, <1>4, <1>5

(* What is left of a script whose step raised.                             *)
LEMMA AbortedList == Aborted = IF started THEN <<Step("exit"), Step("blocked")>> ELSE <<Step("blocked")>>
<1> DEFINE e == Step("exit")
           b == Step("blocked")
<1>1. Aborted = (IF started THEN <<e>> ELSE <<>>) \o <<b>>
  BY DEF Aborted
<1> HIDE DEF e, b
<1>2. <<e>> \o <<b>> = <<e, b>> /\ <<>> \o <<b>> = <<b>>
  <2>1. <<b>> \in Seq({b})
    OBVIOUS
  <2>2. <<>> \o <<b>> = <<b>>
    BY <2>1
  <2>3. QED
    BY <2>2, Pair
<1>3. Aborted = IF started THEN <<e, b>> ELSE <<b>>
  BY <1>1, <1>2
<1>4. QED
  BY <1>3 DEF e, b

(* At a step, nothing runs.                                                *)
LEMMA PhaseNow ==
  ASSUME Scripted, Phase, NEW op, AtStep(op)
  PROVE  /\ op \in InnerOps => \/ ~started /\ op \in ResearchOps /\ Members(script, ResearchOps)
                               \/ started /\ Inner(script)
         /\ op = "enter" => ~started /\ Inner(Left)
         /\ op = "exit" => started /\ Left \in Ended
         /\ op \in {"pass", "blocked"} => ~started /\ Left = <<>>
<1>1. script # <<>> /\ Head(script).op = op /\ agenda = <<>> /\ Now = Head(script) /\ Left = Tail(script)
  BY DEF AtStep, Now, Left
<1>2. agenda \notin Leaving
  BY <1>1 DEF Leaving
<1>3. script \in Seq(Steps(commands))
  BY DEF Scripted
<1>4. script \in Ended => op \in {"pass", "blocked"} /\ Left = <<>>
  BY <1>1, EndingLists
<1>5. ASSUME script \in Ending PROVE op = "exit" /\ Left \in Ended
  <2>1. script \notin Ended
    BY <1>5 DEF Ending, Ended
  <2>2. QED
    BY <1>1, <1>5, <2>1, EndingLists
<1>6. Members(script, ResearchOps) => op \in ResearchOps
  BY <1>1, <1>3, MembersLeft
<1>7. Inner(script) => op \in InnerOps \cup {"exit"} /\ (op = "exit" => Left = <<>>)
  BY <1>1, <1>3, InnerLeft
<1>8. <<>> \in Ended
  BY DEF Ended
<1>9. /\ "enter" \notin InnerOps /\ "exit" \notin InnerOps /\ "pass" \notin InnerOps
      /\ "blocked" \notin InnerOps /\ ResearchOps \subseteq InnerOps
  BY DEF InnerOps, ResearchOps
<1>10. \/ ~started /\ \/ script \in Ended \/ Members(script, ResearchOps)
                      \/ op = "enter" /\ Inner(Left)
       \/ started /\ (Inner(script) \/ script \in Ending)
  BY <1>1, <1>2 DEF Phase
<1>11. QED
  BY <1>4, <1>5, <1>6, <1>7, <1>8, <1>9, <1>10

(* The last calls of an executor.                                          *)
LEMMA LastCalls ==
  ASSUME EInv, SimulatorSteps, agenda \in Leaving
  PROVE  \/ /\ agenda = <<Call("pause"), Call("release")>> /\ PauseCall
            /\ agenda' = <<Call("release")>> /\ UNCHANGED started
         \/ agenda = <<Call("release")>> /\ Release /\ agenda' = <<>> /\ started' = FALSE
<1>1. /\ Call("pause").op = "pause" /\ Call("release").op = "release"
  BY DEF Call, Frame
<1>2. CASE agenda = <<Call("pause"), Call("release")>>
  <2>1. Top = Call("pause") /\ Rest = <<Call("release")>>
    BY <1>2 DEF Top, Rest
  <2>2. PauseCall
    <3>1. \A op : Running(op) => op = "pause"
      BY <1>1, <2>1 DEF Running
    <3>2. QED
      BY <3>1 DEF SimulatorSteps, SimulatorSends, SimulatorAnswers, SimulatorUnseen, SimulatorCancels,
         UnreconciledCall, ToUnknown, Release, LoopEnds, Recover, Prepare, Submit,
         SendAccepted, ApplyReport, ApplyRefused, ReconcileAll, QueryAnswered, QueryUnseen,
         ReconcileEnds, CancelAll, CancelUnsent, CancelSent, AskCancel, AskCancelFailed,
         CloseNothing, CloseAfterCancel, CloseCreate, CloseRecheck, FlattenAll,
         FlattenNext, ConfirmFlat
  <2>3. Then(<<>>) = <<Call("release")>>
    BY <1>1, <2>1 DEF Then, Guards
  <2>4. QED
    BY <1>2, <2>2, <2>3 DEF PauseCall, Local
<1>3. CASE agenda = <<Call("release")>>
  <2>1. Top = Call("release")
    BY <1>3 DEF Top
  <2>2. Release
    <3>1. \A op : Running(op) => op = "release"
      BY <1>1, <2>1 DEF Running
    <3>2. QED
      BY <3>1 DEF SimulatorSteps, SimulatorSends, SimulatorAnswers, SimulatorUnseen, SimulatorCancels,
         PauseCall, UnreconciledCall, ToUnknown, LoopEnds, Recover, Prepare, Submit,
         SendAccepted, ApplyReport, ApplyRefused, ReconcileAll, QueryAnswered, QueryUnseen,
         ReconcileEnds, CancelAll, CancelUnsent, CancelSent, AskCancel, AskCancelFailed,
         CloseNothing, CloseAfterCancel, CloseCreate, CloseRecheck, FlattenAll,
         FlattenNext, ConfirmFlat
  <2>3. QED
    BY <1>3, <2>2 DEF Release
<1>4. QED
  BY <1>2, <1>3 DEF Leaving

(* Only an executor that was entered has calls.                            *)
LEMMA CallsAreInside ==
  ASSUME SimulatorSteps
  PROVE  started /\ agenda # <<>>
<1>1. \E op : Running(op)
  BY DEF SimulatorSteps, SimulatorSends, SimulatorAnswers, SimulatorUnseen, SimulatorCancels,
     PauseCall, UnreconciledCall, ToUnknown, Release, LoopEnds, Recover, Prepare, Submit,
     SendAccepted, ApplyReport, ApplyRefused, ReconcileAll, QueryAnswered, QueryUnseen,
     ReconcileEnds, CancelAll, CancelUnsent, CancelSent, AskCancel, AskCancelFailed,
     CloseNothing, CloseAfterCancel, CloseCreate, CloseRecheck, FlattenAll,
     FlattenNext, ConfirmFlat
<1>2. QED
  BY <1>1 DEF Running

(* The calls of an operation are closed.                                   *)
LEMMA UnderneathClosed == Closed(Underneath)
BY DEF Closed, Underneath, Calls, Handling

(* A script keeps its form.                                                *)
LEMMA ScriptedNext ==
  ASSUME ExecutorInv, ScriptInv, [DatabaseNext]_allVars
  PROVE  Scripted'
<1>0. Scripted
  BY DEF ScriptInv
<1>1. Kinds
  BY AllKinds
<1>2. PICK queue : queue = commands'
  OBVIOUS
<1>3. queue \in Seq(Requests) /\ Unrepeated(queue) /\ Queued(commands) \subseteq Queued(queue)
  BY <1>0, <1>2, QueueNext DEF Unrepeated, Queued
<1>4. database' \in {"a6", "service"}
  BY <1>0, <1>1 DEF Scripted, Kinds, Waiting, GoingIn, GoingOut, Vacant, Dies, Onward, BreakingOff,
     Ends, Begins, scriptVars
<1>5. <<>> \in Seq(Steps(commands)) /\ script \in Seq(Steps(commands))
  BY <1>0 DEF Scripted
<1>6. ASSUME NEW op, AtStep(op) PROVE Left \in Seq(Steps(commands))
  BY <1>0, <1>6, AtNow
<1>7. script' \in Seq(Steps(commands))
  <2>1. CASE Waiting \/ Vacant \/ Dies
    BY <1>5, <2>1 DEF Waiting, Vacant, Dies, scriptVars
  <2>2. CASE GoingIn \/ GoingOut
    BY <1>6, <2>2 DEF GoingIn, GoingOut
  <2>3. ASSUME NEW op, NEW steps, Onward(op, steps) PROVE script' \in Seq(Steps(commands))
    <3>1. steps \in Seq(Steps(commands)) /\ Left \in Seq(Steps(commands))
      BY <1>6, <2>3 DEF Onward
    <3>2. steps \o Left \in Seq(Steps(commands))
      BY <3>1, Joined
    <3>3. QED
      BY <2>3, <3>1, <3>2 DEF Onward
  <2>4. ASSUME NEW op, NEW steps, BreakingOff(op, steps) PROVE script' \in Seq(Steps(commands))
    BY <2>4, AbortedList, EndingLists DEF BreakingOff
  <2>5. ASSUME NEW op, Ends(op) PROVE script' \in Seq(Steps(commands))
    BY <1>5, <1>6, <2>5 DEF Ends
  <2>6. ASSUME NEW steps, Begins(steps) PROVE script' \in Seq(Steps(commands))
    BY <2>6 DEF Begins
  <2>7. QED
    BY <1>1, <2>1, <2>2, <2>3, <2>4, <2>5, <2>6 DEF Kinds
<1>8. script' \in Seq(Steps(queue))
  <2>1. PICK s : s = script'
    OBVIOUS
  <2>2. s \in Seq(Steps(queue))
    BY <1>3, <1>7, <2>1, MoreSteps
  <2>3. QED
    BY <2>1, <2>2
<1>9. QED
  <2>1. (commands \in Seq(Requests) /\ Unrepeated(commands))'
    BY <1>0, QueueNext
  <2>2. (script \in Seq(Steps(commands)))'
    BY <1>2, <1>8
  <2>3. QED
    BY <1>4, <2>1, <2>2 DEF Scripted

(* The lock of a database is its owner's or free, and nothing is done       *)
(* without it.                                                             *)
LEMMA OwnedNext ==
  ASSUME ExecutorInv, ScriptInv, [DatabaseNext]_allVars
  PROVE  RightOwner'
<1>0. Scripted /\ RightOwner /\ Phase /\ "a6" # Nil /\ "service" # Nil
  BY OwnedBy DEF ScriptInv
<1>1. Kinds
  BY AllKinds
<1>2. CASE Waiting
  <2>1. SimulatorSteps \/ UNCHANGED started
    BY <1>2, OthersMove DEF Waiting, vars
  <2>2. SimulatorSteps => started
    BY CallsAreInside
  <2>3. QED
    BY <1>0, <1>2, <2>1, <2>2 DEF Waiting, RightOwner, scriptVars
<1>3. ASSUME NEW op, AtStep(op), UNCHANGED <<owner, database>> PROVE RightOwner'
  BY <1>0, <1>3 DEF AtStep, RightOwner
<1>4. CASE GoingIn \/ GoingOut
  BY <1>3, <1>4 DEF GoingIn, GoingOut
<1>5. CASE Vacant \/ Dies
  BY <1>5 DEF Vacant, Dies, RightOwner
<1>6. ASSUME NEW op, NEW steps, Onward(op, steps) \/ BreakingOff(op, steps) PROVE RightOwner'
  BY <1>3, <1>6 DEF Onward, BreakingOff
<1>7. ASSUME NEW op, Ends(op) PROVE RightOwner'
  <2>1. ~started /\ Left = <<>>
    BY <1>0, <1>7, PhaseNow DEF Ends
  <2>2. ~started' /\ script' = <<>> /\ database' = database /\ owner' \in {owner, Nil}
    BY <1>7, <2>1 DEF Ends, vars
  <2>3. QED
    BY <1>0, <2>2 DEF RightOwner
<1>8. ASSUME NEW steps, Begins(steps) PROVE RightOwner'
  BY <1>0, <1>8 DEF Begins, RightOwner, Scripted
<1>9. QED
  BY <1>1, <1>2, <1>4, <1>5, <1>6, <1>7, <1>8 DEF Kinds

(* A step inside keeps the rest of the script inside, or after the executor. *)
LEMMA InsideNext ==
  ASSUME Scripted, Phase, NEW op, NEW steps, Onward(op, steps) \/ BreakingOff(op, steps)
  PROVE  Phase'
<1>0. /\ AtStep(op) /\ op \in InnerOps /\ agenda = <<>>
      /\ Left \in Seq(Steps(commands)) /\ script \in Seq(Steps(commands))
      /\ script # <<>> /\ Left = Tail(script)
  BY AtNow DEF Onward, BreakingOff, Scripted, Left
<1>1. \/ ~started /\ op \in ResearchOps /\ Members(script, ResearchOps)
      \/ started /\ Inner(script)
  BY <1>0, PhaseNow
<1>2. /\ NewOps \subseteq InnerOps /\ NewOps \cup {"finish"} \subseteq InnerOps
      /\ "admit" \notin ResearchOps /\ "finish" \notin ResearchOps
  BY DEF NewOps, InnerOps, ResearchOps
<1>3. CASE Onward(op, steps) /\ ~started
  <2>1. /\ steps \in Seq(Steps(commands)) /\ Members(steps, ResearchOps)
        /\ agenda' = <<>> /\ ~started' /\ (script' = steps \/ script' = steps \o Left)
    BY <1>1, <1>3 DEF Onward
  <2>2. Members(Left, ResearchOps)
    BY <1>0, <1>1, <1>3, MembersLeft
  <2>3. Members(steps \o Left, ResearchOps)
    BY <1>0, <2>1, <2>2, MembersJoined
  <2>4. Members(script', ResearchOps)
    BY <2>1, <2>3
  <2>5. QED
    BY <2>1, <2>4 DEF Phase
<1>4. CASE Onward(op, steps) /\ started
  <2>1. /\ steps \in Seq(Steps(commands)) /\ Members(agenda', Underneath)
        /\ started' /\ (script' = steps \/ script' = steps \o Left)
    BY <1>4 DEF Onward
  <2>2. Members(steps, InnerOps)
    BY <1>2, <1>4, MembersMore DEF Onward
  <2>3. Inner(Left)
    BY <1>0, <1>1, <1>4, InnerLeft
  <2>4. Inner(steps) /\ Inner(steps \o Left)
    BY <1>0, <2>1, <2>2, <2>3, InnerJoined, InnerMembers
  <2>5. Inner(script')
    BY <2>1, <2>4
  <2>6. QED
    BY <2>1, <2>5 DEF Phase
<1>5. CASE BreakingOff(op, steps)
  <2>1. agenda' = <<>> /\ started' = started /\ script' = steps
    BY <1>0, <1>5 DEF BreakingOff, vars
  <2>2. \/ ~started /\ steps \in Ended
        \/ started /\ steps \in Ending
    BY <1>1, <1>2, <1>5, AbortedList DEF BreakingOff, Ended, Ending
  <2>3. Members(<<>>, Underneath)
    BY OwnersCalls
  <2>4. CASE ~started /\ steps \in Ended
    BY <2>1, <2>4 DEF Phase
  <2>5. CASE started /\ steps \in Ending
    BY <2>1, <2>3, <2>5 DEF Phase
  <2>6. QED
    BY <2>2, <2>4, <2>5
<1>6. QED
  BY <1>3, <1>4, <1>5

(* The executor is entered before the calls and left after them.           *)
LEMMA PhaseNext ==
  ASSUME ExecutorInv, ScriptInv, [DatabaseNext]_allVars
  PROVE  Phase'
<1>0. Scripted /\ Phase /\ EInv /\ (~started => agenda = <<>>)
  BY DEF ScriptInv, ExecutorInv, GateInv
<1>1. Kinds
  BY AllKinds
<1>2. CASE Waiting /\ UNCHANGED <<started, agenda>>
  BY <1>0, <1>2 DEF Waiting, scriptVars, Phase, Now, Left
<1>3. CASE Waiting /\ SimulatorSteps
  <2>1. started /\ agenda # <<>> /\ script' = script
    BY <1>3, CallsAreInside DEF Waiting, scriptVars
  <2>2. CASE Members(agenda, Underneath) /\ (Inner(script) \/ script \in Ending)
    <3>1. Members(agenda', Underneath)
      BY <1>0, <1>3, <2>2, OpsKept, UnderneathClosed
    <3>2. ~Running("release")
      <4>1. "release" \notin Underneath /\ Handling \subseteq Underneath
        BY DEF Underneath, Calls, Handling
      <4>2. agenda \in Stacks
        BY <1>0 DEF EInv
      <4>3. QED
        BY <2>2, <4>1, <4>2, MembersRest
    <3>3. started'
      BY <1>3, <2>1, <3>2, SimulatorNext DEF Release
    <3>4. QED
      BY <2>1, <2>2, <3>1, <3>3 DEF Phase
  <2>3. CASE agenda \in Leaving /\ script \in Ended
    <3>1. \/ agenda' = <<Call("release")>> /\ UNCHANGED started
          \/ agenda' = <<>> /\ started' = FALSE
      BY <1>0, <1>3, <2>3, LastCalls
    <3>2. <<Call("release")>> \in Leaving
      BY DEF Leaving
    <3>3. QED
      BY <2>1, <2>3, <3>1, <3>2 DEF Phase
  <2>4. QED
    BY <1>0, <2>1, <2>2, <2>3 DEF Phase
<1>4. CASE GoingIn
  <2>1. Inner(Left) /\ script' = Left /\ started' = TRUE
    BY <1>0, <1>4, PhaseNow DEF GoingIn, Enter
  <2>2. PICK f : f = Loop("recover", {e \in Snapshot : e.state \in {"SUBMITTING", "CREATED", "APPROVED"}})
    OBVIOUS
  <2>3. agenda' = <<Call("pause"), Call("unreconciled"), f, Call("reconcile_all")>>
    BY <1>4, <2>2 DEF GoingIn, Enter
  <2>4. /\ Call("pause").op \in Underneath /\ Call("unreconciled").op \in Underneath
        /\ f.op \in Underneath /\ Call("reconcile_all").op \in Underneath
    BY <2>2 DEF Call, Loop, Frame, Underneath, Calls
  <2>5. Members(agenda', Underneath)
    BY <2>3, <2>4 DEF Members
  <2>6. QED
    BY <2>1, <2>5 DEF Phase
<1>5. CASE GoingOut
  <2>1. started /\ Left \in Ended /\ script' = Left
    BY <1>0, <1>5, PhaseNow DEF GoingOut
  <2>2. agenda' = <<Call("pause"), Call("release")>> /\ started' = started
    BY <1>5 DEF GoingOut, Exit, Operation, Internal, Local
  <2>3. agenda' \in Leaving
    BY <2>2 DEF Leaving
  <2>4. QED
    BY <2>1, <2>2, <2>3 DEF Phase
<1>6. CASE Vacant
  BY <1>0, <1>6 DEF Vacant, Phase, Ended
<1>7. CASE Dies
  BY <1>7 DEF Dies, Phase, Ended
<1>8. ASSUME NEW op, Ends(op) PROVE Phase'
  <2>1. ~started /\ Left = <<>>
    BY <1>0, <1>8, PhaseNow DEF Ends
  <2>2. ~started' /\ script' = <<>> /\ agenda' = <<>>
    BY <1>0, <1>8, <2>1 DEF Ends, vars
  <2>3. QED
    BY <2>2 DEF Phase, Ended
<1>9. ASSUME NEW steps, Begins(steps) PROVE Phase'
  <2>1. ~started' /\ agenda' = <<>> /\ script' = steps
    BY <1>0, <1>9 DEF Begins, vars
  <2>2. QED
    BY <1>9, <2>1 DEF Begins, Phase, Now, Left
<1>10. Waiting => SimulatorSteps \/ UNCHANGED <<started, agenda>>
  BY OthersMove DEF Waiting, vars
<1>11. QED
  BY <1>0, <1>1, <1>2, <1>3, <1>4, <1>5, <1>6, <1>7, <1>8, <1>9, <1>10, InsideNext DEF Kinds

(* A session is bound before it looks at its scenario.                     *)
LEMMA BoundNext ==
  ASSUME ExecutorInv, ScriptInv, [DatabaseNext]_allVars
  PROVE  Bound'
<1> DEFINE ops == Ops \ {"admit", "finish"}
<1>0. Scripted /\ Bound
  BY DEF ScriptInv
<1>1. Kinds
  BY AllKinds
<1>2. NewOps \subseteq ops /\ {"exit", "pass", "blocked"} \subseteq ops /\ Members(<<>>, ops)
  BY DEF Ops, NewOps, InnerOps, Members
<1>3. ASSUME UNCHANGED <<database, a6_binding>>, Members(script, ops) => Members(script', ops)
      PROVE  Bound'
  BY <1>0, <1>3 DEF Bound
<1>4. ASSUME UNCHANGED <<database, a6_binding>>, Members(script', ops) PROVE Bound'
  BY <1>4 DEF Bound
<1>5. ASSUME NEW op, AtStep(op), Members(script, ops)
      PROVE  Members(Left, ops) /\ Left \in Seq(Steps(commands)) /\ op \in ops
  <2>1. script # <<>> /\ script \in Seq(Steps(commands)) /\ Head(script).op = op
    BY <1>0, <1>5 DEF AtStep, Scripted, Now
  <2>2. QED
    BY <1>0, <1>5, <2>1, MembersLeft, AtNow DEF Left
<1>6. CASE Waiting
  BY <1>3, <1>6 DEF Waiting, scriptVars
<1>7. CASE GoingIn \/ GoingOut
  BY <1>3, <1>5, <1>7 DEF GoingIn, GoingOut
<1>8. CASE Vacant \/ Dies
  BY <1>2, <1>4, <1>8 DEF Vacant, Dies
<1>9. ASSUME NEW op, NEW steps, Onward(op, steps) PROVE Bound'
  <2>1. CASE op = "admit"
    <3>1. database = "a6" /\ a6_binding \in Scenarios
      BY <1>0, <1>9, <2>1, BoundNow DEF Onward
    <3>2. QED
      BY <1>9, <3>1 DEF Onward, Bound
  <2>2. CASE op # "admit"
    <3>1. Members(steps, ops) /\ steps \in Seq(Steps(commands)) /\ AtStep(op)
      BY <1>2, <1>9, <2>2, MembersMore DEF Onward
    <3>2. Members(script, ops) => Members(steps \o Left, ops)
      BY <1>5, <3>1, MembersJoined
    <3>3. Members(script, ops) => Members(script', ops)
      BY <1>9, <3>1, <3>2 DEF Onward
    <3>4. QED
      BY <1>3, <1>9, <3>3 DEF Onward
  <2>3. QED
    BY <2>1, <2>2
<1>10. ASSUME NEW op, NEW steps, BreakingOff(op, steps) PROVE Bound'
  <2>1. steps \in Ended \cup Ending
    BY <1>10, AbortedList DEF BreakingOff, Ended, Ending
  <2>2. Members(steps, {"exit", "pass", "blocked"})
    BY <2>1, EndingLists
  <2>3. Members(steps, ops)
    BY <1>2, <2>2, MembersMore
  <2>4. QED
    BY <1>4, <1>10, <2>3 DEF BreakingOff
<1>11. ASSUME NEW op, Ends(op) PROVE Bound'
  BY <1>2, <1>3, <1>5, <1>11 DEF Ends
<1>12. ASSUME NEW steps, Begins(steps) PROVE Bound'
  BY <1>12 DEF Begins, Bound
<1>13. QED
  BY <1>1, <1>6, <1>7, <1>8, <1>9, <1>10, <1>11, <1>12 DEF Kinds

-----------------------------------------------------------------------------
(* The invariant of the database: the simulator answers for every order it  *)
(* accepted.                                                               *)
DatabaseInv == ExecutorInv /\ ScriptInv /\ unseen = {}

(* It holds of a fresh database.                                           *)
LEMMA DatabaseInvInit == DatabaseInit => DatabaseInv
<1> SUFFICES ASSUME DatabaseInit PROVE DatabaseInv
  OBVIOUS
<1>1. Init /\ owner = Nil /\ script = <<>> /\ database \in {"a6", "service"} /\ commands = <<>>
  BY DEF DatabaseInit, OwnerInit, ServiceInit
<1>2. ~started /\ agenda = <<>>
  BY <1>1 DEF Init
<1>3. Scripted
  BY <1>1 DEF Scripted, Unrepeated
<1>4. RightOwner /\ Phase /\ Bound
  BY <1>1, <1>2 DEF RightOwner, Phase, Ended, Bound, Members
<1>5. unseen = {}
  BY <1>1 DEF Init
<1>6. QED
  BY <1>1, <1>3, <1>4, <1>5, ExecutorInvInit DEF DatabaseInv, ScriptInv

(* It hides no order from a reconciliation (fake.py query).                *)
LEMMA ShownNext ==
  ASSUME unseen = {}, [DatabaseNext]_allVars
  PROVE  unseen' = {}
<1>1. ASSUME NEW steps, Goto(steps) PROVE unseen' = {}
  BY <1>1 DEF Goto, tradeVars, vars, brokerVars
<1>2. ASSUME Local PROVE unseen' = {}
  BY <1>2 DEF Local, brokerVars
<1>3. ASSUME NEW calls, Operation(calls) PROVE unseen' = {}
  BY <1>2, <1>3 DEF Operation, Internal
<1>4. ASSUME NEW s, NEW steps, Submission(s, steps) PROVE unseen' = {}
  BY <1>1, <1>2, <1>4 DEF Submission, SubmitEntry
<1>5. CASE SimulatorSteps
  <2>1. CASE SimulatorUnseen
    BY <2>1 DEF SimulatorUnseen, QueryUnseen, Top
  <2>2. CASE \/ PauseCall \/ UnreconciledCall \/ ToUnknown \/ Release
             \/ LoopEnds("recover") \/ LoopEnds("cancel") \/ LoopEnds("flatten")
             \/ Recover \/ SimulatorSends \/ Submit \/ SendAccepted \/ ApplyReport \/ ApplyRefused
    BY <1>2, <2>2 DEF SimulatorSends, PauseCall, UnreconciledCall, ToUnknown, Release, LoopEnds,
       Recover, Prepare, Submit, SendAccepted, ApplyReport, ApplyRefused, Internal, brokerVars
  <2>3. CASE \/ ReconcileAll \/ SimulatorAnswers \/ ReconcileEnds
             \/ CancelAll \/ CancelUnsent \/ CancelSent \/ SimulatorCancels
             \/ (AskCancelFailed /\ ~Accepted(Top.id))
    BY <1>2, <2>3 DEF SimulatorAnswers, SimulatorCancels, ReconcileAll, QueryAnswered,
       ReconcileEnds, CancelAll, CancelUnsent, CancelSent, AskCancel, AskCancelFailed, Internal
  <2>4. CASE \/ CloseNothing \/ CloseAfterCancel \/ CloseCreate \/ CloseRecheck
             \/ FlattenAll \/ FlattenNext \/ ConfirmFlat
    BY <1>2, <2>4 DEF CloseNothing, CloseAfterCancel, CloseCreate, CloseRecheck, CreateCloseOf,
       FlattenAll, FlattenNext, ConfirmFlat, Internal
  <2>5. QED
    BY <1>5, <2>1, <2>2, <2>3, <2>4 DEF SimulatorSteps
<1>6. CASE OwnerSteps
  BY <1>1, <1>2, <1>3, <1>5, <1>6 DEF OwnerSteps, EnterExecutor, Enter, ExitExecutor, Exit, Reconcile,
     PauseEntries, CancelEntries, Arm, ArmOffline, Closing, brokerVars
<1>7. CASE SessionOwnSteps
  BY <1>1, <1>3, <1>4, <1>7 DEF SessionOwnSteps, Admit, Signal, Settle, Reconciled, CloseQuoted,
     CloseOwned, Finish, Block, Return, vars, brokerVars
<1>8. CASE ServiceOwnSteps
  BY <1>1, <1>3, <1>4, <1>8 DEF ServiceOwnSteps, FixtureSignal, FixtureCloseOwned, CloseOwned,
     OpenReport, WriteReport, Publish, Fails, Drain, PassOver, Execute, Confirm
<1>9. CASE World
  <2>1. BrokerMoves => unseen' = {}
    BY OthersMove
  <2>2. QED
    BY <1>1, <1>9, <2>1 DEF World, Run, ServiceCalls, StartService, StopService, Command, Enqueue,
       OwnerDies, vars, brokerVars
<1>10. CASE UNCHANGED allVars
  BY <1>10 DEF allVars, vars, brokerVars
<1>11. QED
  BY <1>6, <1>7, <1>8, <1>9, <1>10 DEF DatabaseNext, ProcessSteps

(* Every step of the owners and of the world keeps it.                     *)
LEMMA DatabaseInvNext ==
  ASSUME DatabaseInv, [DatabaseNext]_allVars
  PROVE  DatabaseInv'
<1>1. ExecutorInv /\ ScriptInv
  BY DEF DatabaseInv
<1>2. ExecutorInv'
  BY <1>1, OwnersMove, ExecutorInvNext, RestedKeeps DEF ScriptInv
<1>3. ScriptInv'
  BY <1>1, ScriptedNext, OwnedNext, PhaseNext, BoundNext DEF ScriptInv
<1>4. QED
  BY <1>2, <1>3, ShownNext DEF DatabaseInv

(* The owners keep the books of the executor: whatever the A6 session, the  *)
(* operation service, the deaths of their processes and the simulator do,  *)
(* its inductive invariants hold (session.py run and service.py command     *)
(* over engine.py).                                                        *)
THEOREM OwnersKeepExecutor == DatabaseSafety => []DatabaseInv
<1>1. DatabaseInit => DatabaseInv
  BY DatabaseInvInit
<1>2. DatabaseInv /\ [DatabaseNext]_allVars => DatabaseInv'
  BY DatabaseInvNext
<1>3. QED
  BY <1>1, <1>2, PTL DEF DatabaseSafety

-----------------------------------------------------------------------------
(* What a result says.                                                     *)

(* A result is stored by the run that the database is bound to, and no      *)
(* other one ever takes the binding (session.py run).                      *)
LEMMA ResultNext ==
  ASSUME ResultIsOfBinding, [DatabaseNext]_allVars
  PROVE  ResultIsOfBinding'
<1>1. CASE UNCHANGED <<a6_binding, a6_result>>
  BY <1>1 DEF ResultIsOfBinding
<1>2. CASE Finish
  BY <1>1, <1>2 DEF Finish, Block, KeepSession, sessionVars, ResultIsOfBinding
<1>3. ASSUME NEW scenario, Run(scenario) PROVE ResultIsOfBinding'
  BY <1>3 DEF Run, BindingAccepted, ResultIsOfBinding
<1>4. CASE SessionOwnSteps
  BY <1>1, <1>2, <1>4 DEF SessionOwnSteps, Admit, Signal, Settle, Reconciled, CloseQuoted, Return,
     Block, KeepSession, sessionVars
<1>5. CASE UNCHANGED allVars
  BY <1>1, <1>5 DEF allVars, sessionVars
<1>6. QED
  BY <1>1, <1>3, <1>4, <1>5 DEF DatabaseNext, ProcessSteps, World, KeepSession, sessionVars

(* A stored result is the result of the scenario the database is bound to,  *)
(* also after a crash (session.py run, "A6_SESSION_INPUTS_CHANGED").        *)
THEOREM ResultsAreOfTheBinding == DatabaseSafety => []ResultIsOfBinding
<1>1. DatabaseInit => ResultIsOfBinding
  BY DEF DatabaseInit, SessionInit, ResultIsOfBinding
<1>2. ResultIsOfBinding /\ [DatabaseNext]_allVars => ResultIsOfBinding'
  BY ResultNext
<1>3. QED
  BY <1>1, <1>2, PTL DEF DatabaseSafety

-----------------------------------------------------------------------------
(* What a finished command says.                                           *)

(* Reconciled between two operations, nothing is off.                      *)
LEMMA IdleAgrees ==
  ASSUME ExecutorInv, unseen = {}, Idle, reconciliation_ok
  PROVE  Off = {} /\ \A i \in IntentIds \ moved : Agreed(i)
<1>1. ~Reconciling(agenda) /\ ~Doubted(agenda) /\ \A i : ~Underway(agenda, i)
  BY DEF Idle, Reconciling, Doubted, Underway
<1>2. Off = {}
  BY <1>1 DEF ExecutorInv, AgreeInv, Outside, Idle, Off
<1>3. QED
  BY <1>2 DEF Off

(* The update of finish_command finds the row of the command.              *)
LEMMA ConfirmsItsRow ==
  ASSUME DatabaseInv, Confirm, NEW k \in DOMAIN commands,
         commands[k].status = "PENDING", commands'[k].status = "DONE"
  PROVE  Idle /\ commands[k].kind = Now.id.kind /\ OutcomeConfirmed(Now.id)
<1>0. Scripted /\ Phase /\ Unrepeated(commands) /\ commands[k] \in Requests
  BY LenProperties, ElementOfSeq DEF DatabaseInv, ScriptInv, Scripted
<1>1. AtStep("confirm") /\ agenda = <<>>
  BY DEF Confirm, AtStep
<1>2. started
  <2>1. "confirm" \in InnerOps \ ResearchOps
    BY DEF InnerOps, ResearchOps
  <2>2. QED
    BY <1>0, <1>1, <2>1, PhaseNow
<1>3. Now.id \in Queued(commands)
  BY <1>0, <1>1, AtNow
<1>4. commands'[k] = IF commands[k].id = Now.id.id
                     THEN [commands[k] EXCEPT !.status = FinalStatus(Now.id)]
                     ELSE commands[k]
  BY DEF Confirm
<1>5. commands[k].id = Now.id.id /\ FinalStatus(Now.id) = "DONE"
  BY <1>0, <1>4 DEF Requests
<1>6. OutcomeConfirmed(Now.id)
  BY <1>5 DEF FinalStatus
<1>7. commands[k].kind = Now.id.kind
  BY <1>0, <1>3, <1>5 DEF Queued, Unrepeated
<1>8. QED
  BY <1>1, <1>2, <1>6, <1>7 DEF Idle

(* Only finish_command finishes a command.                                 *)
LEMMA OnlyConfirmFinishes ==
  ASSUME DatabaseInv, [DatabaseNext]_allVars, ~Confirm, NEW k \in DOMAIN commands
  PROVE  commands'[k] = commands[k]
<1>0. commands \in Seq(Requests) /\ k \in 1..Len(commands)
  BY LenProperties DEF DatabaseInv, ScriptInv, Scripted
<1>1. ASSUME NEW c \in CommandIds, NEW kind \in QueueKinds, Enqueue(c, kind)
      PROVE  commands'[k] = commands[k]
  <2>1. PICK row : row = [id |-> c, kind |-> kind, status |-> "PENDING"]
    OBVIOUS
  <2>2. row \in Requests /\ commands' = Append(commands, row)
    BY <1>1, <2>1 DEF Requests, Enqueue
  <2>3. QED
    BY <1>0, <2>2, AppendProperties
<1>2. CASE ProcessSteps
  BY <1>2 DEF ProcessSteps, KeepService, serviceVars, ServiceOwnSteps, FixtureSignal,
     FixtureCloseOwned, OpenReport, WriteReport, Publish, Fails, Drain, PassOver, Execute
<1>3. CASE World
  <2>1. UNCHANGED commands \/ \E c \in CommandIds, kind \in QueueKinds : Enqueue(c, kind)
    BY <1>3 DEF World, KeepService, serviceVars, ServiceCalls, StartService, StopService, Command
  <2>2. QED
    BY <1>1, <2>1
<1>4. QED
  BY <1>2, <1>3 DEF DatabaseNext, allVars, serviceVars

(* A queued command is marked DONE only when what it asked for is so: a     *)
(* flatten left nothing open, a reconciliation agrees with the simulator,   *)
(* up to what changed since it began, whoever executed the command before   *)
(* and died (engine.py process_commands, store.py finish_command).         *)
THEOREM CommandsAreHonest == DatabaseSafety => DoneMeansConfirmed
<1> DEFINE confirmed(k) ==
             CASE commands[k].kind = "FLATTEN_OWNED" ->
                    Flattened /\ \A p \in PositionIds \ moved : held[p] = 0
               [] commands[k].kind = "RECONCILE" ->
                    \A i \in IntentIds \ moved : intents[i].filled_units = orders[i].filled_units
               [] OTHER -> TRUE
<1>1. ASSUME DatabaseInv, [DatabaseNext]_allVars, NEW k \in DOMAIN commands,
             commands[k].status = "PENDING", commands'[k].status = "DONE"
      PROVE  confirmed(k)
  <2>1. Confirm
    BY <1>1, OnlyConfirmFinishes
  <2>2. Idle /\ commands[k].kind = Now.id.kind /\ OutcomeConfirmed(Now.id)
    BY <1>1, <2>1, ConfirmsItsRow
  <2>3. ExecutorInv /\ EInv /\ FlatInv /\ Books /\ unseen = {}
    BY <1>1 DEF DatabaseInv, ExecutorInv, AgreeInv
  <2>4. CASE commands[k].kind = "FLATTEN_OWNED"
    <3>1. Flat
      BY <2>2, <2>4 DEF OutcomeConfirmed
    <3>2. Off = {}
      BY <2>2, <2>3, <3>1, IdleAgrees DEF Flat
    <3>3. OpenPositions = {} /\ \A i \in IntentIds : ~Active(i)
      BY <3>1 DEF Flat
    <3>4. \A p \in PositionIds \ moved : held[p] = 0
      BY <2>3, <3>2, <3>3, FlatBroker
    <3>5. QED
      BY <2>4, <3>3, <3>4 DEF Flattened
  <2>5. CASE commands[k].kind = "RECONCILE"
    <3>1. reconciliation_ok
      BY <2>2, <2>5 DEF OutcomeConfirmed
    <3>2. \A i \in IntentIds \ moved : intents[i].filled_units = orders[i].filled_units
      BY <2>2, <2>3, <3>1, IdleAgrees DEF Agreed
    <3>3. QED
      BY <2>5, <3>2
  <2>6. CASE commands[k].kind \notin {"FLATTEN_OWNED", "RECONCILE"}
    BY <2>6
  <2>7. QED
    BY <2>4, <2>5, <2>6
<1>2. DatabaseInv /\ [DatabaseNext]_allVars
        => [\A k \in DOMAIN commands :
              commands[k].status = "PENDING" /\ commands'[k].status = "DONE" => confirmed(k)]_commands
  BY <1>1
<1>3. QED
  BY <1>2, OwnersKeepExecutor, PTL DEF DatabaseSafety, DoneMeansConfirmed

-----------------------------------------------------------------------------
(* What the dashboard is pointed at.                                       *)

(* What is still to be published is written before, or written already.    *)
Announced ==
  /\ latest_report => report = "whole"
  /\ report = "whole" \/ Preceded(script)

(* While a report is opened, written or published nothing else goes on.    *)
LEMMA ResearchAlone ==
  ASSUME DatabaseInv, [DatabaseNext]_allVars, ~(OpenReport \/ WriteReport \/ Publish),
         NEW op \in ResearchOps, AtStep(op)
  PROVE  script' \in {script, <<>>}
<1>0. owner # Nil /\ agenda = <<>> /\ script # <<>> /\ Now.op \in ResearchOps
  BY DEF AtStep
<1>1. \A o : AtStep(o) => o \in ResearchOps
  BY DEF AtStep
<1>2. CASE OwnerSteps
  BY <1>1, <1>2 DEF OwnerSteps, scriptVars, EnterExecutor, ExitExecutor, Reconcile, PauseEntries,
     CancelEntries, Arm, Closing, ResearchOps
<1>3. ~SessionOwnSteps
  BY <1>1 DEF SessionOwnSteps, Admit, Signal, Settle, Reconciled, CloseQuoted, Finish, Return,
     ResearchOps
<1>4. ~ServiceOwnSteps
  BY <1>1 DEF ServiceOwnSteps, FixtureSignal, FixtureCloseOwned, Fails, Drain, PassOver, Execute,
     Confirm, ResearchOps
<1>5. CASE World
  BY <1>0, <1>5 DEF World, Run, ServiceCalls, StartService, StopService, Command, Enqueue,
     OwnerDies, scriptVars
<1>6. QED
  BY <1>2, <1>3, <1>4, <1>5 DEF DatabaseNext, ProcessSteps, allVars, scriptVars

(* What is left of a script that publishes nothing too early publishes      *)
(* nothing too early.                                                      *)
LEMMA PrecededNext ==
  ASSUME DatabaseInv, [DatabaseNext]_allVars, ~(OpenReport \/ WriteReport \/ Publish),
         Preceded(script)
  PROVE  Preceded(script')
<1>0. /\ Scripted /\ Phase /\ script \in Seq(Steps(commands)) /\ Kinds
      /\ Preceded(<<>>)
  BY AllKinds DEF DatabaseInv, ScriptInv, Scripted, Preceded
<1>1. ASSUME NEW op, AtStep(op)
      PROVE  /\ op \notin {"research", "write"} => Preceded(Left)
             /\ op \in ResearchOps => Preceded(script')
             /\ Left \in Seq(Steps(commands))
  <2>1. script # <<>> /\ Head(script).op = op /\ Left = Tail(script)
    BY <1>1 DEF AtStep, Now, Left
  <2>2. op \in ResearchOps => script' \in {script, <<>>}
    BY <1>1, ResearchAlone
  <2>3. QED
    BY <1>0, <1>1, <2>1, <2>2, PrecededLeft, AtNow
<1>2. ASSUME NEW op, NEW steps, Onward(op, steps) PROVE Preceded(script')
  <2>1. CASE op \in ResearchOps
    BY <1>1, <1>2, <2>1 DEF Onward
  <2>2. CASE op \notin ResearchOps
    <3>1. Preceded(Left) /\ Left \in Seq(Steps(commands))
      BY <1>1, <1>2, <2>2 DEF Onward, ResearchOps
    <3>2. steps \in Seq(Steps(commands)) /\ Members(steps, NewOps \cup {"finish"})
      BY <1>2, MembersMore DEF Onward
    <3>3. Preceded(steps)
      BY <3>2, PrecededMembers DEF NewOps
    <3>4. Preceded(steps \o Left)
      BY <3>1, <3>2, <3>3, PrecededJoined
    <3>5. QED
      BY <1>2, <3>3, <3>4 DEF Onward
  <2>3. QED
    BY <2>1, <2>2
<1>3. ASSUME NEW op, NEW steps, BreakingOff(op, steps) PROVE Preceded(script')
  <2>1. script' \in Ended \cup Ending
    BY <1>3, AbortedList DEF BreakingOff, Ended, Ending
  <2>2. Members(script', {"exit", "pass", "blocked"})
    BY <2>1, EndingLists
  <2>3. QED
    BY <2>2, PrecededMembers
<1>4. ASSUME NEW op, Ends(op) PROVE Preceded(script')
  BY <1>0, <1>1, <1>4 DEF Ends
<1>5. CASE GoingIn \/ GoingOut
  BY <1>1, <1>5 DEF GoingIn, GoingOut
<1>6. CASE Waiting \/ Vacant \/ Dies
  BY <1>0, <1>6 DEF Waiting, Vacant, Dies, scriptVars
<1>7. ASSUME NEW steps, Begins(steps) PROVE Preceded(script')
  BY <1>7 DEF Begins
<1>8. QED
  BY <1>0, <1>2, <1>3, <1>4, <1>5, <1>6, <1>7 DEF Kinds

(* A report is torn only while nothing names it.                           *)
LEMMA AnnouncedNext ==
  ASSUME DatabaseInv, Announced, [DatabaseNext]_allVars
  PROVE  Announced'
<1>0. /\ Scripted /\ script \in Seq(Steps(commands))
  BY DEF DatabaseInv, ScriptInv, Scripted
<1>1. CASE OpenReport
  <2>1. AtStep("research")
    BY <1>1 DEF OpenReport
  <2>2. CASE report = "torn"
    <3>1. script' = Aborted /\ UNCHANGED <<report, latest_report>>
      BY <1>1, <2>2 DEF OpenReport, Goto, KeepService, serviceVars
    <3>2. Members(script', {"exit", "pass", "blocked"})
      BY <3>1, AbortedList, EndingLists DEF Ended, Ending
    <3>3. Preceded(script')
      BY <3>2, PrecededMembers
    <3>4. QED
      BY <3>1, <3>3 DEF Announced
  <2>3. CASE report # "torn"
    <3> DEFINE write == <<Step("write")>>
    <3>1. /\ script' = write \o Left /\ latest_report' = latest_report
          /\ report' = IF report = "absent" THEN "torn" ELSE report
      BY <1>1, <2>3 DEF OpenReport, Goto
    <3>2. /\ Left \in Seq(Steps(commands)) /\ script # <<>> /\ Left = Tail(script)
          /\ write \in Seq(Steps(commands)) /\ Len(write) = 1 /\ write[1].op = "write"
      <4>1. Step("write") \in Steps(commands) /\ Step("write").op = "write"
        BY StepForms DEF PlainSteps, ResearchOps
      <4>2. QED
        BY <1>0, <2>1, <4>1, AtNow DEF Left
    <3> HIDE DEF write
    <3>3. Preceded(write \o Left)
      <4>1. ASSUME NEW k \in 1..Len(write \o Left), (write \o Left)[k].op = "publish"
            PROVE  \E j \in 1..(k - 1) : (write \o Left)[j].op \in {"research", "write"}
        <5>1. (write \o Left)[1] = write[1]
          <6>1. 1 \in 1..Len(write)
            BY <3>2
          <6>2. PICK S : S = Steps(commands)
            OBVIOUS
          <6>3. write \in Seq(S) /\ Left \in Seq(S)
            BY <3>2, <6>2
          <6>4. \A j \in 1..Len(write) : (write \o Left)[j] = write[j]
            BY <6>3, Joined
          <6>5. QED
            BY <6>1, <6>4
        <5>2. k # 1
          BY <3>2, <4>1, <5>1
        <5>3. 1 \in 1..(k - 1)
          BY <5>2
        <5>4. QED
          BY <3>2, <5>1, <5>3
      <4>2. QED
        BY <4>1 DEF Preceded
    <3>4. Preceded(script')
      BY <3>1, <3>3
    <3>5. QED
      BY <3>1, <3>4 DEF Announced
  <2>4. QED
    BY <2>2, <2>3
<1>2. CASE WriteReport
  BY <1>2 DEF WriteReport, Announced
<1>3. CASE Publish
  <2>1. AtStep("publish") /\ UNCHANGED report
    BY <1>3 DEF Publish
  <2>2. script # <<>> /\ Head(script).op = "publish"
    BY <2>1 DEF AtStep, Now
  <2>3. ~Preceded(script)
    BY <1>0, <2>2, PrecededLeft
  <2>4. report = "whole"
    BY <2>3 DEF Announced
  <2>5. QED
    BY <2>1, <2>4 DEF Announced
<1>4. CASE ~(OpenReport \/ WriteReport \/ Publish)
  <2>1. UNCHANGED <<report, latest_report>>
    BY <1>4 DEF DatabaseNext, ProcessSteps, World, allVars, KeepService, serviceVars, ServiceOwnSteps,
       FixtureSignal, FixtureCloseOwned, Fails, Drain, PassOver, Execute, Confirm, ServiceCalls,
       StartService, StopService, Command, Enqueue
  <2>2. Preceded(script) => Preceded(script')
    BY <1>4, PrecededNext
  <2>3. QED
    BY <2>1, <2>2 DEF Announced
<1>5. QED
  BY <1>1, <1>2, <1>3, <1>4

(* The report the dashboard is pointed at is always whole, although a       *)
(* process that dies while it writes leaves a torn file (service.py         *)
(* _run_research, snapshot).                                               *)
THEOREM DashboardShowsWholeReports == DatabaseSafety => []PublishedReportIsWhole
<1>1. DatabaseInit => Announced
  BY DEF DatabaseInit, OwnerInit, ServiceInit, Announced, Preceded
<1>2. DatabaseInv /\ Announced /\ [DatabaseNext]_allVars => Announced'
  BY AnnouncedNext
<1>3. Announced => PublishedReportIsWhole
  BY DEF Announced, PublishedReportIsWhole
<1>4. QED
  BY <1>1, <1>2, <1>3, OwnersKeepExecutor, PTL DEF DatabaseSafety

-----------------------------------------------------------------------------
(* What a session that passes has left.                                    *)

(* It decided so on a reconciliation that left nothing open and nothing      *)
(* off, and it pauses before it leaves.                                    *)
Passed ==
  /\ reconciliation_ok /\ Flattened /\ Off = {}
  /\ \/ script = <<Step("exit"), Step("pass")>> /\ agenda = <<>>
     \/ /\ script = <<Step("pass")>> /\ agenda \in Leaving \cup {<<>>}
        /\ entries_paused \/ agenda = <<Call("pause"), Call("release")>>

Passing == Members(script, Ops \ {"pass"}) \/ Passed

(* The broker's own moves are excused.                                     *)
LEMMA MovesExcuse ==
  ASSUME EInv, BrokerMoves
  PROVE  Off' \subseteq Off
<1>1. orders \in [IntentIds -> Order] /\ UNCHANGED <<intents, unseen>>
  BY OthersMove DEF storeVars, orderVars, EInv, BrokerOK, BrokerTyped
<1>2. /\ moved \subseteq moved'
      /\ \A j \in IntentIds : j \in moved' \/ orders'[j] = orders[j]
  <2>1. ASSUME NEW i \in IntentIds, NEW n, NEW protected, BrokerFills(i, n, protected) PROVE <1>2!:
    BY <1>1, <2>1 DEF BrokerFills, MoveOf
  <2>2. ASSUME NEW i \in IntentIds, NEW state, BrokerEnds(i, state) PROVE <1>2!:
    BY <1>1, <2>2 DEF BrokerEnds, MoveOf
  <2>3. ASSUME NEW s \in Symbols, StopOut(s) PROVE <1>2!:
    BY <1>1, <2>3 DEF StopOut, MoveOf
  <2>4. QED
    BY <2>1, <2>2, <2>3 DEF BrokerMoves
<1>3. QED
  BY <1>1, <1>2 DEF Off, Agreed, Live, Active

(* What is off while the books and the orders rest.                        *)
LEMMA RestIsNotOff ==
  ASSUME UNCHANGED <<intents, orders, moved, unseen>>
  PROVE  Off' = Off
BY DEF Off, Agreed, Live, Active

(* The last steps of a session that passes.                                *)
LEMMA PassedNext ==
  ASSUME DatabaseInv, Passed, [DatabaseNext]_allVars
  PROVE  Passing'
<1>0. /\ Scripted /\ Phase /\ EInv /\ Kinds
  BY AllKinds DEF DatabaseInv, ScriptInv, ExecutorInv
<1>1. /\ Step("exit").op = "exit" /\ Step("pass").op = "pass"
      /\ Head(<<Step("exit"), Step("pass")>>) = Step("exit") /\ Head(<<Step("pass")>>) = Step("pass")
      /\ Tail(<<Step("exit"), Step("pass")>>) = <<Step("pass")>> /\ Tail(<<Step("pass")>>) = <<>>
  BY DEF Step
<1>2. ASSUME NEW op, AtStep(op)
      PROVE  \/ op = "exit" /\ Left = <<Step("pass")>>
             \/ op = "pass" /\ Left = <<>>
  BY <1>1, <1>2 DEF AtStep, Now, Left, Passed
<1>3. script # <<>>
  BY DEF Passed
<1>4. ASSUME script' = <<>> PROVE Passing'
  BY <1>4 DEF Passing, Members
<1>5. /\ "exit" \notin InnerOps /\ "pass" \notin InnerOps
  BY DEF InnerOps, ResearchOps
<1>6. ASSUME UNCHANGED <<storeVars, script, agenda>>, Off' \subseteq Off PROVE Passing'
  BY <1>6 DEF Passing, Passed, Flattened, OpenPositions, Active, storeVars, orderVars, bookVars, gateVars
<1>7. CASE Waiting
  <2>1. CASE UNCHANGED vars
    BY <1>6, <1>7, <2>1, RestIsNotOff DEF Waiting, scriptVars, vars, storeVars, orderVars, brokerVars
  <2>2. CASE BrokerMoves
    BY <1>0, <1>6, <1>7, <2>2, MovesExcuse, OthersMove DEF Waiting, scriptVars
  <2>3. CASE SimulatorSteps
    <3>1. agenda # <<>> /\ script' = script /\ script = <<Step("pass")>> /\ agenda \in Leaving
      BY <1>7, <2>3, CallsAreInside DEF Waiting, scriptVars, Passed
    <3>2. CASE PauseCall /\ agenda' = <<Call("release")>>
      <4>1. /\ entries_paused' = TRUE
            /\ UNCHANGED <<intents, positions, orders, moved, unseen, reconciliation_ok>>
        BY <3>2 DEF PauseCall, Pause, Local, orderVars, bookVars, brokerVars
      <4>2. Off' = Off
        BY <4>1, RestIsNotOff
      <4>3. <<Call("release")>> \in Leaving
        BY DEF Leaving
      <4>4. QED
        BY <3>1, <3>2, <4>1, <4>2, <4>3 DEF Passing, Passed, Flattened, OpenPositions, Active
    <3>3. CASE agenda = <<Call("release")>> /\ Release /\ agenda' = <<>>
      <4>1. /\ UNCHANGED <<intents, positions, orders, moved, unseen, reconciliation_ok, entries_paused>>
        BY <3>3 DEF Release, storeVars, orderVars, bookVars, gateVars, brokerVars
      <4>2. Off' = Off
        BY <4>1, RestIsNotOff
      <4>3. agenda # <<Call("pause"), Call("release")>>
        BY <3>3
      <4>4. entries_paused
        BY <3>1, <4>3 DEF Passed
      <4>5. QED
        BY <3>1, <3>3, <4>1, <4>2, <4>4 DEF Passing, Passed, Flattened, OpenPositions, Active
    <3>4. QED
      BY <1>0, <2>3, <3>1, <3>2, <3>3, LastCalls
  <2>4. QED
    BY <1>7, <2>1, <2>2, <2>3 DEF Waiting
<1>8. CASE GoingOut
  <2>1. /\ Left = <<Step("pass")>> /\ script' = <<Step("pass")>>
        /\ agenda' = <<Call("pause"), Call("release")>>
        /\ UNCHANGED <<storeVars, brokerVars>>
    BY <1>2, <1>8 DEF GoingOut, Exit, Operation, Internal, Local
  <2>2. UNCHANGED <<intents, positions, orders, moved, unseen, reconciliation_ok, entries_paused>>
    BY <2>1 DEF storeVars, orderVars, bookVars, gateVars, brokerVars
  <2>3. Off' = Off
    BY <2>2, RestIsNotOff
  <2>4. <<Call("pause"), Call("release")>> \in Leaving
    BY DEF Leaving
  <2>5. QED
    BY <2>1, <2>2, <2>3, <2>4 DEF Passing, Passed, Flattened, OpenPositions, Active
<1>9. ~GoingIn
  BY <1>2 DEF GoingIn
<1>10. ASSUME NEW op, NEW steps PROVE ~Onward(op, steps) /\ ~BreakingOff(op, steps)
  BY <1>2, <1>5 DEF Onward, BreakingOff
<1>11. ASSUME NEW op, Ends(op) PROVE Passing'
  BY <1>2, <1>4, <1>11 DEF Ends
<1>12. ~Vacant /\ \A steps : ~Begins(steps)
  BY <1>3 DEF Vacant, Begins
<1>13. CASE Dies
  BY <1>4, <1>13 DEF Dies
<1>14. QED
  BY <1>0, <1>7, <1>8, <1>9, <1>10, <1>11, <1>12, <1>13 DEF Kinds

(* Nothing but a decision to pass makes a script pass.                     *)
LEMMA NotPassedNext ==
  ASSUME DatabaseInv, Members(script, Ops \ {"pass"}), [DatabaseNext]_allVars
  PROVE  Passing'
<1> DEFINE ops == Ops \ {"pass"}
<1>0. /\ Scripted /\ Phase /\ ExecutorInv /\ Kinds /\ unseen = {}
  BY AllKinds DEF DatabaseInv, ScriptInv
<1>1. /\ NewOps \cup {"finish"} \subseteq ops /\ {"exit", "blocked"} \subseteq ops
      /\ InnerOps \cup {"exit", "enter"} \subseteq ops
  BY DEF Ops, NewOps, InnerOps, ResearchOps
<1>2. ASSUME NEW op, AtStep(op)
      PROVE  Members(Left, ops) /\ Left \in Seq(Steps(commands))
  <2>1. script # <<>> /\ script \in Seq(Steps(commands)) /\ Left = Tail(script)
    BY <1>0, <1>2 DEF AtStep, Scripted, Left
  <2>2. QED
    BY <1>0, <1>2, <2>1, MembersLeft, AtNow
<1>3. ASSUME Members(script', ops) PROVE Passing'
  BY <1>3 DEF Passing
<1>4. Members(<<>>, ops)
  BY DEF Members
<1> HIDE DEF ops
<1>5. Members(script, ops)
  BY DEF ops
<1>6. ASSUME NEW op, NEW steps, Onward(op, steps) PROVE Passing'
  <2>1. Members(steps, ops) /\ steps \in Seq(Steps(commands)) /\ Members(Left, ops) /\ Left \in Seq(Steps(commands))
    BY <1>1, <1>2, <1>6, MembersMore DEF Onward
  <2>2. Members(steps \o Left, ops)
    BY <2>1, MembersJoined
  <2>3. Members(script', ops)
    BY <1>6, <2>1, <2>2 DEF Onward
  <2>4. QED
    BY <1>3, <2>3
<1>7. ASSUME NEW op, NEW steps, BreakingOff(op, steps) PROVE Passing'
  <2>1. CASE steps = Aborted
    <3>1. Step("exit").op \in ops /\ Step("blocked").op \in ops
      BY <1>1 DEF Step
    <3>2. Members(steps, ops)
      BY <2>1, <3>1, AbortedList DEF Members
    <3>3. QED
      BY <1>3, <1>7, <3>2 DEF BreakingOff
  <2>2. CASE op \in {"admit", "finish"} /\ steps = <<Step("exit"), Step("pass")>> /\ reconciliation_ok /\ Flattened
    <3>1. AtStep(op) /\ op \in InnerOps /\ op \notin ResearchOps
      BY <1>7, <2>2 DEF BreakingOff, ResearchOps
    <3>2. Idle
      BY <1>0, <3>1, PhaseNow DEF Idle, AtStep
    <3>3. Off = {}
      BY <1>0, <2>2, <3>2, IdleAgrees
    <3>4. UNCHANGED vars /\ script' = <<Step("exit"), Step("pass")>> /\ agenda = <<>>
      BY <1>7, <2>2, <3>2 DEF BreakingOff, Idle
    <3>5. UNCHANGED <<intents, positions, orders, moved, unseen, reconciliation_ok, agenda>>
      BY <3>4 DEF vars, storeVars, orderVars, bookVars, gateVars, brokerVars
    <3>6. Off' = Off
      BY <3>5, RestIsNotOff
    <3>7. QED
      BY <2>2, <3>3, <3>4, <3>5, <3>6 DEF Passing, Passed, Flattened, OpenPositions, Active
  <2>3. QED
    BY <1>7, <2>1, <2>2 DEF BreakingOff
<1>8. ASSUME NEW op, Ends(op) PROVE Passing'
  BY <1>2, <1>3, <1>4, <1>8 DEF Ends
<1>9. CASE GoingIn \/ GoingOut
  BY <1>2, <1>3, <1>9 DEF GoingIn, GoingOut
<1>10. CASE Waiting \/ Vacant \/ Dies
  BY <1>3, <1>4, <1>5, <1>10 DEF Waiting, Vacant, Dies, scriptVars
<1>11. ASSUME NEW steps, Begins(steps) PROVE Passing'
  <2>1. CASE Members(steps, ResearchOps)
    <3>1. ResearchOps \subseteq ops
      BY <1>1 DEF InnerOps
    <3>2. Members(steps, ops)
      BY <2>1, <3>1, MembersMore
    <3>3. QED
      BY <1>3, <1>11, <3>2 DEF Begins
  <2>2. CASE steps # <<>> /\ Head(steps).op = "enter" /\ Inner(Tail(steps))
    <3>1. steps \in Seq(Steps(commands))
      BY <1>11 DEF Begins
    <3>2. ASSUME NEW k \in 1..Len(steps) PROVE steps[k].op \in ops
      <4>1. CASE k = 1
        BY <1>1, <2>2, <3>1, <4>1, Remaining
      <4>2. CASE k # 1
        <5>1. /\ Len(steps) \in Nat /\ Len(Tail(steps)) = Len(steps) - 1
              /\ \A j \in 1..Len(Tail(steps)) : Tail(steps)[j] = steps[j + 1]
          BY <2>2, <3>1, Remaining
        <5>2. k - 1 \in 1..Len(Tail(steps)) /\ (k - 1) + 1 = k
          BY <4>2, <5>1
        <5>3. Tail(steps)[k - 1] = steps[k]
          BY <5>1, <5>2
        <5>4. Tail(steps)[k - 1].op \in InnerOps \cup {"exit"}
          BY <2>2, <5>2 DEF Inner
        <5>5. QED
          BY <1>1, <5>3, <5>4
      <4>3. QED
        BY <4>1, <4>2
    <3>3. Members(steps, ops)
      BY <3>2 DEF Members
    <3>4. QED
      BY <1>3, <1>11, <3>3 DEF Begins
  <2>3. QED
    BY <1>11, <2>1, <2>2 DEF Begins
<1>12. QED
  BY <1>0, <1>6, <1>7, <1>8, <1>9, <1>10, <1>11 DEF Kinds

(* A session that answers PASS is flat.                                    *)
LEMMA PassedIsFlat ==
  ASSUME DatabaseInv, Passing
  PROVE  PassIsFlat
<1> SUFFICES ASSUME AtStep("pass")
             PROVE  /\ Flattened /\ entries_paused /\ reconciliation_ok
                    /\ \A p \in PositionIds \ moved : held[p] = 0
                    /\ \A i \in IntentIds \ moved : ~Live(i)
  BY DEF PassIsFlat
<1>0. /\ EInv /\ FlatInv /\ Books /\ unseen = {}
      /\ script \in Seq(Steps(commands)) /\ script # <<>>
      /\ Head(script).op = "pass" /\ agenda = <<>>
  BY DEF DatabaseInv, ScriptInv, Scripted, ExecutorInv, AgreeInv, AtStep, Now
<1>1. Passed
  <2>1. ~Members(script, Ops \ {"pass"})
    BY <1>0, MembersLeft
  <2>2. QED
    BY <2>1 DEF Passing
<1>2. script = <<Step("pass")>>
  <2>1. Head(<<Step("exit"), Step("pass")>>) = Step("exit") /\ Step("exit").op = "exit"
    BY DEF Step
  <2>2. QED
    BY <1>0, <1>1, <2>1 DEF Passed
<1>3. script # <<Step("exit"), Step("pass")>>
  BY <1>2
<1>4. reconciliation_ok /\ Flattened /\ Off = {} /\ entries_paused
  BY <1>0, <1>1, <1>3 DEF Passed
<1>5. QED
  BY <1>0, <1>4, FlatBroker DEF Flattened

(* A run that answers PASS, from its own trades or from the stored result,   *)
(* leaves nothing open, not in the books and not at the simulator, up to     *)
(* what that changed since the last reconciliation began (session.py run,   *)
(* "A6_RESIDUAL_EXPOSURE", "A6_COMPLETED_SESSION_EXPOSURE_CHANGED").        *)
THEOREM PassesAreFlat == DatabaseSafety => []PassIsFlat
<1>1. DatabaseInit => Passing
  BY DEF DatabaseInit, OwnerInit, Passing, Members
<1>2. DatabaseInv /\ Passing /\ [DatabaseNext]_allVars => Passing'
  BY PassedNext, NotPassedNext DEF Passing
<1>3. DatabaseInv /\ Passing => PassIsFlat
  BY PassedIsFlat
<1>4. QED
  BY <1>1, <1>2, <1>3, OwnersKeepExecutor, PTL DEF DatabaseSafety

-----------------------------------------------------------------------------
(* What a completed session still does.                                    *)

(* The calls of a start and an end.                                        *)
QuietOps ==
  {"pause", "unreconciled", "to_unknown", "recover", "reconcile_all", "reconcile", "apply", "release"}

(* The steps of a run that repeats its result.                             *)
RepeatOps == {"enter", "admit", "exit", "pass", "blocked"}

Settled ==
  a6_result # Nil =>
    database = "a6" /\ Members(script, RepeatOps) /\ Members(agenda, QuietOps)

(* Reconciling sends nothing.                                              *)
LEMMA QuietClosed == Closed(QuietOps) /\ {"exit", "pass", "blocked"} \subseteq RepeatOps
BY DEF Closed, QuietOps, Handling, RepeatOps

(* Only a run that finishes stores a result.                               *)
LEMMA OnlyFinishStores ==
  ASSUME [DatabaseNext]_allVars, ~Finish
  PROVE  UNCHANGED a6_result
BY DEF DatabaseNext, ProcessSteps, World, allVars, sessionVars, KeepSession, SessionOwnSteps, Admit,
   Signal, Settle, Reconciled, CloseQuoted, Return, Block, Run

(* Its last steps begin no operation.                                      *)
LEMMA FinishSettles ==
  ASSUME DatabaseInv, Settled, Finish
  PROVE  Settled'
<1>0. /\ Scripted /\ Bound /\ AtStep("finish") /\ agenda = <<>> /\ script # <<>>
      /\ script \in Seq(Steps(commands)) /\ Head(script).op = "finish"
  BY DEF DatabaseInv, ScriptInv, Scripted, Finish, AtStep, Now
<1>1. database = "a6"
  BY <1>0, BoundNow
<1>2. ~Members(script, RepeatOps)
  BY <1>0, MembersLeft DEF RepeatOps
<1>3. a6_result = Nil
  BY <1>2 DEF Settled
<1>4. CASE Block
  BY <1>3, <1>4 DEF Block, KeepSession, sessionVars, Settled
<1>5. CASE Goto(<<Step("exit"), Step("pass")>>)
  <2>1. script' = <<Step("exit"), Step("pass")>> /\ agenda' = <<>> /\ database' = "a6"
    BY <1>0, <1>1, <1>5 DEF Goto, tradeVars, vars
  <2>2. <<Step("exit"), Step("pass")>> \in Ended \cup Ending
    BY DEF Ending
  <2>3. Members(<<Step("exit"), Step("pass")>>, {"exit", "pass", "blocked"})
    BY <2>2, EndingLists
  <2>4. Members(<<Step("exit"), Step("pass")>>, RepeatOps)
    BY <2>3, MembersMore, QuietClosed
  <2>5. Members(<<>>, QuietOps)
    BY DEF Members
  <2>6. QED
    BY <2>1, <2>4, <2>5 DEF Settled
<1>6. QED
  BY <1>4, <1>5 DEF Finish

(* Running the session again begins no operation either.                   *)
LEMMA SettledNext ==
  ASSUME DatabaseInv, Settled, [DatabaseNext]_allVars
  PROVE  Settled'
<1>0. /\ Scripted /\ Phase /\ EInv /\ Kinds /\ script \in Seq(Steps(commands))
      /\ (~started => agenda = <<>>)
  BY AllKinds DEF DatabaseInv, ScriptInv, Scripted, ExecutorInv, GateInv
<1>1. SUFFICES ASSUME ~Finish, a6_result # Nil, a6_result' # Nil
               PROVE  database' = "a6" /\ Members(script', RepeatOps) /\ Members(agenda', QuietOps)
  BY FinishSettles, OnlyFinishStores DEF Settled
<1>2. database = "a6" /\ Members(script, RepeatOps) /\ Members(agenda, QuietOps)
  BY <1>1 DEF Settled
<1>3. ASSUME NEW op, AtStep(op)
      PROVE  /\ op \in RepeatOps /\ Members(Left, RepeatOps)
             /\ op \in InnerOps => op = "admit"
  <2>1. script # <<>> /\ Head(script).op = op /\ Left = Tail(script) /\ agenda = <<>>
    BY <1>3 DEF AtStep, Now, Left
  <2>2. op \in RepeatOps /\ Members(Left, RepeatOps)
    BY <1>0, <1>2, <2>1, MembersLeft
  <2>3. QED
    BY <2>1, <2>2 DEF RepeatOps, InnerOps, ResearchOps
<1>4. Members(<<>>, RepeatOps) /\ Members(<<>>, QuietOps)
  BY DEF Members
<1>5. ASSUME NEW op, NEW steps PROVE ~Onward(op, steps)
  BY <1>1, <1>3 DEF Onward
<1>6. ASSUME NEW op, NEW steps, BreakingOff(op, steps)
      PROVE  database' = "a6" /\ Members(script', RepeatOps) /\ Members(agenda', QuietOps)
  <2>1. script' \in Ended \cup Ending
    BY <1>6, AbortedList DEF BreakingOff, Ended, Ending
  <2>2. Members(script', {"exit", "pass", "blocked"})
    BY <2>1, EndingLists
  <2>3. Members(script', RepeatOps)
    BY <2>2, MembersMore, QuietClosed
  <2>4. QED
    BY <1>2, <1>6, <2>3 DEF BreakingOff, vars
<1>7. ASSUME NEW op, Ends(op)
      PROVE  database' = "a6" /\ Members(script', RepeatOps) /\ Members(agenda', QuietOps)
  BY <1>2, <1>3, <1>4, <1>7 DEF Ends, vars
<1>8. CASE GoingIn
  <2>1. database' = "a6" /\ Members(script', RepeatOps)
    BY <1>2, <1>3, <1>8 DEF GoingIn
  <2>2. PICK f : f = Loop("recover", {e \in Snapshot : e.state \in {"SUBMITTING", "CREATED", "APPROVED"}})
    OBVIOUS
  <2>3. agenda' = <<Call("pause"), Call("unreconciled"), f, Call("reconcile_all")>>
    BY <1>8, <2>2 DEF GoingIn, Enter
  <2>4. /\ Call("pause").op \in QuietOps /\ Call("unreconciled").op \in QuietOps
        /\ f.op \in QuietOps /\ Call("reconcile_all").op \in QuietOps
    BY <2>2 DEF Call, Loop, Frame, QuietOps
  <2>5. Members(agenda', QuietOps)
    BY <2>3, <2>4 DEF Members
  <2>6. QED
    BY <2>1, <2>5
<1>9. CASE GoingOut
  <2>1. database' = "a6" /\ Members(script', RepeatOps)
    BY <1>2, <1>3, <1>9 DEF GoingOut
  <2>2. agenda' = <<Call("pause"), Call("release")>>
    BY <1>9 DEF GoingOut, Exit, Operation
  <2>3. Call("pause").op \in QuietOps /\ Call("release").op \in QuietOps
    BY DEF Call, Frame, QuietOps
  <2>4. Members(agenda', QuietOps)
    BY <2>2, <2>3 DEF Members
  <2>5. QED
    BY <2>1, <2>4
<1>10. CASE Waiting
  <2>1. UNCHANGED agenda \/ SimulatorSteps
    BY <1>10, OthersMove DEF Waiting, vars
  <2>2. Members(agenda', QuietOps)
    BY <1>0, <1>2, <2>1, OpsKept, QuietClosed
  <2>3. QED
    BY <1>2, <1>10, <2>2 DEF Waiting, scriptVars
<1>11. CASE Vacant \/ Dies
  BY <1>2, <1>4, <1>11 DEF Vacant, Dies
<1>12. ASSUME NEW steps, Begins(steps)
       PROVE  database' = "a6" /\ Members(script', RepeatOps) /\ Members(agenda', QuietOps)
  <2>1. database' = "a6" /\ agenda' = <<>>
    BY <1>0, <1>2, <1>12 DEF Begins, vars
  <2>2. script' = SessionSteps
    BY <1>2, <1>12 DEF Begins
  <2>3. Step("enter").op \in RepeatOps /\ Step("admit").op \in RepeatOps
    BY DEF Step, RepeatOps
  <2>4. Members(SessionSteps, RepeatOps)
    BY <2>3 DEF SessionSteps, Members
  <2>5. QED
    BY <1>4, <2>1, <2>2, <2>4
<1>13. QED
  BY <1>0, <1>5, <1>6, <1>7, <1>8, <1>9, <1>10, <1>11, <1>12 DEF Kinds

(* Only a request that is sent is counted.                                 *)
LEMMA OnlySendsCount ==
  ASSUME [Next]_vars \/ Rested, ~Running("send")
  PROVE  UNCHANGED dispatched
<1>1. CASE Rested \/ UNCHANGED vars
  BY <1>1 DEF Rested, vars, brokerVars
<1>2. CASE BrokerMoves
  BY <1>2, OthersMove
<1>3. CASE Operations \/ Crash
  BY <1>3 DEF Operations, Crash, Enter, SubmitEntry, ArmOffline, Operation, FlattenOwned, Exit,
     TightenStop, Internal, Local, brokerVars
<1>4. CASE ExecutorSteps
  BY <1>4 DEF ExecutorSteps, PauseCall, UnreconciledCall, ToUnknown, SetProtectionCall, Release,
     EndIncident, LoopEnds, Recover, Prepare, Submit, Reject, SendRefused, SendAccepted, SendFailed,
     ApplyReport, ApplyRefused, ReconcileAll, QueryAnswered, QueryUnseen, QueryFailed, ReconcileEnds,
     CancelAll, CancelUnsent, CancelSent, AskCancel, AskCancelFailed, CloseNothing, CloseBlocked,
     CloseAfterCancel, CloseCreate, CreateCloseOf, CloseStillPending, CloseRefused, CloseRecheck,
     FlattenAll, FlattenNext, ConfirmFlat, Internal, Local, brokerVars
<1>5. QED
  BY <1>1, <1>2, <1>3, <1>4 DEF Next

(* Once a result is stored, running the session again sends no order, of    *)
(* any kind, even when its process died in between (session.py run,         *)
(* docs/A6_SESSION.md: "cero submits/cierres nuevos").                      *)
THEOREM CompletedSessionIsQuiet == DatabaseSafety => CompletedSendsNothing
<1>1. DatabaseInit => Settled
  BY DEF DatabaseInit, SessionInit, Settled
<1>2. DatabaseInv /\ Settled /\ [DatabaseNext]_allVars => Settled'
  BY SettledNext
<1>3. ASSUME DatabaseInv, Settled, [DatabaseNext]_allVars, a6_result # Nil PROVE UNCHANGED dispatched
  <2>1. ~Running("send")
    <3>1. Members(agenda, QuietOps) /\ agenda \in Stacks
      BY <1>3 DEF Settled, DatabaseInv, ExecutorInv, EInv
    <3>2. "send" \notin QuietOps /\ Handling \subseteq QuietOps
      BY DEF QuietOps, Handling
    <3>3. QED
      BY <3>1, <3>2, MembersRest
  <2>2. [Next]_vars \/ Rested
    BY <1>3, OwnersMove DEF DatabaseInv, ScriptInv
  <2>3. QED
    BY <2>1, <2>2, OnlySendsCount
<1>4. DatabaseInv /\ Settled /\ [DatabaseNext]_allVars
        => [a6_result # Nil => \A i \in IntentIds : dispatched'[i] <= dispatched[i]]_dispatched
  BY <1>3
<1>5. QED
  BY <1>1, <1>2, <1>4, OwnersKeepExecutor, PTL DEF DatabaseSafety, CompletedSendsNothing
=============================================================================
