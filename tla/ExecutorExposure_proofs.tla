---------------------- MODULE ExecutorExposure_proofs ------------------------
(***************************************************************************)
(* What the executor promises about entries, built on the invariant of     *)
(* Executor_proofs: an unresolved order or position blocks new ones; none  *)
(* is given up while the broker may still fill it; and there are never     *)
(* more of them than positions are allowed, late fills aside.              *)
(***************************************************************************)
EXTENDS Executor_proofs

-----------------------------------------------------------------------------
(* What blocks entries, and the calls that are about to block them.        *)
Unresolved ==
  \/ \E i \in IntentIds : intents[i].state = "UNKNOWN"
  \/ \E p \in PositionIds : ~positions[p].accounting_complete

Blocked == entries_paused /\ ~reconciliation_ok

(* A reconcile() under way decides when it ends; else the handler of an    *)
(* ambiguous call, or what it has left to call, will have blocked entries. *)
Settling(s) ==
  \/ Reconciling(s)
  \/ /\ s # <<>>
     /\ \/ Head(s).op = "to_unknown"
        \/ /\ Head(s).op = "pause"
           /\ ~reconciliation_ok \/ (Tail(s) # <<>> /\ Head(Tail(s)).op = "unreconciled")
        \/ /\ Head(s).op = "unreconciled"
           /\ entries_paused \/ (Tail(s) # <<>> /\ Head(Tail(s)).op = "pause")

(* Below a handler are the calls that block entries.                       *)
Handled(s) ==
  s # <<>> /\ Head(s).op = "to_unknown" =>
    \E guard \in Guards, below \in Seq(Low) : Tail(s) = AmbiguityCalls(guard) \o below

(* __enter__ has paused entries and unreconciled before it recovers.       *)
Blocking(s) ==
  /\ s \in Starting /\ Head(s).op = "unreconciled" => entries_paused
  /\ s # <<>> /\ Head(s).op = "recover" => Blocked

(* An answer of unknown fate is only booked inside reconcile(); the eToro  *)
(* adapter never reports fills of a close.                                 *)
Answered(s) ==
  s # <<>> /\ Head(s).op = "apply" =>
    /\ Head(s).report.state = "UNKNOWN" => Reconciling(Tail(s))
    /\ Etoro /\ Head(s).report.intent_id \in PositionIds => Head(s).report.filled_units = 0

(* Positions are observed by the adapter that books no fills of closes.    *)
Unobserved ==
  /\ Etoro => \A p \in PositionIds : intents[p].filled_units = 0
  /\ ~Etoro => \A p \in PositionIds : positions[p].observed_units = Nil

GateInv ==
  /\ started /\ Unresolved => Blocked \/ Settling(agenda)
  /\ ~started => agenda = <<>>
  /\ Handled(agenda) /\ Blocking(agenda) /\ Answered(agenda)
  /\ Unobserved

-----------------------------------------------------------------------------
(* A stack that recovers or works is not one of a start.                   *)
LEMMA WorkingIsNotStarting ==
  ASSUME NEW s \in Working
  PROVE  s \notin Starting
<1> SUFFICES ASSUME s \in Starting PROVE FALSE
  OBVIOUS
<1>1. s # <<>> /\ Tail(s) # <<>>
  BY StartingStacks
<1>2. Tail(s) \in Seq(Low)
  BY <1>1, WorkingTop
<1>3. Head(Tail(s)) \in Low
  BY <1>1, <1>2, TopAndRest
<1>4. CASE Head(Tail(s)).op = "recover"
  BY <1>3, <1>4 DEF Low, TopOnly
<1>5. CASE Tail(s) \in Starting /\ Head(Tail(s)).op = "unreconciled"
  <2>1. Tail(Tail(s)) # <<>> /\ Head(Tail(Tail(s))).op = "recover"
    BY <1>5, StartingStacks
  <2>2. Head(Tail(Tail(s))) \in Low
    BY <1>1, <1>2, <2>1, TopAndRest
  <2>3. QED
    BY <2>1, <2>2 DEF Low, TopOnly
<1>6. QED
  BY <1>4, <1>5, StartingStacks

(* A stack past any recovery, whose handler blocks entries and whose answer *)
(* may be booked.                                                          *)
Safe(s) ==
  /\ s \notin Starting /\ Handled(s) /\ Answered(s)
  /\ s # <<>> => Head(s).op # "recover"

(* Calls that may lie below another one are safe when they are on top.     *)
LEMMA SafeLow ==
  ASSUME NEW s \in Seq(Low)
  PROVE  Safe(s)
<1>1. s \notin Starting
  BY WorkingIsNotStarting DEF Working
<1>2. s # <<>> => Head(s) \in Low
  BY TopAndRest
<1>3. QED
  BY <1>1, <1>2 DEF Safe, Handled, Answered, Low, TopOnly

(* So is any other call above them but a recovery, a handler or a booking. *)
LEMMA SafeAbove ==
  ASSUME NEW f \in Frames, f.op \notin {"apply", "recover", "to_unknown"}, NEW below \in Seq(Low)
  PROVE  Safe(Above(f, below))
<1>1. Above(f, below) \notin Starting
  BY WorkingIsNotStarting DEF Working
<1>2. Head(Above(f, below)) = f
  BY AboveProperties
<1>3. QED
  BY <1>1, <1>2 DEF Safe, Handled, Answered

(* An answer of known fate may always be booked.                           *)
LEMMA SafeApply ==
  ASSUME NEW u \in Reports, NEW below \in Seq(Low), u.state = "UNKNOWN" => Reconciling(below),
         Etoro /\ u.intent_id \in PositionIds => u.filled_units = 0
  PROVE  Safe(Above(Apply(u), below))
<1>1. Apply(u) \in Frames /\ Apply(u).op = "apply" /\ Apply(u).report = u
  BY ApplyFrames
<1>2. Above(Apply(u), below) \notin Starting
  BY <1>1, WorkingIsNotStarting DEF Working
<1>3. Head(Above(Apply(u), below)) = Apply(u) /\ Tail(Above(Apply(u), below)) = below
  BY AboveProperties
<1>4. QED
  BY <1>1, <1>2, <1>3 DEF Safe, Handled, Answered

(* An exception leaves such a stack.                                       *)
LEMMA SafeRaise ==
  ASSUME NEW s \in Seq(Low)
  PROVE  Safe(Raise(s))
<1>1. Raise(s) \notin Starting
  BY RaiseWorks, WorkingIsNotStarting
<1>2. Handled(Raise(s))
  <2>1. CASE Raise(s) = <<>>
    BY <2>1 DEF Handled
  <2>2. ASSUME NEW f \in Low, NEW below \in Seq(Low), f.op = "reconcile",
               Raise(s) = Above([f EXCEPT !.clean = FALSE], below)
        PROVE  Handled(Raise(s))
    <3>1. f \in Frames /\ f.op \in Loops /\ f.todo \in SUBSET f.todo /\ FALSE \in BOOLEAN
      BY <2>2 DEF Low, Loops
    <3>2. [f EXCEPT !.clean = FALSE].op = "reconcile"
      BY <2>2, <3>1, LoopGoesOn
    <3>3. Head(Raise(s)) = [f EXCEPT !.clean = FALSE]
      BY <2>2, AboveProperties
    <3>4. QED
      BY <3>2, <3>3 DEF Handled
  <2>3. ASSUME NEW i \in IntentIds, NEW guard \in Guards, NEW below \in Seq(Low),
               Raise(s) = Interrupted(i, guard, below)
        PROVE  Handled(Raise(s))
    <3>1. AmbiguityCalls(guard) \o below \in Seq(Low)
      BY CallFrames, Ambiguity DEF PlainOps
    <3>2. Tail(Raise(s)) = AmbiguityCalls(guard) \o below
      BY <2>3, <3>1, AboveProperties DEF Interrupted
    <3>3. QED
      BY <3>2 DEF Handled
  <2>4. \/ Raise(s) = <<>> /\ ~Reconciling(s)
        \/ \E f \in Low, below \in Seq(Low) :
             f.op = "reconcile" /\ Raise(s) = Above([f EXCEPT !.clean = FALSE], below)
        \/ \E i \in IntentIds, guard \in Guards, below \in Seq(Low) :
             /\ Raise(s) = Interrupted(i, guard, below)
             /\ Reconciling(s) => Reconciling(below)
    <3>1. Low \in SUBSET Low
      OBVIOUS
    <3>2. QED
      BY <3>1, Raises
  <2>5. QED
    BY <2>1, <2>2, <2>3, <2>4
<1>3. QED
  BY <1>1, <1>2, RaiseWorks DEF Safe, Answered

-----------------------------------------------------------------------------
(* The next stack is safe, and no reconcile() under way is abandoned.      *)
Keeps(s) == Safe(s) /\ (Reconciling(agenda) => Reconciling(s))

(* What calls other than reconcile() and the two that block leave behind.  *)
LEMMA KeepsRest ==
  ASSUME agenda \in Stacks, NEW op, Running(op), op \notin {"pause", "unreconciled", "reconcile"}
  PROVE  /\ Keeps(Then(<<>>)) /\ Keeps(Raise(Rest))
         /\ \A f \in Frames : f.op \notin {"apply", "recover", "to_unknown"} =>
              Keeps(Then(<<f>>)) /\ Keeps(<<f>> \o Rest)
         /\ \A f, g \in Low : Keeps(Then(<<f, g>>))
         /\ \A s \in Seq(Low) : (Reconciling(Rest) => Reconciling(s)) => Keeps(s) /\ Keeps(Raise(s))
<1>1. /\ Top.op = op /\ Rest \in Seq(Low) /\ agenda = Above(Top, Rest)
  BY Topmost DEF Running
<1>2. Reconciling(agenda) <=> Reconciling(Rest)
  BY <1>1, ReconcilingAbove
<1>3. ASSUME NEW s \in Seq(Low), Reconciling(Rest) => Reconciling(s)
      PROVE  Keeps(s) /\ Keeps(Raise(s))
  BY <1>2, <1>3, SafeLow, SafeRaise, RaiseWorks DEF Keeps
<1>4. Keeps(Then(<<>>)) /\ Keeps(Raise(Rest))
  BY <1>1, <1>3, Returns
<1>5. ASSUME NEW f \in Frames, f.op \notin {"apply", "recover", "to_unknown"}
      PROVE  Keeps(Then(<<f>>)) /\ Keeps(<<f>> \o Rest)
  <2>1. Keeps(Above(f, Rest))
    BY <1>1, <1>2, <1>5, SafeAbove, ReconcilingAbove DEF Keeps
  <2>2. QED
    BY <2>1, Calls1 DEF Above
<1>6. ASSUME NEW f \in Low, NEW g \in Low PROVE Keeps(Then(<<f, g>>))
  <2>1. Then(<<f, g>>) \in Seq(Low) /\ (Reconciling(Rest) => Reconciling(Then(<<f, g>>)))
    BY <1>1, Calls2
  <2>2. QED
    BY <1>3, <2>1
<1>7. QED
  BY <1>3, <1>4, <1>5, <1>6

-----------------------------------------------------------------------------
(* Steps that change nothing for the worse: what blocks entries stays, and *)
(* nothing new is unresolved.                                              *)
Harmless ==
  /\ entries_paused => entries_paused'
  /\ ~reconciliation_ok => ~reconciliation_ok'
  /\ Unresolved' => Unresolved
  /\ Unobserved => Unobserved'

(* Store calls of that kind.                                               *)
LEMMA HarmlessCalls ==
  ASSUME IInv
  PROVE  /\ UNCHANGED storeVars => Harmless
         /\ Pause(TRUE) => Harmless /\ entries_paused'
         /\ SetReconciliation(FALSE) => Harmless /\ ~reconciliation_ok'
         /\ \A i \in IntentIds, state \in OrderState :
              Transition(i, state) =>
                /\ Unobserved => Unobserved'
                /\ UNCHANGED <<positions, entries_paused, reconciliation_ok>>
                /\ state # "UNKNOWN" => Harmless
         /\ \A p \in PositionIds, stop \in StopPrices : SetProtection(p, stop, TRUE) => Harmless
         /\ \A s \in Symbols, n \in Units, stop \in StopPrices : CreateEntry(s, n, stop) => Harmless
         /\ \A p \in PositionIds, n \in Units : CreateClose(p, n) => Harmless
<1>0. /\ intents \in [IntentIds -> OrderIntent] /\ positions \in [PositionIds -> Position]
      /\ PositionIds \subseteq IntentIds /\ Symbols \subseteq IntentIds
  BY DEF IInv, TypeOK, IntentIds
<1>1. ASSUME UNCHANGED <<intents, positions>>
      PROVE  (Unresolved' => Unresolved) /\ (Unobserved => Unobserved')
  BY <1>1 DEF Unresolved, Unobserved
<1>2. UNCHANGED storeVars => Harmless
  BY <1>1 DEF Harmless, storeVars, orderVars, bookVars, gateVars
<1>3. Pause(TRUE) => Harmless /\ entries_paused'
  BY <1>1 DEF Harmless, Pause, orderVars, bookVars
<1>4. SetReconciliation(FALSE) => Harmless /\ ~reconciliation_ok'
  BY <1>1 DEF Harmless, SetReconciliation, orderVars, bookVars
<1>5. ASSUME NEW i \in IntentIds, NEW intent \in OrderIntent,
             intents' = [intents EXCEPT ![i] = intent],
             intent.filled_units = intents[i].filled_units \/ intent.filled_units = 0,
             UNCHANGED <<positions, entries_paused, reconciliation_ok>>
      PROVE  /\ Unobserved => Unobserved'
             /\ intent.state # "UNKNOWN" => Harmless
  <2>1. intents'[i] = intent /\ \A j \in IntentIds : j # i => intents'[j] = intents[j]
    BY <1>0, <1>5
  <2>2. Unobserved => Unobserved'
    BY <1>0, <1>5, <2>1 DEF Unobserved
  <2>3. intent.state # "UNKNOWN" => (Unresolved' => Unresolved)
    BY <1>5, <2>1 DEF Unresolved
  <2>4. QED
    BY <1>5, <2>2, <2>3 DEF Harmless
<1>6. ASSUME NEW i \in IntentIds, NEW state \in OrderState, Transition(i, state)
      PROVE  /\ Unobserved => Unobserved'
             /\ UNCHANGED <<positions, entries_paused, reconciliation_ok>>
             /\ state # "UNKNOWN" => Harmless
  <2> DEFINE intent == [intents[i] EXCEPT !.state = state]
  <2>1. /\ intents' = [intents EXCEPT ![i] = intent]
        /\ UNCHANGED <<positions, entries_paused, reconciliation_ok>>
    BY <1>6 DEF Transition, bookVars, gateVars
  <2>2. intents[i] \in OrderIntent
    BY <1>0
  <2>3. intent \in OrderIntent /\ intent.filled_units = intents[i].filled_units
        /\ intent.state = state
    BY <2>2 DEF OrderIntent
  <2> HIDE DEF intent
  <2>4. QED
    BY <1>5, <2>1, <2>3
<1>7. ASSUME NEW p \in PositionIds, NEW stop \in StopPrices, SetProtection(p, stop, TRUE)
      PROVE  Harmless
  <2>1. /\ positions' = [positions EXCEPT ![p].stop_price = stop, ![p].protected = TRUE]
        /\ UNCHANGED <<intents, entries_paused, reconciliation_ok>>
    BY <1>7 DEF SetProtection, orderVars, gateVars
  <2>2. \A q \in PositionIds :
          /\ positions'[q].accounting_complete = positions[q].accounting_complete
          /\ positions'[q].observed_units = positions[q].observed_units
    BY <1>0, <2>1 DEF Position
  <2>3. QED
    BY <2>1, <2>2 DEF Harmless, Unresolved, Unobserved
<1>8. ASSUME NEW i \in IntentIds, NEW n \in Units, NEW stop \in StopPrices \cup {Nil},
             intents' = [intents EXCEPT ![i] = NewIntent(n, stop)],
             UNCHANGED <<bookVars, gateVars>>
      PROVE  Harmless
  <2>1. /\ NewIntent(n, stop) \in OrderIntent /\ NewIntent(n, stop).filled_units = 0
        /\ NewIntent(n, stop).state # "UNKNOWN"
    BY StoreAssumption DEF NewIntent, OrderIntent, OrderState, ACTIVE_STATES, Units
  <2>2. QED
    BY <1>5, <1>8, <2>1 DEF bookVars, gateVars
<1>9. ASSUME NEW s \in Symbols, NEW n \in Units, NEW stop \in StopPrices, CreateEntry(s, n, stop)
      PROVE  Harmless
  BY <1>0, <1>8, <1>9 DEF CreateEntry
<1>10. ASSUME NEW p \in PositionIds, NEW n \in Units, CreateClose(p, n)
       PROVE  Harmless
  BY <1>0, <1>8, <1>10 DEF CreateClose
<1>11. QED
  BY <1>2, <1>3, <1>4, <1>6, <1>7, <1>9, <1>10

-----------------------------------------------------------------------------
(* Two kinds of steps keep the gate closed: those after which nothing new  *)
(* is unresolved unless entries are blocked, and all those of a reconcile() *)
(* that goes on.                                                           *)
LEMMA GateMove ==
  ASSUME GateInv, Keeps(agenda'), started, started', Unobserved',
         entries_paused => entries_paused', ~reconciliation_ok => ~reconciliation_ok',
         Unresolved' => Unresolved \/ Blocked' \/ Reconciling(agenda'),
         agenda # <<>> => Top.op \notin {"pause", "unreconciled", "to_unknown"}
  PROVE  GateInv'
<1>1. Handled(agenda)' /\ Answered(agenda)' /\ Blocking(agenda)'
  BY DEF Keeps, Safe, Handled, Answered, Blocking
<1>2. Unresolved' => Blocked' \/ Reconciling(agenda')
  BY DEF GateInv, Keeps, Blocked, Settling, Top
<1>3. QED
  BY <1>1, <1>2 DEF GateInv, Settling

(* A step that resolves nothing and leaves nothing new unresolved.         *)
LEMMA QuietMove ==
  ASSUME GateInv, Harmless, Keeps(agenda'), started, started',
         agenda # <<>> => Top.op \notin {"pause", "unreconciled", "to_unknown"}
  PROVE  GateInv'
BY GateMove DEF Harmless, GateInv

(* A step of a reconcile() that goes on: it decides when it ends.          *)
LEMMA ReconcilingMove ==
  ASSUME GateInv, Reconciling(agenda'), Safe(agenda'), started', Unobserved'
  PROVE  GateInv'
<1>1. Handled(agenda)' /\ Answered(agenda)' /\ Blocking(agenda)'
  BY DEF Safe, Handled, Answered, Blocking
<1>2. QED
  BY <1>1 DEF GateInv, Settling

(* A session that has ended blocks nothing.                                *)
LEMMA EndedMove ==
  ASSUME GateInv, ~started', agenda' = <<>>, UNCHANGED storeVars
  PROVE  GateInv'
<1>1. <<>> \notin Starting
  BY StartingStacks
<1>2. QED
  BY <1>1 DEF GateInv, Handled, Answered, Blocking, Unobserved, storeVars, orderVars, bookVars

-----------------------------------------------------------------------------
(* The calls that block entries close the gate, one after the other, in    *)
(* the handlers and in __enter__ (engine.py __enter__, _send,              *)
(* cancel_pending_entries).                                                *)
LEMMA BlockingMove ==
  ASSUME agenda \in Stacks, GateInv, Running("pause") \/ Running("unreconciled"),
         Harmless, agenda' = Then(<<>>), started',
         Top.op = "pause" => entries_paused', Top.op = "unreconciled" => ~reconciliation_ok'
  PROVE  GateInv'
<1>0. agenda # <<>> /\ Top.op \in {"pause", "unreconciled"} /\ started
  BY DEF Running
<1>1. CASE agenda \in Working
  <2>1. Rest \in Seq(Low) /\ agenda = Above(Top, Rest)
    BY <1>0, <1>1, WorkingTop DEF Top, Rest
  <2>2. Reconciling(agenda) => Reconciling(agenda')
    BY <1>0, <2>1, ReconcilingAbove, Returns
  <2>3. Safe(agenda')
    BY <2>1, Returns, SafeLow
  <2>4. Handled(agenda)' /\ Answered(agenda)' /\ Blocking(agenda)'
    BY <2>3 DEF Safe, Handled, Answered, Blocking
  <2>5. Rest # <<>> /\ Head(Rest).op \in {"pause", "unreconciled"} => agenda' = Rest
    BY DEF Then, Guards
  <2>6. ASSUME Unresolved' PROVE Blocked' \/ Settling(agenda)'
    <3>1. Blocked \/ Settling(agenda)
      BY <1>0, <2>6 DEF GateInv, Harmless
    <3>2. CASE Blocked \/ Reconciling(agenda)
      BY <2>2, <3>2 DEF Blocked, Settling, Harmless
    <3>3. CASE Top.op = "pause" /\ Settling(agenda) /\ ~Reconciling(agenda)
      <4>1. ~reconciliation_ok \/ (Rest # <<>> /\ Head(Rest).op = "unreconciled")
        BY <3>3 DEF Settling, Top, Rest
      <4>2. QED
        BY <2>5, <3>3, <4>1 DEF Blocked, Settling, Harmless
    <3>4. CASE Top.op = "unreconciled" /\ Settling(agenda) /\ ~Reconciling(agenda)
      <4>1. entries_paused \/ (Rest # <<>> /\ Head(Rest).op = "pause")
        BY <3>4 DEF Settling, Top, Rest
      <4>2. QED
        BY <2>5, <3>4, <4>1 DEF Blocked, Settling, Harmless
    <3>5. QED
      BY <1>0, <3>1, <3>2, <3>3, <3>4
  <2>7. QED
    BY <2>4, <2>6 DEF GateInv, Harmless
<1>2. CASE agenda \in Starting /\ Top.op = "pause"
  <2>1. Rest \in Starting /\ Rest # <<>> /\ Head(Rest).op = "unreconciled"
    BY <1>2, StartingStacks DEF Top, Rest
  <2>2. agenda' = Rest
    BY <2>1 DEF Then, Guards
  <2>3. entries_paused'
    BY <1>2
  <2>4. Handled(agenda)' /\ Answered(agenda)' /\ Blocking(agenda)' /\ Settling(agenda)'
    BY <2>1, <2>2, <2>3 DEF Handled, Answered, Blocking, Settling
  <2>5. QED
    BY <2>4 DEF GateInv, Harmless
<1>3. CASE agenda \in Starting /\ Top.op = "unreconciled"
  <2>1. Rest \in Working /\ Rest # <<>> /\ Head(Rest).op = "recover"
    BY <1>3, StartingStacks DEF Top, Rest
  <2>2. agenda' = Rest
    BY <2>1 DEF Then, Guards
  <2>3. Blocked'
    BY <1>3 DEF GateInv, Blocking, Blocked, Harmless, Top
  <2>4. Handled(agenda)' /\ Answered(agenda)' /\ Blocking(agenda)'
    BY <2>1, <2>2, <2>3, WorkingIsNotStarting DEF Handled, Answered, Blocking
  <2>5. QED
    BY <2>3, <2>4 DEF GateInv, Harmless
<1>4. QED
  BY <1>0, <1>1, <1>2, <1>3 DEF Stacks

(* A handler that marks an order UNKNOWN has the blocking calls below it   *)
(* (engine.py _send, cancel_pending_entries).                              *)
LEMMA UnknownMove ==
  ASSUME EInv, GateInv, ToUnknown
  PROVE  GateInv'
<1>1. /\ Running("to_unknown") /\ Local /\ agenda' = Then(<<>>)
      /\ Transition(Top.id, "UNKNOWN") \/ UNCHANGED storeVars
  BY DEF ToUnknown
<1>2. agenda \in Stacks /\ IInv
  BY DEF EInv
<1>3. Top.op = "to_unknown" /\ Typed(Top) /\ agenda # <<>>
  BY <1>1, <1>2, Topmost DEF Running
<1>4. Top.id \in IntentIds
  BY <1>3 DEF Typed, IntentOps
<1>5. PICK guard \in Guards, below \in Seq(Low) : Rest = AmbiguityCalls(guard) \o below
  BY <1>3 DEF GateInv, Handled, Top, Rest
<1> DEFINE pause == Call("pause")
           unreconciled == Call("unreconciled")
<1>6. pause \in Low /\ pause.op = "pause" /\ unreconciled \in Low /\ unreconciled.op = "unreconciled"
  BY CallFrames DEF PlainOps
<1> HIDE DEF pause, unreconciled
<1>7. /\ Rest \in Seq(Low)
      /\ \/ Rest = Above(pause, Above(unreconciled, below))
         \/ Rest = Above(unreconciled, Above(pause, below))
  BY <1>5, <1>6, Ambiguity DEF pause, unreconciled
<1>8. ASSUME NEW f \in Low, NEW g \in Low, Rest = Above(f, Above(g, below))
      PROVE  Rest # <<>> /\ Head(Rest) = f /\ Tail(Rest) # <<>> /\ Head(Tail(Rest)) = g
  <2>1. Above(g, below) \in Seq(Low) /\ Above(g, below) # <<>> /\ Head(Above(g, below)) = g
    BY AboveProperties
  <2>2. QED
    BY <1>8, <2>1, AboveProperties
<1>9. /\ Rest # <<>> /\ Tail(Rest) # <<>>
      /\ \/ Head(Rest).op = "pause" /\ Head(Tail(Rest)).op = "unreconciled"
         \/ Head(Rest).op = "unreconciled" /\ Head(Tail(Rest)).op = "pause"
  BY <1>6, <1>7, <1>8
<1>10. agenda' = Rest
  BY <1>1, <1>9 DEF Then, Guards
<1>11. Settling(agenda)'
  BY <1>9, <1>10 DEF Settling
<1>12. Safe(agenda')
  BY <1>7, <1>10, SafeLow
<1>13. Unobserved'
  <2>1. "UNKNOWN" \in OrderState
    BY DEF OrderState, ACTIVE_STATES
  <2>2. QED
    BY <1>1, <1>2, <1>4, <2>1, HarmlessCalls DEF GateInv, Harmless
<1>14. started'
  BY <1>1 DEF Running, Local
<1>15. Handled(agenda)' /\ Answered(agenda)' /\ Blocking(agenda)'
  BY <1>12 DEF Safe, Handled, Answered, Blocking
<1>16. QED
  BY <1>11, <1>13, <1>14, <1>15 DEF GateInv

-----------------------------------------------------------------------------
(* A call other than those, above a safe stack.                            *)
LEMMA QuietCall ==
  ASSUME GateInv, NEW op, Running(op), op \notin {"pause", "unreconciled", "to_unknown"},
         Harmless, Keeps(agenda'), started' = started
  PROVE  GateInv'
BY QuietMove DEF Running

(* What the frame on top says of its call.                                 *)
LEMMA TopCall ==
  ASSUME EInv, NEW op, Running(op), op \notin {"pause", "unreconciled"}
  PROVE  Top \in Frames /\ Typed(Top) /\ Top.op = op /\ Rest \in Seq(Low) /\ agenda # <<>>
BY Topmost DEF EInv, Running

(* Calls that return, fail, or make calls of the plain kind.               *)
LEMMA GateReturns ==
  ASSUME EInv, GateInv,
         \/ SetProtectionCall \/ EndIncident \/ LoopEnds("recover") \/ LoopEnds("cancel")
         \/ LoopEnds("flatten") \/ CloseNothing \/ CloseStillPending \/ ConfirmFlat
         \/ CloseBlocked \/ CloseAfterCancel \/ Prepare \/ Reject \/ ApplyRefused
         \/ AskCancelFailed \/ CloseRefused \/ SendFailed
  PROVE  GateInv'
<1>0. agenda \in Stacks /\ IInv
  BY DEF EInv
<1>1. /\ Call("pause") \in Frames /\ Call("pause").op = "pause" /\ Call("cancel_all") \in Low
      /\ Call("cancel_all").op = "cancel_all"
  BY CallFrames DEF PlainOps, Low
<1>2. UNCHANGED storeVars => Harmless
  BY <1>0, HarmlessCalls
<1>3. ASSUME NEW op, Running(op), op \notin {"pause", "unreconciled", "reconcile"}
      PROVE  Keeps(Then(<<>>)) /\ Keeps(Then(<<Call("pause")>>)) /\ Keeps(Raise(Rest))
  BY <1>0, <1>1, <1>3, KeepsRest
<1>4. ASSUME NEW op, Running(op), op \notin {"pause", "unreconciled", "reconcile", "to_unknown"},
             Harmless, Keeps(agenda'), started' = started
      PROVE  GateInv'
  BY <1>4, QuietCall
<1>5. CASE \/ EndIncident \/ LoopEnds("recover") \/ LoopEnds("cancel") \/ LoopEnds("flatten")
           \/ CloseNothing \/ CloseStillPending \/ ConfirmFlat
  BY <1>2, <1>3, <1>4, <1>5 DEF EndIncident, LoopEnds, CloseNothing, CloseStillPending, ConfirmFlat,
     Internal, Local
<1>6. CASE CloseBlocked
  BY <1>2, <1>3, <1>4, <1>6 DEF CloseBlocked, Internal, Local
<1>7. CASE ApplyRefused \/ AskCancelFailed \/ CloseRefused \/ SendFailed
  BY <1>2, <1>3, <1>4, <1>7 DEF ApplyRefused, AskCancelFailed, CloseRefused, SendFailed, Internal, Local
<1>8. CASE SetProtectionCall
  <2>1. /\ Running("set_protection") /\ agenda' = Then(<<>>) /\ started' = started
        /\ SetProtection(Top.id, Top.report, TRUE)
    BY <1>8 DEF SetProtectionCall, Local
  <2>2. Top.id \in PositionIds /\ Top.report \in StopPrices
    BY <2>1, TopCall DEF Typed
  <2>3. Harmless
    BY <1>0, <2>1, <2>2, HarmlessCalls
  <2>4. QED
    BY <1>3, <1>4, <2>1, <2>3
<1>9. CASE CloseAfterCancel
  <2>1. /\ Running("close") /\ started' = started /\ UNCHANGED storeVars
        /\ agenda' = Then(<<Call("cancel_all"), CallOn("close_recheck", Top.id)>>)
    BY <1>9 DEF CloseAfterCancel, Internal, Local
  <2>2. Top.id \in PositionIds
    BY <2>1, TopCall DEF Typed
  <2>3. CallOn("close_recheck", Top.id) \in Low
    BY <2>2, PositionFrames
  <2>4. Keeps(agenda')
    BY <1>0, <1>1, <2>1, <2>3, KeepsRest
  <2>5. QED
    BY <1>2, <1>4, <2>1, <2>4
<1>10. CASE Prepare
  <2>1. /\ Running("prepare") /\ started' = started /\ UNCHANGED storeVars
        /\ agenda' \in {Then(<<CallOn("submit", Top.id)>>), Then(<<CallOn("reject", Top.id)>>),
                        Raise(Rest)}
    BY <1>10 DEF Prepare, Internal, Local
  <2>2. Top.id \in IntentIds
    BY <2>1, TopCall DEF Typed, IntentOps
  <2>3. ASSUME NEW op \in {"submit", "reject"} PROVE Keeps(Then(<<CallOn(op, Top.id)>>))
    <3>1. CallOn(op, Top.id) \in Frames /\ CallOn(op, Top.id).op = op
      BY <2>2, <2>3, IntentFrames DEF IntentOps
    <3>2. QED
      BY <1>0, <2>1, <3>1, KeepsRest
  <2>4. Keeps(agenda')
    BY <1>3, <2>1, <2>3
  <2>5. QED
    BY <1>2, <1>4, <2>1, <2>4
<1>11. CASE Reject
  <2>1. /\ Running("reject") /\ started' = started /\ Transition(Top.id, "REJECTED")
        /\ agenda' = Then(<<Call("pause")>>)
    BY <1>11 DEF Reject, Local
  <2>2. Top.id \in IntentIds /\ "REJECTED" \in OrderState
    BY <2>1, TopCall DEF Typed, IntentOps, OrderState, TERMINAL_STATES
  <2>3. Harmless
    BY <1>0, <2>1, <2>2, HarmlessCalls
  <2>4. QED
    BY <1>3, <1>4, <2>1, <2>3
<1>12. QED
  BY <1>5, <1>6, <1>7, <1>8, <1>9, <1>10, <1>11

(* A loop that has taken an entry is still that loop.                      *)
LEMMA LoopLeft ==
  ASSUME EInv, NEW op \in Loops, Running(op), NEW e
  PROVE  /\ Without(e) \in Frames /\ Without(e).op = op
         /\ \A clean \in BOOLEAN : /\ [Without(e) EXCEPT !.clean = clean] \in Frames
                                   /\ [Without(e) EXCEPT !.clean = clean].op = op
<1>1. Top \in Frames /\ Top.op = op
  BY TopCall DEF Loops
<1>2. Top.todo \ {e} \in SUBSET Top.todo /\ FALSE \in BOOLEAN
  OBVIOUS
<1>3. Without(e) \in Frames /\ Without(e).op = op
  BY <1>1, <1>2, LoopGoesOn DEF Without
<1>4. ASSUME NEW clean \in BOOLEAN
      PROVE  /\ [Without(e) EXCEPT !.clean = clean] \in Frames
             /\ [Without(e) EXCEPT !.clean = clean].op = op
  <2>1. Without(e).op \in Loops /\ Without(e).todo \in SUBSET Without(e).todo
    BY <1>3
  <2>2. QED
    BY <1>3, <2>1, LoopGoesOn
<1>5. QED
  BY <1>3, <1>4

(* The loop of __enter__ leaves orders of unknown fate behind, but behind   *)
(* a closed gate (engine.py __enter__).                                    *)
LEMMA RecoverGate ==
  ASSUME EInv, GateInv, Recover
  PROVE  GateInv'
<1>1. PICK e \in Top.todo : /\ Transition(e.id, RecoveredState(e.state))
                            /\ agenda' = <<Without(e)>> \o Rest
  BY DEF Recover
<1>2. Running("recover") /\ started' = started
  BY DEF Recover, Local
<1>3. Typed(Top) /\ Top.op = "recover" /\ Rest \in Seq(Low) /\ agenda # <<>> /\ IInv
  BY <1>2, TopCall DEF EInv
<1>4. e.id \in IntentIds
  BY <1>1, <1>3 DEF Typed, Entries
<1>5. RecoveredState(e.state) \in OrderState
  BY DEF RecoveredState, OrderState, ACTIVE_STATES, TERMINAL_STATES
<1>6. Unobserved' /\ UNCHANGED <<entries_paused, reconciliation_ok>>
  BY <1>1, <1>3, <1>4, <1>5, HarmlessCalls DEF GateInv
<1>7. Blocked'
  BY <1>3, <1>6 DEF GateInv, Blocking, Blocked, Top
<1>8. Without(e) \in Frames /\ Without(e).op = "recover"
  BY <1>2, LoopLeft DEF Loops
<1>9. /\ Above(Without(e), Rest) \notin Starting /\ Head(Above(Without(e), Rest)) = Without(e)
  BY <1>3, <1>8, AboveProperties, WorkingIsNotStarting DEF Working
<1>10. agenda' \notin Starting /\ Head(agenda').op = "recover"
  BY <1>1, <1>8, <1>9 DEF Above
<1>11. Handled(agenda)' /\ Answered(agenda)' /\ Blocking(agenda)'
  BY <1>7, <1>10 DEF Handled, Answered, Blocking
<1>12. QED
  BY <1>2, <1>6, <1>7, <1>11 DEF GateInv, Running

(* The loops of the other operations.                                      *)
LEMMA GateLoops ==
  ASSUME EInv, GateInv,
         \/ ReconcileAll \/ QueryUnseen \/ QueryFailed \/ CancelAll \/ CancelUnsent
         \/ FlattenAll \/ FlattenNext
  PROVE  GateInv'
<1>0. agenda \in Stacks /\ IInv
  BY DEF EInv
<1>1. UNCHANGED storeVars => Harmless
  BY <1>0, HarmlessCalls
<1>2. ASSUME NEW op, Running(op), op \notin {"pause", "unreconciled", "reconcile", "to_unknown"},
             Harmless, started' = started, NEW f \in Frames,
             f.op \notin {"apply", "recover", "to_unknown"}, agenda' = <<f>> \o Rest
      PROVE  GateInv'
  <2>1. Keeps(agenda')
    BY <1>0, <1>2, KeepsRest
  <2>2. QED
    BY <1>2, <2>1, QuietCall
<1>3. ASSUME NEW op, Running(op), op \notin {"pause", "unreconciled"},
             Unobserved', started' = started, NEW f \in Frames,
             f.op = "reconcile", agenda' = <<f>> \o Rest
      PROVE  GateInv'
  <2>1. Rest \in Seq(Low)
    BY <1>3, TopCall
  <2>2. Reconciling(Above(f, Rest)) /\ Safe(Above(f, Rest))
    BY <1>3, <2>1, ReconcilingAbove, SafeAbove
  <2>3. QED
    BY <1>3, <2>2, ReconcilingMove DEF Above, Running
<1>4. UNCHANGED storeVars => Unobserved'
  BY <1>1 DEF Harmless, GateInv
<1>5. CASE ReconcileAll
  <2> DEFINE todo == {e \in Snapshot : e.state \notin {"CREATED", "APPROVED", "REJECTED"}}
  <2>1. /\ LoopFrame("reconcile", todo, TRUE) \in Frames
        /\ LoopFrame("reconcile", todo, TRUE).op = "reconcile"
    <3>1. todo \in SUBSET Entries
      BY <1>0, SnapshotRows
    <3>2. QED
      BY <3>1, LoopFrames DEF Loops, LoopEntries
  <2>2. agenda' = <<LoopFrame("reconcile", todo, TRUE)>> \o Rest
    BY <1>5 DEF ReconcileAll, Loop, LoopFrame
  <2>3. Running("reconcile_all") /\ UNCHANGED storeVars /\ started' = started
    BY <1>5 DEF ReconcileAll
  <2> HIDE DEF todo
  <2>4. QED
    BY <1>3, <1>4, <2>1, <2>2, <2>3
<1>6. CASE QueryUnseen
  <2>1. Running("reconcile") /\ started' = started
    BY <1>6 DEF QueryUnseen, Local
  <2>2. PICK e \in Top.todo :
          /\ Transition(e.id, "UNKNOWN") \/ UNCHANGED storeVars
          /\ agenda' = <<[Without(e) EXCEPT !.clean = @ /\ e.state \notin ACTIVE_STATES]>> \o Rest
    BY <1>6 DEF QueryUnseen
  <2>3. e.id \in IntentIds /\ "UNKNOWN" \in OrderState
    BY <2>1, <2>2, TopCall DEF Typed, Entries, OrderState, ACTIVE_STATES
  <2>4. Unobserved'
    BY <1>0, <1>4, <2>2, <2>3, HarmlessCalls DEF GateInv
  <2>5. (Without(e).clean /\ e.state \notin ACTIVE_STATES) \in BOOLEAN
    OBVIOUS
  <2>6. PICK clean \in BOOLEAN : agenda' = <<[Without(e) EXCEPT !.clean = clean]>> \o Rest
    BY <2>2, <2>5
  <2>7. /\ [Without(e) EXCEPT !.clean = clean] \in Frames
        /\ [Without(e) EXCEPT !.clean = clean].op = "reconcile"
    BY <2>1, LoopLeft DEF Loops
  <2>8. QED
    BY <1>3, <2>1, <2>4, <2>6, <2>7
<1>7. CASE QueryFailed
  <2>1. Running("reconcile") /\ started' = started /\ UNCHANGED storeVars
    BY <1>7 DEF QueryFailed, Internal, Local
  <2>2. PICK e \in Top.todo : agenda' = <<[Without(e) EXCEPT !.clean = FALSE]>> \o Rest
    BY <1>7 DEF QueryFailed
  <2>3. /\ [Without(e) EXCEPT !.clean = FALSE] \in Frames
        /\ [Without(e) EXCEPT !.clean = FALSE].op = "reconcile"
    BY <2>1, LoopLeft DEF Loops
  <2>4. QED
    BY <1>3, <1>4, <2>1, <2>2, <2>3
<1>8. CASE CancelAll
  <2> DEFINE todo == {e \in Snapshot : e.id \in Symbols /\ e.state \in ACTIVE_STATES}
  <2>1. todo \in SUBSET PendingEntries
    <3>1. ASSUME NEW e \in Entries, e.id \in Symbols, e.state \in ACTIVE_STATES
          PROVE  e \in PendingEntries
      BY <3>1 DEF Entries, PendingEntries
    <3>2. QED
      BY <1>0, <3>1, SnapshotRows
  <2>2. /\ LoopFrame("cancel", todo, TRUE) \in Frames
        /\ LoopFrame("cancel", todo, TRUE).op = "cancel"
    BY <2>1, LoopFrames DEF Loops, LoopEntries
  <2>3. agenda' = <<LoopFrame("cancel", todo, TRUE)>> \o Rest
    BY <1>8 DEF CancelAll, Loop, LoopFrame
  <2>4. Running("cancel_all") /\ UNCHANGED storeVars /\ started' = started
    BY <1>8 DEF CancelAll, Internal, Local
  <2> HIDE DEF todo
  <2>5. QED
    BY <1>1, <1>2, <2>2, <2>3, <2>4
<1>9. CASE CancelUnsent
  <2>1. Running("cancel") /\ started' = started
    BY <1>9 DEF CancelUnsent, Local
  <2>2. PICK e \in Top.todo : Transition(e.id, "EXPIRED") /\ agenda' = <<Without(e)>> \o Rest
    BY <1>9 DEF CancelUnsent
  <2>3. e.id \in IntentIds /\ "EXPIRED" \in OrderState
    BY <2>1, <2>2, TopCall DEF Typed, PendingEntries, IntentIds, OrderState, TERMINAL_STATES
  <2>4. Harmless
    BY <1>0, <2>2, <2>3, HarmlessCalls
  <2>5. Without(e) \in Frames /\ Without(e).op = "cancel"
    BY <2>1, LoopLeft DEF Loops
  <2>6. QED
    BY <1>2, <2>1, <2>2, <2>4, <2>5
<1>10. CASE FlattenAll
  <2> DEFINE todo == {[id |-> p, state |-> Nil] : p \in OpenPositions}
  <2>1. todo \in SUBSET HeldEntries
    BY DEF HeldEntries, OpenPositions
  <2>2. /\ LoopFrame("flatten", todo, TRUE) \in Frames
        /\ LoopFrame("flatten", todo, TRUE).op = "flatten"
    BY <2>1, LoopFrames DEF Loops, LoopEntries
  <2>3. agenda' = <<LoopFrame("flatten", todo, TRUE)>> \o Rest
    BY <1>10 DEF FlattenAll, Loop, LoopFrame
  <2>4. Running("flatten_all") /\ UNCHANGED storeVars /\ started' = started
    BY <1>10 DEF FlattenAll, Internal, Local
  <2> HIDE DEF todo
  <2>5. QED
    BY <1>1, <1>2, <2>2, <2>3, <2>4
<1>11. CASE FlattenNext
  <2>1. Running("flatten") /\ UNCHANGED storeVars /\ started' = started
    BY <1>11 DEF FlattenNext, Internal, Local
  <2>2. PICK e \in Top.todo : agenda' = <<CallOn("close", e.id), Without(e)>> \o Rest
    BY <1>11 DEF FlattenNext
  <2>3. e \in HeldEntries /\ Rest \in Seq(Low)
    BY <2>1, <2>2, TopCall DEF Typed
  <2>4. CallOn("close", e.id) \in Low
    BY <2>3, PositionFrames DEF HeldEntries
  <2>5. Without(e) \in Low
    BY <2>1, LoopLeft DEF Loops, Low, TopOnly
  <2>6. ASSUME NEW f \in Low, NEW g \in Low
        PROVE  Keeps(<<f, g>> \o Rest)
    <3>1. <<f, g>> \o Rest \in Seq(Low)
      BY <2>3, ConcatProperties
    <3>2. <<f, g>> \o Rest = Above(f, Above(g, Rest)) /\ Above(g, Rest) \in Seq(Low)
      <4>1. ASSUME NEW below \in Seq(Low)
            PROVE  <<f, g>> \o below = Above(f, Above(g, below))
        BY TwoAbove
      <4>2. QED
        BY <2>3, <4>1, AboveProperties
    <3>3. Reconciling(Rest) => Reconciling(<<f, g>> \o Rest)
      BY <2>3, <3>2, ReconcilingAbove
    <3>4. QED
      BY <1>0, <2>1, <3>1, <3>3, KeepsRest
  <2>7. Keeps(agenda')
    BY <2>2, <2>4, <2>5, <2>6
  <2>8. QED
    BY <1>1, <2>1, <2>7, QuietCall
<1>12. QED
  BY <1>5, <1>6, <1>7, <1>8, <1>9, <1>10, <1>11

(* A reconcile() opens the gate only when nothing is unresolved, and pauses *)
(* entries otherwise (engine.py reconcile).                                *)
LEMMA ReconcileGate ==
  ASSUME EInv, GateInv, ReconcileEnds
  PROVE  GateInv'
<1>1. /\ Running("reconcile") /\ started' = started /\ SetReconciliation(ReconciledCleanly)
      /\ agenda' = Then(IF ReconciledCleanly THEN <<>> ELSE <<Call("pause")>>)
  BY DEF ReconcileEnds, Local
<1>2. /\ UNCHANGED <<intents, positions, entries_paused>> /\ reconciliation_ok' = ReconciledCleanly
      /\ (Unresolved' <=> Unresolved) /\ Unobserved'
  BY <1>1 DEF SetReconciliation, orderVars, bookVars, Unresolved, Unobserved, GateInv
<1>3. Rest \in Seq(Low)
  BY <1>1, TopCall
<1>4. Call("pause") \in Low /\ Call("pause").op = "pause"
  BY CallFrames DEF PlainOps
<1>5. CASE ReconciledCleanly
  <2>1. ~Unresolved
    BY <1>5 DEF ReconciledCleanly, Unresolved
  <2>2. Safe(agenda')
    BY <1>1, <1>3, <1>5, Returns, SafeLow
  <2>3. QED
    BY <1>1, <1>2, <2>1, <2>2 DEF GateInv, Running, Safe, Blocking
<1>6. CASE ~ReconciledCleanly
  <2>1. ASSUME NEW f \in Low, f.op = "pause", agenda' = Above(f, Rest) PROVE GateInv'
    <3>1. Above(f, Rest) \in Seq(Low) /\ Head(Above(f, Rest)) = f /\ Above(f, Rest) # <<>>
      BY <1>3, AboveProperties
    <3>2. Safe(agenda') /\ Head(agenda').op = "pause" /\ agenda' # <<>>
      BY <2>1, <3>1, SafeLow
    <3>3. Settling(agenda)'
      BY <1>2, <1>6, <3>2 DEF Settling
    <3>4. Handled(agenda)' /\ Answered(agenda)' /\ Blocking(agenda)'
      BY <3>2 DEF Safe, Handled, Answered, Blocking
    <3>5. QED
      BY <1>1, <1>2, <3>3, <3>4 DEF GateInv, Running
  <2>2. QED
    BY <1>1, <1>4, <1>6, <2>1, Calls1
<1>7. QED
  BY <1>5, <1>6

(* The other steps of a cancellation and of a submission.                  *)
LEMMA GateCalls ==
  ASSUME EInv, GateInv, Submit \/ SendRefused \/ CancelSent \/ CloseCreate \/ CloseRecheck
  PROVE  GateInv'
<1>0. agenda \in Stacks /\ IInv
  BY DEF EInv
<1>1. UNCHANGED storeVars => Harmless
  BY <1>0, HarmlessCalls
<1>2. CASE Submit
  <2>1. /\ Running("submit") /\ started' = started /\ Transition(Top.id, "SUBMITTING")
        /\ agenda' = <<CallOn("send", Top.id), CallOn("sending", Top.id)>> \o Rest
    BY <1>2 DEF Submit, Local
  <2>2. Top.id \in IntentIds /\ Rest \in Seq(Low) /\ "SUBMITTING" \in OrderState
    BY <2>1, TopCall DEF Typed, IntentOps, OrderState, ACTIVE_STATES
  <2>3. Harmless
    BY <1>0, <2>1, <2>2, HarmlessCalls
  <2>4. /\ CallOn("send", Top.id) \in Frames /\ CallOn("send", Top.id).op = "send"
        /\ CallOn("sending", Top.id) \in Low
    BY <2>2, IntentFrames DEF IntentOps, TopOnly
  <2>5. ASSUME NEW f \in Frames, f.op = "send", NEW g \in Low, NEW below \in Seq(Low),
               Reconciling(agenda) => Reconciling(below)
        PROVE  Keeps(<<f, g>> \o below)
    <3>1. <<f, g>> \o below = Above(f, Above(g, below)) /\ Above(g, below) \in Seq(Low)
      BY TwoAbove, AboveProperties
    <3>2. Safe(Above(f, Above(g, below)))
      BY <2>5, <3>1, SafeAbove
    <3>3. Reconciling(below) => Reconciling(Above(f, Above(g, below)))
      BY <3>1, ReconcilingAbove
    <3>4. QED
      BY <2>5, <3>1, <3>2, <3>3 DEF Keeps
  <2>6. Reconciling(agenda) => Reconciling(Rest)
    BY <1>0, <2>1, Topmost, ReconcilingAbove DEF Running
  <2>7. Keeps(agenda')
    BY <2>1, <2>2, <2>4, <2>5, <2>6
  <2>8. QED
    BY <2>1, <2>3, <2>7, QuietCall
<1>3. CASE SendRefused
  <2>1. /\ Running("send") /\ started' = started /\ UNCHANGED storeVars
        /\ agenda' = <<CallOn("reject", Top.id)>> \o Tail(Rest)
    BY <1>3 DEF SendRefused, Internal, Local
  <2>2. /\ Rest # <<>> /\ Head(Rest).op = "sending" /\ Rest \in Seq(Low) /\ Top.id \in IntentIds
    BY <2>1, TopCall DEF Running, EInv, Ready, ReadyCall, Top, Rest, Typed, IntentOps
  <2>3. Tail(Rest) \in Seq(Low) /\ Rest = Above(Head(Rest), Tail(Rest))
    BY <2>2, TopAndRest
  <2>4. Reconciling(Rest) => Reconciling(Tail(Rest))
    <3>1. ASSUME NEW f, NEW below \in Seq(Low), Rest = Above(f, below), f.op = "sending",
                 Reconciling(Rest)
          PROVE  Reconciling(below)
      BY <3>1, ReconcilingAbove
    <3>2. QED
      BY <2>2, <2>3, <3>1
  <2>5. Reconciling(agenda) => Reconciling(Tail(Rest))
    BY <1>0, <2>1, <2>4, Topmost, ReconcilingAbove DEF Running
  <2>6. CallOn("reject", Top.id) \in Frames /\ CallOn("reject", Top.id).op = "reject"
    BY <2>2, IntentFrames DEF IntentOps
  <2>7. ASSUME NEW f \in Frames, f.op = "reject", NEW below \in Seq(Low),
               Reconciling(agenda) => Reconciling(below)
        PROVE  Keeps(<<f>> \o below)
    BY <2>7, SafeAbove, ReconcilingAbove DEF Keeps, Above
  <2>8. Keeps(agenda')
    BY <2>1, <2>3, <2>5, <2>6, <2>7
  <2>9. QED
    BY <1>1, <2>1, <2>8, QuietCall
<1>4. CASE CancelSent
  <2>1. Running("cancel") /\ started' = started
    BY <1>4 DEF CancelSent, Local
  <2>2. PICK e \in Top.todo :
          \/ /\ Transition(e.id, "CANCEL_PENDING")
             /\ agenda' = <<CallOn("ask_cancel", e.id), CallOn("cancelling", e.id),
                           Without(e)>> \o Rest
          \/ /\ UNCHANGED storeVars
             /\ agenda' = Raise(<<CallOn("cancelling", e.id), Without(e)>> \o Rest)
    BY <1>4 DEF CancelSent
  <2>3. e.id \in Symbols /\ e.id \in IntentIds /\ Rest \in Seq(Low)
    BY <2>1, <2>2, TopCall DEF Typed, PendingEntries, IntentIds
  <2> DEFINE ask == CallOn("ask_cancel", e.id)
             g == CallOn("cancelling", e.id)
             h == Without(e)
  <2>4. ask \in Frames /\ ask.op = "ask_cancel" /\ g \in Low
    BY <2>3, AskFrames, IntentFrames DEF IntentOps, TopOnly
  <2>5. h \in Low
    BY <2>1, LoopLeft DEF Loops, Low, TopOnly
  <2>6. Harmless
    <3>1. "CANCEL_PENDING" \in OrderState
      BY DEF OrderState, ACTIVE_STATES
    <3>2. QED
      BY <1>0, <2>2, <2>3, <3>1, HarmlessCalls
  <2>7. \/ agenda' = <<ask, g, h>> \o Rest
        \/ agenda' = Raise(<<g, h>> \o Rest)
    BY <2>2
  <2> HIDE DEF ask, g, h
  <2>8. ASSUME NEW below \in Seq(Low)
        PROVE  /\ <<g, h>> \o below \in Seq(Low)
               /\ <<ask, g, h>> \o below = Above(ask, <<g, h>> \o below)
               /\ Reconciling(below) => Reconciling(<<g, h>> \o below)
    <3>1. <<g, h>> \in Seq(Low)
      BY <2>4, <2>5
    <3>2. <<g, h>> \o below \in Seq(Low)
      BY <3>1, ConcatProperties
    <3>3. <<g, h>> \o below = Above(g, Above(h, below))
      BY TwoAbove
    <3>4. <<ask, g, h>> \o below = Above(ask, Above(g, Above(h, below)))
      BY ThreeAbove
    <3>5. QED
      BY <3>1, <3>2, <3>3, <3>4, ReconcilingBelow
  <2>9. Reconciling(agenda) => Reconciling(Rest)
    BY <1>0, <2>1, Topmost, ReconcilingAbove DEF Running
  <2>10. ASSUME NEW below \in Seq(Low), Reconciling(agenda) => Reconciling(below)
         PROVE  Keeps(<<ask, g, h>> \o below) /\ Keeps(Raise(<<g, h>> \o below))
    <3>1. Keeps(Above(ask, <<g, h>> \o below))
      BY <2>4, <2>8, <2>10, SafeAbove, ReconcilingAbove DEF Keeps
    <3>2. Keeps(Raise(<<g, h>> \o below))
      BY <2>8, <2>10, SafeRaise, RaiseWorks DEF Keeps
    <3>3. QED
      BY <2>8, <3>1, <3>2
  <2>11. Keeps(agenda')
    BY <2>3, <2>7, <2>9, <2>10
  <2>12. QED
    BY <2>1, <2>6, <2>11, QuietCall
<1>5. CASE CloseCreate \/ CloseRecheck
  <2>1. /\ Running("close") \/ Running("close_recheck")
        /\ \/ CreateCloseOf(Top.id)
           \/ agenda' = Then(<<>>) /\ Internal
    BY <1>5 DEF CloseCreate, CloseRecheck
  <2>2. Top.id \in PositionIds /\ Rest \in Seq(Low)
    BY <2>1, TopCall DEF Typed
  <2>3. Top.id \in IntentIds
    BY <2>2 DEF IntentIds
  <2>4. CASE CreateCloseOf(Top.id)
    <3>1. CreateClose(Top.id, positions[Top.id].units) /\ started' = started
          /\ agenda' = Then(<<CallOn("submit", Top.id)>>)
      BY <2>4 DEF CreateCloseOf, Local
    <3>2. positions[Top.id].units \in Units
      BY <1>0, <2>2 DEF IInv, TypeOK, Position
    <3>3. Harmless
      BY <1>0, <2>2, <3>1, <3>2, HarmlessCalls
    <3>4. CallOn("submit", Top.id) \in Frames /\ CallOn("submit", Top.id).op = "submit"
      BY <2>3, IntentFrames DEF IntentOps
    <3>5. Keeps(agenda')
      BY <1>0, <2>1, <3>1, <3>4, KeepsRest
    <3>6. QED
      BY <2>1, <3>1, <3>3, <3>5, QuietCall
  <2>5. CASE agenda' = Then(<<>>) /\ Internal
    BY <1>0, <1>1, <2>1, <2>5, KeepsRest, QuietCall DEF Internal, Local
  <2>6. QED
    BY <2>1, <2>4, <2>5
<1>6. QED
  BY <1>2, <1>3, <1>4, <1>5

-----------------------------------------------------------------------------
(* What booking a report may leave unresolved: an incomplete observation    *)
(* blocks entries in the same transaction, so that only an answer of       *)
(* unknown fate is left (store.py apply_broker_order, _observe_remaining). *)
LEMMA BookedReport ==
  ASSUME IInv, Unobserved, NEW u \in Reports, NEW now, ApplyBrokerOrder(u, now),
         Etoro /\ u.intent_id \in PositionIds => u.filled_units = 0
  PROVE  /\ Unobserved'
         /\ entries_paused => entries_paused'
         /\ ~reconciliation_ok => ~reconciliation_ok'
         /\ Unresolved' => Unresolved \/ Blocked' \/ u.state = "UNKNOWN"
<1> USE NilDistinct
<1>0. /\ intents \in [IntentIds -> OrderIntent] /\ positions \in [PositionIds -> Position]
      /\ PositionIds \subseteq IntentIds /\ Symbols \cap PositionIds = {}
  BY StoreAssumption DEF IInv, TypeOK, IntentIds
<1>1. PICK i : i = u.intent_id
  OBVIOUS
<1>2. i \in IntentIds /\ u \in ReportsOf[i]
  BY <1>1 DEF Reports, BrokerOrder, ReportsOf
<1>3. /\ Commits(u, now) /\ positions' = Observed(u) /\ intents' = [intents EXCEPT ![i] = Updated(u)]
      /\ entries_paused' = (entries_paused \/ LateFill(u) \/ Incomplete(u))
      /\ reconciliation_ok' = (reconciliation_ok /\ ~Incomplete(u))
  BY <1>1 DEF ApplyBrokerOrder
<1>4. /\ intents'[i].state = u.state /\ intents'[i].filled_units = u.filled_units
      /\ \A j \in IntentIds : j # i => intents'[j] = intents[j]
  BY <1>0, <1>2, <1>3 DEF Updated
<1>5. Booked(u) \in [PositionIds -> Position]
  BY <1>2, <1>3, BookedPositions
<1>6. ~Etoro => u.remaining_units = Nil
  BY StoreAssumption DEF Etoro, Reports, Report, BrokerOrder, Times
<1>7. Etoro /\ i \in PositionIds => Delta(u) = 0
  BY <1>1 DEF Unobserved, Delta
<1>8. ASSUME NEW p \in PositionIds
      PROVE  /\ positions[p].accounting_complete => Booked(u)[p].accounting_complete
             /\ ~Etoro => Booked(u)[p].observed_units = Nil
  <2>1. positions[p] \in Position
    BY <1>0
  <2>2. CASE Delta(u) > 0 /\ p = u.position_id /\ Kind(i) = "entry"
    <3>1. Booked(u)[p] = EntryFill(u)
      BY <1>0, <1>1, <2>2 DEF Booked
    <3>2. QED
      BY <3>1 DEF EntryFill
  <2>3. CASE Delta(u) > 0 /\ p = u.position_id /\ Kind(i) # "entry"
    <3>1. Booked(u)[p] = CloseFill(u)
      BY <1>0, <1>1, <2>3 DEF Booked
    <3>2. /\ CloseFill(u).accounting_complete
              = (positions[p].observed_units \in {Nil, CloseFill(u).units})
          /\ CloseFill(u).observed_units = positions[p].observed_units
      BY <2>1, <2>3 DEF CloseFill, Position
    <3>3. ~Etoro
      BY <1>2, <1>7, <2>3 DEF Kind, IntentIds
    <3>4. QED
      BY <3>1, <3>2, <3>3 DEF Unobserved
  <2>4. CASE ~(Delta(u) > 0 /\ p = u.position_id)
    <3>1. /\ Booked(u)[p].accounting_complete = positions[p].accounting_complete
          /\ Booked(u)[p].observed_units = positions[p].observed_units
      BY <1>0, <2>1, <2>4 DEF Booked, Position
    <3>2. QED
      BY <3>1 DEF Unobserved
  <2>5. QED
    BY <2>2, <2>3, <2>4
<1>9. ASSUME NEW p \in PositionIds
      PROVE  /\ positions[p].accounting_complete /\ ~Incomplete(u)
                  => positions'[p].accounting_complete
             /\ ~Etoro => positions'[p].observed_units = Nil
  <2>1. CASE ~Observes(u)
    BY <1>3, <1>8, <2>1 DEF Observed
  <2>2. CASE Observes(u)
    <3>0. PICK q : q = u.position_id
      OBVIOUS
    <3>1. q \in PositionIds
      BY <1>2, <1>3, <2>2, <3>0, ReportFields DEF Commits, ObservationAccepted
    <3>2. positions' = [Booked(u) EXCEPT ![q].observed_units = u.remaining_units,
                                         ![q].observed_at = u.observed_at,
                                         ![q].accounting_complete = ~Incomplete(u)]
      BY <1>3, <2>2, <3>0 DEF Observed
    <3>3. positions'[q].accounting_complete = ~Incomplete(u)
      BY <1>5, <3>1, <3>2 DEF Position
    <3>4. p # q => positions'[p] = Booked(u)[p]
      BY <1>5, <3>1, <3>2
    <3>5. Etoro
      BY <1>6, <2>2 DEF Observes
    <3>6. QED
      BY <1>8, <3>3, <3>4, <3>5
  <2>3. QED
    BY <2>1, <2>2
<1>10. Unobserved'
  BY <1>0, <1>1, <1>4, <1>9 DEF Unobserved
<1>11. Unresolved' => Unresolved \/ Blocked' \/ u.state = "UNKNOWN"
  <2>1. ASSUME NEW j \in IntentIds, intents'[j].state = "UNKNOWN"
        PROVE  Unresolved \/ u.state = "UNKNOWN"
    BY <1>4, <2>1 DEF Unresolved
  <2>2. ASSUME NEW p \in PositionIds, ~positions'[p].accounting_complete
        PROVE  Unresolved \/ Blocked'
    BY <1>3, <1>9, <2>2 DEF Unresolved, Blocked
  <2>3. QED
    BY <2>1, <2>2 DEF Unresolved
<1>12. QED
  BY <1>3, <1>10, <1>11

(* What is about to be booked is a report.                                 *)
LEMMA ApplyTop ==
  ASSUME NEW s \in Stacks, NEW u, NEW below \in Seq(Low), s = Above(Apply(u), below)
  PROVE  u \in Reports
<1>1. s # <<>> /\ Head(s) = Apply(u)
  BY AboveProperties
<1>2. Apply(u).op = "apply" /\ Apply(u).report = u
  BY DEF Apply, Frame
<1>3. s \in Working
  BY <1>1, <1>2, StartingStacks DEF Stacks
<1>4. Apply(u) \in Frames
  BY <1>1, <1>3, WorkingTop
<1>5. Typed(Apply(u))
  BY <1>4, FrameFields
<1>6. QED
  BY <1>2, <1>5 DEF Typed

(* An answer is booked next, or lost (engine.py _apply).                   *)
LEMMA AnswerMove ==
  ASSUME EInv, EInv', GateInv, Harmless, started' = started,
         Running("send") \/ Running("ask_cancel"), NEW u,
         agenda' = Raise(Rest) \/ agenda' = <<Apply(u)>> \o Rest,
         u.state # "UNKNOWN", Etoro /\ u.intent_id \in PositionIds => u.filled_units = 0
  PROVE  GateInv'
<1>1. agenda \in Stacks /\ agenda' \in Stacks
  BY DEF EInv
<1>2. Rest \in Seq(Low)
  BY TopCall
<1>3. Reconciling(agenda) => Reconciling(Rest)
  BY <1>1, Topmost, ReconcilingAbove DEF Running
<1>4. ASSUME NEW below \in Seq(Low), agenda' = <<Apply(u)>> \o below,
             Reconciling(agenda) => Reconciling(below)
      PROVE  Keeps(agenda')
  <2>1. agenda' = Above(Apply(u), below)
    BY <1>4 DEF Above
  <2>2. u \in Reports
    BY <1>1, <2>1, ApplyTop
  <2>3. Safe(agenda')
    BY <2>1, <2>2, SafeApply
  <2>4. QED
    BY <1>4, <2>1, <2>3, ReconcilingAbove DEF Keeps
<1>5. agenda' = Raise(Rest) => Keeps(agenda')
  BY <1>1, KeepsRest
<1>6. Keeps(agenda')
  BY <1>2, <1>3, <1>4, <1>5
<1>7. QED
  BY <1>6, QuietCall

(* Answers of the broker, booked where they were asked for: those of       *)
(* unknown fate only inside reconcile() (engine.py _send, _apply,          *)
(* reconcile, cancel_pending_entries).                                     *)
LEMMA GateAnswers ==
  ASSUME EInv, EInv', GateInv, SendAccepted \/ AskCancel \/ QueryAnswered \/ ApplyReport
  PROVE  GateInv'
<1>0. agenda \in Stacks /\ IInv /\ agenda' \in Stacks /\ BrokerOK
  BY DEF EInv
<1>1. UNCHANGED storeVars => Harmless
  BY <1>0, HarmlessCalls
<1>2. CASE SendAccepted
  <2>1. Running("send") /\ started' = started /\ UNCHANGED storeVars
    BY <1>2 DEF SendAccepted
  <2>2. PICK n \in IF Etoro THEN {0} ELSE 0..intents[Top.id].units, protected \in Protection :
          LET o == [state |-> FillState(intents[Top.id].units, n), filled_units |-> n,
                    protected |-> protected]
          IN agenda' = Raise(Rest) \/ agenda' = <<Apply(ReportAt(Top.id, o, held', clock'))>> \o Rest
    BY <1>2 DEF SendAccepted
  <2> DEFINE o == [state |-> FillState(intents[Top.id].units, n), filled_units |-> n,
                   protected |-> protected]
             u == ReportAt(Top.id, o, held', clock')
  <2>3. u.state # "UNKNOWN" /\ u.filled_units = n
    BY DEF ReportAt, FillState
  <2>4. Etoro => n = 0
    BY <2>2
  <2>5. agenda' = Raise(Rest) \/ agenda' = <<Apply(u)>> \o Rest
    BY <2>2
  <2> HIDE DEF u
  <2>6. QED
    BY <1>1, <2>1, <2>3, <2>4, <2>5, AnswerMove
<1>3. CASE AskCancel
  <2>1. Running("ask_cancel") /\ Accepted(Top.id) /\ started' = started /\ UNCHANGED storeVars
    BY <1>3 DEF AskCancel
  <2>2. PICK outcome \in CancelOutcomes(orders[Top.id]) :
          \/ agenda' = Raise(Rest)
          \/ agenda' = <<Apply([ReportOn(Top.id, outcome.order) EXCEPT !.state = outcome.reported])>>
                         \o Rest
    BY <1>3 DEF AskCancel
  <2>3. Top.id \in Symbols
    BY <2>1, TopCall DEF Typed
  <2>4. orders[Top.id] \in Order /\ orders[Top.id].state # Nil
    BY <1>0, <2>1, <2>3 DEF BrokerOK, BrokerTyped, Accepted, IntentIds
  <2>5. outcome.reported # "UNKNOWN"
    BY <2>4, CancelOutcome
  <2> DEFINE u == [ReportOn(Top.id, outcome.order) EXCEPT !.state = outcome.reported]
  <2>6. u.state = outcome.reported /\ u.intent_id = Top.id
    BY DEF ReportOn, ReportAt
  <2>7. u.intent_id \notin PositionIds
    BY <2>3, <2>6, NilDistinct
  <2>8. agenda' = Raise(Rest) \/ agenda' = <<Apply(u)>> \o Rest
    BY <2>2
  <2> HIDE DEF u
  <2>9. QED
    BY <1>1, <2>1, <2>5, <2>6, <2>7, <2>8, AnswerMove
<1>4. CASE QueryAnswered
  <2>1. Running("reconcile") /\ started' = started /\ UNCHANGED storeVars
    BY <1>4 DEF QueryAnswered, Internal, Local
  <2>2. PICK e \in Top.todo :
          /\ Accepted(e.id)
          /\ \E u \in Answers(e.id) :
               agenda' = <<Apply(u), [Without(e) EXCEPT !.clean = @ /\ u.state # "UNKNOWN"]>> \o Rest
    BY <1>4 DEF QueryAnswered
  <2>3. PICK u \in Answers(e.id) :
          agenda' = <<Apply(u), [Without(e) EXCEPT !.clean = @ /\ u.state # "UNKNOWN"]>> \o Rest
    BY <2>2
  <2>4. e.id \in IntentIds /\ Rest \in Seq(Low)
    BY <2>1, <2>2, TopCall DEF Typed, Entries
  <2>5. /\ u \in Reports /\ u.intent_id = e.id
        /\ Etoro /\ Kind(e.id) = "close" => u.filled_units = intents[e.id].filled_units
    BY <1>0, <2>2, <2>4, AnswersAreReports
  <2>6. Etoro /\ u.intent_id \in PositionIds => u.filled_units = 0
    BY <2>5, NilDistinct DEF Kind, GateInv, Unobserved
  <2> DEFINE loop == [Without(e) EXCEPT !.clean = @ /\ u.state # "UNKNOWN"]
  <2>7. loop \in Low /\ loop.op = "reconcile"
    <3>1. (Without(e).clean /\ u.state # "UNKNOWN") \in BOOLEAN
      OBVIOUS
    <3>2. loop \in Frames /\ loop.op = "reconcile"
      BY <2>1, <3>1, LoopLeft DEF Loops
    <3>3. QED
      BY <3>2 DEF Low, TopOnly
  <2> HIDE DEF loop
  <2>8. ASSUME NEW below \in Seq(Low), agenda' = <<Apply(u), loop>> \o below
        PROVE  Safe(agenda') /\ Reconciling(agenda')
    <3>1. Above(loop, below) \in Seq(Low) /\ Reconciling(Above(loop, below))
      BY <2>7, AboveProperties, ReconcilingAbove
    <3>2. <<Apply(u), loop>> \o below = Above(Apply(u), Above(loop, below))
      BY TwoAbove
    <3>3. Safe(Above(Apply(u), Above(loop, below)))
      BY <2>5, <2>6, <3>1, SafeApply
    <3>4. Reconciling(Above(Apply(u), Above(loop, below)))
      BY <3>1, ReconcilingAbove
    <3>5. QED
      BY <2>8, <3>2, <3>3, <3>4
  <2>9. Safe(agenda') /\ Reconciling(agenda')
    BY <2>3, <2>4, <2>8 DEF loop
  <2>10. Unobserved'
    BY <1>1, <2>1 DEF Harmless, GateInv
  <2>11. QED
    BY <2>1, <2>9, <2>10, ReconcilingMove DEF Running
<1>5. CASE ApplyReport
  <2>1. /\ Running("apply") /\ started' = started /\ ApplyBrokerOrder(Top.report, clock)
        /\ agenda' = Then(IncidentCalls(Top.report))
    BY <1>5 DEF ApplyReport, Local
  <2>2. Top.report \in Reports /\ Rest \in Seq(Low) /\ Top.op = "apply"
    BY <2>1, TopCall DEF Typed
  <2>3. agenda' \in Seq(Low) /\ (Reconciling(Rest) => Reconciling(agenda'))
    BY <2>1, <2>2, IncidentStack
  <2>4. Keeps(agenda')
    BY <1>0, <2>1, <2>3, KeepsRest
  <2>5. /\ Top.report.state = "UNKNOWN" => Reconciling(Rest)
        /\ Etoro /\ Top.report.intent_id \in PositionIds => Top.report.filled_units = 0
    BY <2>1, <2>2 DEF GateInv, Answered, Top, Rest, Running
  <2>6. /\ Unobserved'
        /\ entries_paused => entries_paused'
        /\ ~reconciliation_ok => ~reconciliation_ok'
        /\ Unresolved' => Unresolved \/ Blocked' \/ Top.report.state = "UNKNOWN"
    BY <1>0, <2>1, <2>2, <2>5, BookedReport DEF GateInv
  <2>7. QED
    BY <2>1, <2>2, <2>3, <2>4, <2>5, <2>6, GateMove DEF Running
<1>6. QED
  BY <1>2, <1>3, <1>4, <1>5

-----------------------------------------------------------------------------
(* The owner's calls find no loop under way, so that whatever is unresolved *)
(* already blocks entries; arm_offline asks for a clean reconciliation.    *)
LEMMA GateOperations ==
  ASSUME EInv, GateInv, Operations
  PROVE  GateInv'
<1>0. agenda \in Stacks /\ IInv
  BY DEF EInv
<1>1. ~Reconciling(<<>>) /\ <<>> \notin Starting
  BY StartingStacks DEF Reconciling
<1>2. UNCHANGED storeVars => Harmless
  BY <1>0, HarmlessCalls
<1>3. ASSUME Idle, Harmless, Safe(agenda'), started' = started PROVE GateInv'
  <2>1. Keeps(agenda')
    BY <1>1, <1>3 DEF Keeps, Idle
  <2>2. QED
    BY <1>3, <2>1, QuietMove DEF Idle
<1>4. ASSUME NEW calls \in Seq(Low), Operation(calls) PROVE GateInv'
  BY <1>2, <1>3, <1>4, SafeLow DEF Operation, Internal, Local
<1>5. /\ Call("pause") \in Low /\ Call("cancel_all") \in Low /\ Call("flatten_all") \in Low
      /\ Call("reconcile_all") \in Low /\ Call("confirm_flat") \in Low /\ Call("release") \in Low
  BY CallFrames DEF PlainOps
<1>6. \A p \in PositionIds : CallOn("close", p) \in Low
  BY PositionFrames
<1>7. CASE Enter
  <2> DEFINE todo == {e \in Snapshot : e.state \in {"SUBMITTING", "CREATED", "APPROVED"}}
  <2>1. todo \in SUBSET Entries
    BY <1>0, SnapshotRows
  <2>2. agenda' = Entering(todo) /\ started' /\ UNCHANGED storeVars
    BY <1>7 DEF Enter, Entering, Recovery, LoopFrame, Loop
  <2> HIDE DEF todo
  <2>3. agenda' \in Starting /\ Head(agenda') = Call("pause")
    BY <2>1, <2>2 DEF Starting, Entering
  <2>4. Call("pause").op = "pause"
    BY CallFrames DEF PlainOps
  <2>5. agenda' # <<>> /\ Tail(agenda') # <<>> /\ Head(Tail(agenda')).op = "unreconciled"
    BY <2>3, <2>4, StartingStacks
  <2>6. Settling(agenda)' /\ Handled(agenda)' /\ Answered(agenda)' /\ Blocking(agenda)'
    BY <2>3, <2>4, <2>5 DEF Settling, Handled, Answered, Blocking
  <2>7. Unobserved'
    BY <1>2, <2>2 DEF Harmless, GateInv
  <2>8. QED
    BY <2>2, <2>6, <2>7 DEF GateInv
<1>8. ASSUME NEW s \in Symbols, NEW n \in Units, NEW stop \in StopPrices, SubmitEntry(s, n, stop)
      PROVE  GateInv'
  <2>1. Idle /\ CreateEntry(s, n, stop) /\ agenda' = <<CallOn("prepare", s)>> /\ started' = started
    BY <1>8 DEF SubmitEntry, Local
  <2>2. Harmless
    BY <1>0, <2>1, HarmlessCalls
  <2>3. CallOn("prepare", s) \in Frames /\ CallOn("prepare", s).op = "prepare"
    BY IntentFrames DEF IntentOps, IntentIds
  <2>4. ASSUME NEW f \in Frames, f.op = "prepare" PROVE Safe(<<f>>)
    <3>1. <<>> \in Seq(Low) /\ <<f>> = <<f>> \o <<>>
      OBVIOUS
    <3>2. QED
      BY <2>4, <3>1, SafeAbove DEF Above
  <2>5. QED
    BY <1>3, <2>1, <2>2, <2>3, <2>4
<1>9. CASE ArmOffline
  <2>1. /\ Idle /\ reconciliation_ok /\ agenda' = <<>> /\ started' = started
        /\ UNCHANGED <<intents, positions>>
    BY <1>9 DEF ArmOffline, Pause, Local, orderVars, bookVars
  <2>2. ~Unresolved
    BY <1>1, <2>1 DEF GateInv, Idle, Settling, Blocked
  <2>3. ~Unresolved' /\ Unobserved'
    BY <2>1, <2>2 DEF Unresolved, Unobserved, GateInv
  <2>4. QED
    BY <1>1, <2>1, <2>3 DEF GateInv, Handled, Answered, Blocking, Idle
<1>10. ASSUME NEW p \in OpenPositions, NEW stop \in StopPrices, TightenStop(p, stop)
       PROVE  GateInv'
  <2>1. /\ Idle /\ UNCHANGED storeVars /\ started' = started
        /\ agenda' \in {<<StopFrame(p, stop)>>,
                        <<Call("pause"), Call("cancel_all"), CallOn("close", p)>>}
    BY <1>10 DEF TightenStop, StopFrame
  <2>2. p \in PositionIds
    BY DEF OpenPositions
  <2>3. <<StopFrame(p, stop)>> \in Seq(Low)
    BY <2>2, StopFrames
  <2>4. <<Call("pause"), Call("cancel_all"), CallOn("close", p)>> \in Seq(Low)
    BY <1>5, <1>6, <2>2
  <2>5. QED
    BY <1>2, <1>3, <2>1, <2>3, <2>4, SafeLow
<1>11. CASE FlattenOwned \/ Exit
  <2>1. /\ <<Call("pause"), Call("cancel_all"), Call("flatten_all"), Call("reconcile_all"),
             Call("confirm_flat")>> \in Seq(Low)
        /\ <<Call("pause"), Call("release")>> \in Seq(Low)
    BY <1>5
  <2>2. QED
    BY <1>4, <1>11, <2>1 DEF FlattenOwned, Exit
<1>12. ASSUME NEW f \in Low, Operation(<<f>>) PROVE GateInv'
  <2>1. <<f>> \in Seq(Low)
    OBVIOUS
  <2>2. QED
    BY <1>4, <1>12, <2>1
<1>13. CASE \/ Operation(<<Call("pause")>>) \/ Operation(<<Call("reconcile_all")>>)
            \/ Operation(<<Call("cancel_all")>>)
            \/ \E p \in PositionIds : Operation(<<CallOn("close", p)>>)
  BY <1>5, <1>6, <1>12, <1>13 DEF OpenPositions
<1>14. QED
  BY <1>7, <1>8, <1>9, <1>10, <1>11, <1>13 DEF Operations

(* Nothing is unresolved at the start, and the broker's own moves, a crash *)
(* and a release resolve or unresolve nothing.                             *)
LEMMA GateInit == Init => GateInv
<1>1. SUFFICES ASSUME Init PROVE GateInv
  OBVIOUS
<1>2. StoreInit /\ ~started /\ agenda = <<>>
  BY <1>1 DEF Init
<1>3. Unobserved
  BY <1>2 DEF StoreInit, Unobserved, IntentIds, NoIntent, NoPosition
<1>4. <<>> \notin Starting
  BY StartingStacks
<1>5. QED
  BY <1>2, <1>3, <1>4 DEF GateInv, Handled, Answered, Blocking

(* A step of the broker alone.                                             *)
LEMMA GateStill ==
  ASSUME GateInv, UNCHANGED <<storeVars, agenda, started>>
  PROVE  GateInv'
BY DEF GateInv, Unresolved, Blocked, Settling, Handled, Blocking, Answered, Unobserved, storeVars,
   orderVars, bookVars, gateVars

(* Every step keeps unresolved orders and positions behind a closed gate.  *)
LEMMA GateNext ==
  ASSUME EInv, GateInv, [Next]_vars
  PROVE  GateInv'
<1>0. EInv' /\ agenda \in Stacks /\ IInv
  BY EInvNext DEF EInv
<1>1. CASE Operations
  BY <1>1, GateOperations
<1>2. CASE BrokerMoves \/ UNCHANGED vars
  BY <1>2, GateStill DEF BrokerMoves, BrokerFills, BrokerEnds, StopOut, MoveOf, vars
<1>3. CASE Crash \/ Release
  BY <1>3, EndedMove DEF Crash, Release
<1>4. CASE PauseCall \/ UnreconciledCall
  <2>1. CASE PauseCall
    <3>1. Running("pause") /\ Pause(TRUE) /\ agenda' = Then(<<>>) /\ started' = started
      BY <2>1 DEF PauseCall, Local
    <3>2. started /\ Top.op = "pause"
      BY <3>1 DEF Running
    <3>3. Harmless /\ entries_paused'
      BY <1>0, <3>1, HarmlessCalls
    <3>4. /\ Top.op = "pause" => entries_paused'
          /\ Top.op = "unreconciled" => ~reconciliation_ok'
      BY <3>2, <3>3
    <3>5. QED
      BY <1>0, <3>1, <3>2, <3>3, <3>4, BlockingMove
  <2>2. CASE UnreconciledCall
    <3>1. Running("unreconciled") /\ SetReconciliation(FALSE) /\ agenda' = Then(<<>>) /\ started' = started
      BY <2>2 DEF UnreconciledCall, Local
    <3>2. started /\ Top.op = "unreconciled"
      BY <3>1 DEF Running
    <3>3. Harmless /\ ~reconciliation_ok'
      BY <1>0, <3>1, HarmlessCalls
    <3>4. /\ Top.op = "pause" => entries_paused'
          /\ Top.op = "unreconciled" => ~reconciliation_ok'
      BY <3>2, <3>3
    <3>5. QED
      BY <1>0, <3>1, <3>2, <3>3, <3>4, BlockingMove
  <2>3. QED
    BY <1>4, <2>1, <2>2
<1>5. CASE \/ ToUnknown \/ Recover \/ ReconcileEnds
  BY <1>5, UnknownMove, RecoverGate, ReconcileGate
<1>6. CASE \/ SetProtectionCall \/ EndIncident \/ LoopEnds("recover") \/ LoopEnds("cancel")
           \/ LoopEnds("flatten") \/ CloseNothing \/ CloseStillPending \/ ConfirmFlat
           \/ CloseBlocked \/ CloseAfterCancel \/ Prepare \/ Reject \/ ApplyRefused
           \/ AskCancelFailed \/ CloseRefused \/ SendFailed
  BY <1>6, GateReturns
<1>7. CASE \/ ReconcileAll \/ QueryUnseen \/ QueryFailed \/ CancelAll \/ CancelUnsent
           \/ FlattenAll \/ FlattenNext
  BY <1>7, GateLoops
<1>8. CASE Submit \/ SendRefused \/ CancelSent \/ CloseCreate \/ CloseRecheck
  BY <1>8, GateCalls
<1>9. CASE SendAccepted \/ AskCancel \/ QueryAnswered \/ ApplyReport
  BY <1>0, <1>9, GateAnswers
<1>10. QED
  BY <1>1, <1>2, <1>3, <1>4, <1>5, <1>6, <1>7, <1>8, <1>9 DEF Next, ExecutorSteps

(* Whatever leaves an order of unknown fate or a position of unknown units *)
(* behind (a lost answer, a crash, a failed cancellation, an observation   *)
(* that contradicts the books), no operation ends with entries allowed     *)
(* (engine.py __enter__, _send, _apply, reconcile, cancel_pending_entries, *)
(* arm_offline; store.py _observe_remaining).                              *)
THEOREM UnresolvedBlocks == Spec => []UnresolvedBlocksEntries
<1>1. EInv /\ GateInv /\ [Next]_vars => GateInv'
  BY GateNext
<1>2. GateInv => UnresolvedBlocksEntries
  <2>1. ~Reconciling(<<>>)
    BY DEF Reconciling
  <2>2. QED
    BY <2>1 DEF GateInv, UnresolvedBlocksEntries, Unresolved, Blocked, Settling, Idle
<1>3. QED
  BY <1>1, <1>2, GateInit, ExecutorInvariant, PTL DEF Spec


-----------------------------------------------------------------------------
(* Loops that were told that an entry was never sent: it was not since.    *)
Fresh(sent) ==
  {f \in Frames :
     /\ f.op = "recover" => \A e \in f.todo : e.state = "SUBMITTING" \/ sent[e.id] = 0
     /\ f.op = "cancel" => \A e \in f.todo : e.state \in Unsent => sent[e.id] = 0}

FreshLow(sent) == Low \cap Fresh(sent)

(* An entry is prepared, submitted and sent with no other call under way.  *)
Alone(s) ==
  s # <<>> /\ Head(s).id \in Symbols =>
    /\ Head(s).op \in {"prepare", "submit"} => Tail(s) = <<>>
    /\ Head(s).op = "send" => Tail(Tail(s)) = <<>>

(* Only what was never sent is rejected.                                   *)
Unsubmitted(s) == s # <<>> /\ Head(s).op = "reject" => dispatched[Head(s).id] = 0

(* A report about to be booked may be older than the broker's order, but   *)
(* does not contradict it.                                                 *)
Dated(u, s) ==
  /\ u.filled_units <= orders[s].filled_units
  /\ u.state = "REJECTED" => u.filled_units = 0
  /\ u.state \in {"CANCELLED", "EXPIRED"} /\ u.filled_units = orders[s].filled_units
       => orders[s].state # "PARTIALLY_FILLED"
  /\ u.state = "PARTIALLY_FILLED" /\ intents[s].state \in {"CANCELLED", "EXPIRED"}
       => u.filled_units # intents[s].filled_units
  /\ u.state \in TERMINAL_STATES => ~Live(s) \/ s \in moved

Reported(s) ==
  s # <<>> /\ Head(s).op = "apply" /\ Head(s).id \in Symbols => Dated(Head(s).report, Head(s).id)

(* The books lag behind the broker, and a cancelled or expired row without *)
(* the fills that would revive it is not taken for partially filled.       *)
Lagging ==
  \A s \in Symbols :
    /\ orders[s].state = "REJECTED" => orders[s].filled_units = 0
    /\ intents[s].filled_units <= orders[s].filled_units
    /\ intents[s].state \in {"CANCELLED", "EXPIRED"}
         /\ intents[s].filled_units = orders[s].filled_units
         => orders[s].state # "PARTIALLY_FILLED"

Exposed ==
  {s \in Symbols : Active(s) \/ \E p \in OpenPositions : positions[p].owner_intent_id = s}

Limited == Cardinality(Exposed \ late_fills) <= MaxPositions

ExposureInv ==
  /\ agenda \in Seq(Fresh(dispatched)) /\ Alone(agenda) /\ Unsubmitted(agenda) /\ Reported(agenda)
  /\ Lagging /\ Limited

(* Nothing the broker may still fill is given up in a step.                *)
Retained == \A s \in Symbols : Active(s) /\ ~Active(s)' => ~Live(s) \/ s \in moved

-----------------------------------------------------------------------------
(* Stacks whose topmost call relies on nothing more.                       *)
Delicate == {"prepare", "submit", "send", "reject", "apply"}

Tidy(s, sent) == s \in Seq(Fresh(sent)) /\ (s # <<>> => Head(s).op \notin Delicate)

(* A waiting call is no loop of __enter__, and is of that kind.            *)
LEMMA TidyLow ==
  ASSUME NEW sent, NEW s \in Seq(FreshLow(sent))
  PROVE  Tidy(s, sent)
<1>1. s \in Seq(Fresh(sent))
  <2>1. FreshLow(sent) \subseteq Fresh(sent)
    BY DEF FreshLow
  <2>2. QED
    BY <2>1
<1>2. s # <<>> => Head(s) \in FreshLow(sent)
  BY TopAndRest
<1>3. QED
  BY <1>1, <1>2 DEF Tidy, FreshLow, Low, TopOnly, Delicate

(* So is any call above such calls that is not delicate itself.            *)
LEMMA TidyAbove ==
  ASSUME NEW sent, NEW f \in Fresh(sent), NEW below \in Seq(FreshLow(sent))
  PROVE  /\ Above(f, below) \in Seq(Fresh(sent))
         /\ f.op \notin Delicate => Tidy(Above(f, below), sent)
<1>1. below \in Seq(Fresh(sent))
  BY TidyLow DEF Tidy
<1>2. Above(f, below) \in Seq(Fresh(sent)) /\ Head(Above(f, below)) = f
  BY <1>1, AboveProperties
<1>3. QED
  BY <1>2 DEF Tidy

(* Calls that are no loop over entries are fresh.                          *)
LEMMA FreshFrames ==
  ASSUME NEW sent, NEW f \in Frames, f.op \notin {"recover", "cancel"}
  PROVE  /\ f \in Fresh(sent)
         /\ f \in Low => f \in FreshLow(sent)
BY DEF Fresh, FreshLow

(* A loop that has taken an entry is as fresh as before.                   *)
LEMMA FreshLoop ==
  ASSUME NEW sent, NEW f \in Fresh(sent), NEW g \in Frames, g.op = f.op, g.todo \subseteq f.todo
  PROVE  g \in Fresh(sent)
BY DEF Fresh

(* An exception leaves such a stack.                                       *)
LEMMA TidyRaise ==
  ASSUME NEW sent, NEW s \in Seq(FreshLow(sent))
  PROVE  Tidy(Raise(s), sent)
<1> DEFINE L == FreshLow(sent)
<1>0. L \in SUBSET Low
  BY DEF FreshLow
<1>1. Call("pause") \in L /\ Call("unreconciled") \in L
  <2>1. /\ Call("pause") \in Low /\ Call("pause").op = "pause"
        /\ Call("unreconciled") \in Low /\ Call("unreconciled").op = "unreconciled"
    BY CallFrames DEF PlainOps
  <2>2. QED
    BY <2>1, FreshFrames DEF Low
<1> HIDE DEF L
<1>2. s \in Seq(L)
  BY DEF L
<1>3. CASE Raise(s) = <<>>
  BY <1>3 DEF Tidy
<1>4. ASSUME NEW f \in L, NEW below \in Seq(L), f.op = "reconcile",
             Raise(s) = Above([f EXCEPT !.clean = FALSE], below)
      PROVE  Tidy(Raise(s), sent)
  <2> DEFINE g == [f EXCEPT !.clean = FALSE]
  <2>1. f \in Frames /\ f.op \in Loops /\ f.todo \in SUBSET f.todo /\ FALSE \in BOOLEAN
    BY <1>0, <1>4 DEF Low, Loops
  <2>2. g \in Frames /\ g.op = "reconcile"
    BY <2>1, <1>4, LoopGoesOn
  <2> HIDE DEF g
  <2>3. g \in Fresh(sent) /\ g.op \notin Delicate
    BY <2>2, FreshFrames DEF Delicate
  <2>4. Raise(s) = Above(g, below)
    BY <1>4 DEF g
  <2>5. QED
    BY <2>3, <2>4, TidyAbove DEF L
<1>5. ASSUME NEW i \in IntentIds, NEW guard \in Guards, NEW below \in Seq(L),
             Raise(s) = Interrupted(i, guard, below)
      PROVE  Tidy(Raise(s), sent)
  <2>1. AmbiguityCalls(guard) \o below \in Seq(L)
    BY <1>0, <1>1, Ambiguity
  <2>2. CallOn("to_unknown", i) \in Frames /\ CallOn("to_unknown", i).op = "to_unknown"
    BY IntentFrames DEF IntentOps
  <2>3. CallOn("to_unknown", i) \in Fresh(sent) /\ CallOn("to_unknown", i).op \notin Delicate
    BY <2>2, FreshFrames DEF Delicate
  <2> DEFINE calls == AmbiguityCalls(guard) \o below
  <2> HIDE DEF calls
  <2>4. Raise(s) = Above(CallOn("to_unknown", i), calls) /\ calls \in Seq(FreshLow(sent))
    BY <1>5, <2>1 DEF Interrupted, calls, L
  <2>5. QED
    BY <2>3, <2>4, TidyAbove
<1>6. \/ Raise(s) = <<>> /\ ~Reconciling(s)
      \/ \E f \in L, below \in Seq(L) :
           f.op = "reconcile" /\ Raise(s) = Above([f EXCEPT !.clean = FALSE], below)
      \/ \E i \in IntentIds, guard \in Guards, below \in Seq(L) :
           /\ Raise(s) = Interrupted(i, guard, below)
           /\ Reconciling(s) => Reconciling(below)
  BY <1>0, <1>2, Raises
<1>7. QED
  BY <1>3, <1>4, <1>5, <1>6

(* What waits below the topmost call, and the topmost call, are fresh.     *)
LEMMA FreshRest ==
  ASSUME agenda \in Stacks, agenda \in Seq(Fresh(dispatched)), NEW op, Running(op),
         op \notin {"pause", "unreconciled"}
  PROVE  Top \in Fresh(dispatched) /\ Rest \in Seq(FreshLow(dispatched))
<1>1. agenda # <<>> /\ Rest \in Seq(Low)
  BY Topmost DEF Running
<1>2. Top \in Fresh(dispatched) /\ Rest \in Seq(Fresh(dispatched))
  BY <1>1, TopAndRest DEF Top, Rest
<1>3. ASSUME NEW K, NEW L, NEW s \in Seq(K), s \in Seq(L) PROVE s \in Seq(K \cap L)
  BY <1>3
<1>4. QED
  BY <1>1, <1>2, <1>3 DEF FreshLow

(* What the calls of an operation leave behind.                            *)
LEMMA TidyRest ==
  ASSUME agenda \in Stacks, agenda \in Seq(Fresh(dispatched)), NEW op, Running(op),
         op \notin {"pause", "unreconciled"}
  PROVE  /\ Tidy(Then(<<>>), dispatched) /\ Tidy(Raise(Rest), dispatched)
         /\ \A f \in Fresh(dispatched) : f.op \notin Delicate =>
              Tidy(Then(<<f>>), dispatched) /\ Tidy(<<f>> \o Rest, dispatched)
         /\ \A f, g \in FreshLow(dispatched) :
              /\ Tidy(Then(<<f, g>>), dispatched) /\ Tidy(<<f, g>> \o Rest, dispatched)
              /\ Tidy(Raise(<<f, g>> \o Rest), dispatched)
              /\ \A h \in Fresh(dispatched) : h.op \notin Delicate =>
                   Tidy(<<h, f, g>> \o Rest, dispatched)
<1> DEFINE L == FreshLow(dispatched)
<1>1. Rest \in Seq(L)
  BY FreshRest
<1> HIDE DEF L
<1>2. Then(<<>>) \in Seq(L)
  BY <1>1, Returns
<1>3. ASSUME NEW f \in Fresh(dispatched), f.op \notin Delicate
      PROVE  Tidy(Then(<<f>>), dispatched) /\ Tidy(<<f>> \o Rest, dispatched)
  <2>1. Tidy(Above(f, Rest), dispatched)
    BY <1>1, <1>3, TidyAbove DEF L
  <2>2. QED
    BY <2>1, Calls1 DEF Above
<1>4. ASSUME NEW f \in L, NEW g \in L
      PROVE  /\ Then(<<f, g>>) = <<f, g>> \o Rest /\ <<f, g>> \o Rest \in Seq(L)
             /\ \A h \in Fresh(dispatched) : h.op \notin Delicate =>
                   Tidy(<<h, f, g>> \o Rest, dispatched)
  <2>1. Then(<<f, g>>) = <<f, g>> \o Rest
    BY DEF Then
  <2>2. ASSUME NEW below \in Seq(L)
        PROVE  /\ <<f, g>> \o below = Above(f, Above(g, below))
               /\ Above(f, Above(g, below)) \in Seq(L)
    <3>1. Above(g, below) \in Seq(L)
      BY <1>4, AboveProperties
    <3>2. ASSUME NEW lower \in Seq(L) PROVE Above(f, lower) \in Seq(L)
      BY <1>4, AboveProperties
    <3>3. <<f, g>> \o below = Above(f, Above(g, below))
      BY TwoAbove
    <3>4. QED
      BY <3>1, <3>2, <3>3
  <2>3. ASSUME NEW h, NEW below \in Seq(L)
        PROVE  <<h, f, g>> \o below = Above(h, Above(f, Above(g, below)))
    BY ThreeAbove
  <2>4. <<f, g>> \o Rest \in Seq(L)
    BY <1>1, <2>2
  <2>5. ASSUME NEW h \in Fresh(dispatched), h.op \notin Delicate
        PROVE  Tidy(<<h, f, g>> \o Rest, dispatched)
    <3>1. /\ <<h, f, g>> \o Rest = Above(h, Above(f, Above(g, Rest)))
          /\ Above(f, Above(g, Rest)) \in Seq(L)
      BY <1>1, <2>2, <2>3
    <3>2. QED
      BY <2>5, <3>1, TidyAbove DEF L
  <2>6. QED
    BY <2>1, <2>4, <2>5
<1>5. ASSUME NEW f \in L, NEW g \in L
      PROVE  /\ Tidy(Then(<<f, g>>), dispatched) /\ Tidy(<<f, g>> \o Rest, dispatched)
             /\ Tidy(Raise(<<f, g>> \o Rest), dispatched)
  BY <1>4, <1>5, TidyLow, TidyRaise DEF L
<1>6. QED
  BY <1>1, <1>2, <1>3, <1>4, <1>5, TidyLow, TidyRaise DEF L

-----------------------------------------------------------------------------
(* Steps of the store that expose nothing more, and give up only what was  *)
(* never sent.                                                             *)
Tame ==
  /\ \A s \in Symbols :
       /\ intents'[s].filled_units = intents[s].filled_units
       /\ intents'[s].state \in {"CANCELLED", "EXPIRED"} =>
            intents[s].state \in {"CANCELLED", "EXPIRED"} \/ dispatched[s] = 0
       /\ Active(s)' => Active(s)
       /\ Active(s) => Active(s)' \/ dispatched[s] = 0
  /\ \A p \in PositionIds :
       /\ positions'[p].units = positions[p].units
       /\ positions'[p].owner_intent_id = positions[p].owner_intent_id
  /\ late_fills' = late_fills

(* The calls of the store but the creation of an entry and the booking of  *)
(* a report are of that kind.                                              *)
LEMMA TameCalls ==
  ASSUME IInv
  PROVE  /\ UNCHANGED storeVars => Tame
         /\ \A paused : Pause(paused) => Tame
         /\ \A ok : SetReconciliation(ok) => Tame
         /\ \A p \in PositionIds, stop \in StopPrices : SetProtection(p, stop, TRUE) => Tame
         /\ \A p \in PositionIds, n \in Units : CreateClose(p, n) => Tame
         /\ \A i \in IntentIds, state \in ExecutorStates :
              /\ Transition(i, state)
              /\ i \in Symbols /\ state \in {"EXPIRED", "REJECTED"} => dispatched[i] = 0
              => Tame
<1> USE NilDistinct
<1>0. /\ intents \in [IntentIds -> OrderIntent] /\ positions \in [PositionIds -> Position]
      /\ Symbols \subseteq IntentIds /\ Symbols \cap PositionIds = {}
  BY StoreAssumption DEF IInv, TypeOK, IntentIds
<1>1. UNCHANGED <<intents, positions, late_fills>> => Tame
  BY DEF Tame, Active
<1>2. ASSUME NEW p \in PositionIds, NEW stop \in StopPrices, SetProtection(p, stop, TRUE)
      PROVE  Tame
  <2>1. /\ UNCHANGED <<intents, late_fills>>
        /\ positions' = [positions EXCEPT ![p].stop_price = stop, ![p].protected = TRUE]
    BY <1>2 DEF SetProtection, orderVars
  <2>2. ASSUME NEW q \in PositionIds
        PROVE  /\ positions'[q].units = positions[q].units
               /\ positions'[q].owner_intent_id = positions[q].owner_intent_id
    BY <1>0, <2>1 DEF Position
  <2>3. QED
    BY <2>1, <2>2 DEF Tame, Active
<1>3. ASSUME NEW p \in PositionIds, NEW n \in Units, CreateClose(p, n) PROVE Tame
  <2>1. /\ UNCHANGED <<positions, late_fills>> /\ intents' = [intents EXCEPT ![p] = NewIntent(n, Nil)]
    BY <1>3 DEF CreateClose, bookVars
  <2>2. \A s \in Symbols : intents'[s] = intents[s]
    BY <1>0, <2>1
  <2>3. QED
    BY <2>1, <2>2 DEF Tame, Active
<1>4. ASSUME NEW i \in IntentIds, NEW state \in ExecutorStates, Transition(i, state),
             i \in Symbols /\ state \in {"EXPIRED", "REJECTED"} => dispatched[i] = 0
      PROVE  Tame
  <2>1. /\ UNCHANGED <<positions, late_fills>> /\ intents' = [intents EXCEPT ![i].state = state]
        /\ Row(i) /\ ValidTransition(intents[i].state, state)
    BY <1>4 DEF Transition, bookVars
  <2>2. intents[i].state \in OrderState
    BY <1>0, <2>1 DEF OrderIntent, Row
  <2>3. ASSUME NEW s \in Symbols
        PROVE  /\ intents'[s].filled_units = intents[s].filled_units
               /\ intents'[s].state = IF s = i THEN state ELSE intents[s].state
    BY <1>0, <2>1 DEF OrderIntent
  <2>4. state \in ACTIVE_STATES => intents[i].state \in ACTIVE_STATES
    BY <2>1, <2>2, NoRevival DEF OrderState
  <2>5. state \notin ACTIVE_STATES => state \in {"EXPIRED", "REJECTED"}
    BY DEF ExecutorStates, ACTIVE_STATES
  <2>6. state \notin {"CANCELLED"}
    BY DEF ExecutorStates
  <2>7. ASSUME NEW s \in Symbols
        PROVE  /\ intents'[s].state \in {"CANCELLED", "EXPIRED"} =>
                    intents[s].state \in {"CANCELLED", "EXPIRED"} \/ dispatched[s] = 0
               /\ Active(s)' => Active(s)
               /\ Active(s) => Active(s)' \/ dispatched[s] = 0
    BY <1>4, <2>3, <2>4, <2>5, <2>6 DEF Active
  <2>8. QED
    BY <2>1, <2>3, <2>7 DEF Tame
<1>5. QED
  BY <1>1, <1>2, <1>3, <1>4 DEF Pause, SetReconciliation, storeVars, orderVars, bookVars

(* Fewer exposed entries remain few.                                       *)
LEMMA LimitKept ==
  ASSUME Limited, Exposed' \ late_fills' \subseteq Exposed \ late_fills
  PROVE  Limited'
<1>1. IsFiniteSet(Symbols) /\ Exposed \subseteq Symbols
  BY FiniteIdsAssumption DEF Exposed
<1>2. IsFiniteSet(Exposed \ late_fills)
  BY <1>1, FS_Subset
<1>3. /\ Cardinality(Exposed' \ late_fills') <= Cardinality(Exposed \ late_fills)
      /\ IsFiniteSet(Exposed' \ late_fills')
  BY <1>2, FS_Subset
<1>4. Cardinality(Exposed' \ late_fills') \in Nat /\ Cardinality(Exposed \ late_fills) \in Nat
  BY <1>2, <1>3, FS_CardinalityType
<1>5. QED
  BY <1>3, <1>4, ExecutorAssumption DEF Limited

(* The broker fills and ends no entry.                                     *)
Resting ==
  \A s \in Symbols : /\ orders'[s].state = orders[s].state
                     /\ orders'[s].filled_units = orders[s].filled_units

(* A tame step, while the broker rests.                                    *)
LEMMA TameBooks ==
  ASSUME EInv, Lagging, Limited, Tame, Resting
  PROVE  Lagging' /\ Limited' /\ Retained
<1>1. Lagging'
  <2>1. \A s \in Symbols : dispatched[s] = 0 => orders[s].state # "PARTIALLY_FILLED"
    BY NilDistinct DEF EInv, BrokerOK, BrokerOrders, Accepted, IntentIds, OrderState, ACTIVE_STATES
  <2>2. QED
    BY <2>1 DEF Lagging, Tame, Resting
<1>2. Exposed' \ late_fills' \subseteq Exposed \ late_fills
  BY DEF Tame, Exposed, OpenPositions
<1>3. Retained
  <2>1. \A s \in Symbols : dispatched[s] = 0 => ~Live(s)
    BY NilDistinct DEF EInv, BrokerOK, BrokerOrders, Accepted, IntentIds, Live, OrderState, ACTIVE_STATES
  <2>2. QED
    BY <2>1 DEF Tame, Retained
<1>4. QED
  BY <1>1, <1>2, <1>3, LimitKept

(* A tame step that leaves no delicate call on top.                        *)
LEMMA TameMove ==
  ASSUME EInv, ExposureInv, Tame, UNCHANGED <<orders, dispatched>>, Tidy(agenda', dispatched)
  PROVE  ExposureInv' /\ Retained
<1>1. Lagging' /\ Limited' /\ Retained
  BY TameBooks DEF ExposureInv, Resting
<1>2. agenda' \in Seq(Fresh(dispatched'))
  BY DEF Tidy
<1>3. Alone(agenda)' /\ Unsubmitted(agenda)' /\ Reported(agenda)'
  BY DEF Tidy, Delicate, Alone, Unsubmitted, Reported
<1>4. QED
  BY <1>1, <1>2, <1>3 DEF ExposureInv

-----------------------------------------------------------------------------
(* The calls that block entries return to what waited for them.            *)
LEMMA TidyBlocked ==
  ASSUME agenda \in Stacks, agenda \in Seq(Fresh(dispatched)),
         Running("pause") \/ Running("unreconciled")
  PROVE  Tidy(Then(<<>>), dispatched)
<1>0. agenda # <<>> /\ Rest \in Seq(Fresh(dispatched))
  BY TopAndRest DEF Running, Rest
<1>1. CASE agenda \in Working
  <2>1. Rest \in Seq(Low)
    BY <1>0, <1>1, WorkingTop DEF Rest
  <2>2. ASSUME NEW K, NEW L, NEW t \in Seq(K), t \in Seq(L) PROVE t \in Seq(K \cap L)
    BY <2>2
  <2>3. Rest \in Seq(FreshLow(dispatched))
    BY <1>0, <2>1, <2>2 DEF FreshLow
  <2>4. QED
    BY <2>3, Returns, TidyLow
<1>2. CASE agenda \in Starting
  <2>1. Rest # <<>> /\ Head(Rest).op \in {"unreconciled", "recover"}
    BY <1>2, StartingStacks DEF Rest
  <2>2. Then(<<>>) = Rest
    BY <2>1 DEF Then, Guards
  <2>3. QED
    BY <1>0, <2>1, <2>2 DEF Tidy, Delicate
<1>3. QED
  BY <1>1, <1>2 DEF Stacks

(* Calls that return, fail, or make calls of the plain kind.               *)
LEMMA ExposureReturns ==
  ASSUME EInv, ExposureInv,
         \/ PauseCall \/ UnreconciledCall \/ ToUnknown \/ SetProtectionCall \/ Release
         \/ EndIncident \/ LoopEnds("recover") \/ LoopEnds("cancel") \/ LoopEnds("flatten")
         \/ Reject \/ ApplyRefused \/ ReconcileEnds \/ AskCancelFailed
         \/ CloseNothing \/ CloseBlocked \/ CloseAfterCancel \/ CloseStillPending
         \/ CloseRefused \/ ConfirmFlat
  PROVE  ExposureInv' /\ Retained
<1>0. agenda \in Stacks /\ agenda \in Seq(Fresh(dispatched)) /\ IInv
  BY DEF EInv, ExposureInv
<1>1. /\ Call("pause") \in Fresh(dispatched) /\ Call("pause").op \notin Delicate
      /\ Call("cancel_all") \in FreshLow(dispatched)
  <2>1. /\ Call("pause") \in Frames /\ Call("pause").op = "pause"
        /\ Call("cancel_all") \in Low /\ Call("cancel_all").op = "cancel_all"
        /\ Call("cancel_all") \in Frames
    BY CallFrames DEF PlainOps, Low
  <2>2. QED
    BY <2>1, FreshFrames DEF Delicate
<1>2. UNCHANGED storeVars => Tame
  BY <1>0, TameCalls
<1>3. ASSUME NEW op, Running(op), op \notin {"pause", "unreconciled"}
      PROVE  /\ Tidy(Then(<<>>), dispatched) /\ Tidy(Raise(Rest), dispatched)
             /\ Tidy(Then(<<Call("pause")>>), dispatched)
  BY <1>0, <1>1, <1>3, TidyRest
<1>4. ASSUME Tame, UNCHANGED brokerVars, Tidy(agenda', dispatched)
      PROVE  ExposureInv' /\ Retained
  BY <1>4, TameMove DEF brokerVars
<1>5. CASE PauseCall \/ UnreconciledCall
  <2>1. /\ Running("pause") \/ Running("unreconciled")
        /\ Pause(TRUE) \/ SetReconciliation(FALSE)
        /\ agenda' = Then(<<>>) /\ UNCHANGED brokerVars
    BY <1>5 DEF PauseCall, UnreconciledCall, Local
  <2>2. Tame
    BY <1>0, <2>1, TameCalls
  <2>3. QED
    BY <1>0, <1>4, <2>1, <2>2, TidyBlocked
<1>6. CASE \/ EndIncident \/ LoopEnds("recover") \/ LoopEnds("cancel") \/ LoopEnds("flatten")
           \/ CloseNothing \/ CloseStillPending \/ ConfirmFlat
  BY <1>2, <1>3, <1>4, <1>6 DEF EndIncident, LoopEnds, CloseNothing, CloseStillPending, ConfirmFlat,
     Internal, Local
<1>7. CASE CloseBlocked
  BY <1>2, <1>3, <1>4, <1>7 DEF CloseBlocked, Internal, Local
<1>8. CASE ApplyRefused \/ AskCancelFailed \/ CloseRefused
  BY <1>2, <1>3, <1>4, <1>8 DEF ApplyRefused, AskCancelFailed, CloseRefused, Internal, Local
<1>9. CASE ToUnknown
  <2>1. /\ Running("to_unknown") /\ agenda' = Then(<<>>) /\ UNCHANGED brokerVars
        /\ Transition(Top.id, "UNKNOWN") \/ UNCHANGED storeVars
    BY <1>9 DEF ToUnknown, Local
  <2>2. Top.id \in IntentIds /\ "UNKNOWN" \in ExecutorStates
    BY <2>1, TopCall DEF Typed, IntentOps, ExecutorStates
  <2>3. Tame
    BY <1>0, <1>2, <2>1, <2>2, TameCalls
  <2>4. QED
    BY <1>3, <1>4, <2>1, <2>3
<1>10. CASE SetProtectionCall
  <2>1. /\ Running("set_protection") /\ agenda' = Then(<<>>) /\ UNCHANGED brokerVars
        /\ SetProtection(Top.id, Top.report, TRUE)
    BY <1>10 DEF SetProtectionCall, Local
  <2>2. Top.id \in PositionIds /\ Top.report \in StopPrices
    BY <2>1, TopCall DEF Typed
  <2>3. Tame
    BY <1>0, <2>1, <2>2, TameCalls
  <2>4. QED
    BY <1>3, <1>4, <2>1, <2>3
<1>11. CASE Release
  <2>1. agenda' = <<>> /\ UNCHANGED storeVars /\ UNCHANGED brokerVars
    BY <1>11 DEF Release
  <2>2. QED
    BY <1>2, <1>4, <2>1 DEF Tidy
<1>12. CASE Reject
  <2>1. /\ Running("reject") /\ agenda' = Then(<<Call("pause")>>) /\ UNCHANGED brokerVars
        /\ Transition(Top.id, "REJECTED")
    BY <1>12 DEF Reject, Local
  <2>2. Top.id \in IntentIds /\ "REJECTED" \in ExecutorStates
    BY <2>1, TopCall DEF Typed, IntentOps, ExecutorStates
  <2>3. dispatched[Top.id] = 0
    BY <2>1 DEF ExposureInv, Unsubmitted, Running, Top
  <2>4. Tame
    BY <1>0, <2>1, <2>2, <2>3, TameCalls
  <2>5. QED
    BY <1>3, <1>4, <2>1, <2>4
<1>13. CASE ReconcileEnds
  <2>1. /\ Running("reconcile") /\ UNCHANGED brokerVars /\ SetReconciliation(ReconciledCleanly)
        /\ agenda' = Then(<<>>) \/ agenda' = Then(<<Call("pause")>>)
    BY <1>13 DEF ReconcileEnds, Local
  <2>2. Tame
    BY <1>0, <2>1, TameCalls
  <2>3. QED
    BY <1>3, <1>4, <2>1, <2>2
<1>14. CASE CloseAfterCancel
  <2>1. /\ Running("close") /\ UNCHANGED brokerVars /\ UNCHANGED storeVars
        /\ agenda' = Then(<<Call("cancel_all"), CallOn("close_recheck", Top.id)>>)
    BY <1>14 DEF CloseAfterCancel, Internal, Local
  <2>2. Top.id \in PositionIds
    BY <2>1, TopCall DEF Typed
  <2>3. CallOn("close_recheck", Top.id) \in FreshLow(dispatched)
    <3>1. /\ CallOn("close_recheck", Top.id) \in Low
          /\ CallOn("close_recheck", Top.id).op = "close_recheck"
      BY <2>2, PositionFrames
    <3>2. QED
      BY <3>1, FreshFrames DEF Low
  <2>4. Tidy(agenda', dispatched)
    BY <1>0, <1>1, <2>1, <2>3, TidyRest
  <2>5. QED
    BY <1>2, <1>4, <2>1, <2>4
<1>15. QED
  BY <1>5, <1>6, <1>7, <1>8, <1>9, <1>10, <1>11, <1>12, <1>13, <1>14

-----------------------------------------------------------------------------
(* A loop that has taken an entry, or lost its cleanness.                  *)
LEMMA FreshLeft ==
  ASSUME EInv, ExposureInv, NEW op \in Loops, Running(op), NEW e
  PROVE  /\ Top \in Fresh(dispatched) /\ Rest \in Seq(FreshLow(dispatched))
         /\ Without(e) \in Fresh(dispatched) /\ Without(e).op = op
         /\ op # "recover" => Without(e) \in FreshLow(dispatched)
         /\ \A clean \in BOOLEAN :
              LET left == [Without(e) EXCEPT !.clean = clean]
              IN left \in Fresh(dispatched) /\ left.op = op
                 /\ (op # "recover" => left \in FreshLow(dispatched))
<1>1. Top \in Frames /\ Top.op = op
  BY TopCall DEF Loops
<1>2. Top \in Fresh(dispatched) /\ Rest \in Seq(FreshLow(dispatched))
  BY FreshRest DEF EInv, ExposureInv, Loops
<1>3. ASSUME NEW f \in Frames, f.op \in Loops, NEW todo \in SUBSET f.todo, NEW clean \in BOOLEAN
      PROVE  LET left == [f EXCEPT !.todo = todo]
                 unclean == [f EXCEPT !.clean = clean]
             IN /\ left \in Frames /\ left.op = f.op /\ left.todo = todo
                /\ unclean \in Frames /\ unclean.op = f.op /\ unclean.todo = f.todo
                /\ f.op # "recover" => left \in Low /\ unclean \in Low
  BY <1>3, LoopGoesOn
<1>4. /\ Without(e) \in Frames /\ Without(e).op = op /\ Without(e).todo \subseteq Top.todo
      /\ op # "recover" => Without(e) \in Low
  <2>1. Top.op \in Loops /\ Top.todo \ {e} \in SUBSET Top.todo /\ TRUE \in BOOLEAN
    BY <1>1
  <2>2. QED
    BY <1>1, <1>3, <2>1 DEF Without
<1>5. ASSUME NEW clean \in BOOLEAN
      PROVE  LET left == [Without(e) EXCEPT !.clean = clean]
             IN /\ left \in Frames /\ left.op = op /\ left.todo \subseteq Top.todo
                /\ op # "recover" => left \in Low
  <2>1. Without(e).op \in Loops /\ Without(e).todo \in SUBSET Without(e).todo
    BY <1>4
  <2>2. QED
    BY <1>3, <1>4, <2>1
<1>6. ASSUME NEW left \in Frames, left.op = op, left.todo \subseteq Top.todo
      PROVE  left \in Fresh(dispatched) /\ (left \in Low => left \in FreshLow(dispatched))
  BY <1>1, <1>2, <1>6, FreshLoop DEF FreshLow
<1>7. QED
  BY <1>2, <1>4, <1>5, <1>6

(* The loops of reconcile() and cancel_pending_entries, of __enter__ and   *)
(* flatten_owned: none gives up an entry but one that was never sent.      *)
LEMMA ExposureLoops ==
  ASSUME EInv, ExposureInv,
         \/ Recover \/ ReconcileAll \/ QueryUnseen \/ QueryFailed \/ CancelAll
         \/ CancelUnsent \/ CancelSent \/ FlattenAll \/ FlattenNext
  PROVE  ExposureInv' /\ Retained
<1>0. agenda \in Stacks /\ agenda \in Seq(Fresh(dispatched)) /\ IInv
  BY DEF EInv, ExposureInv
<1>1. UNCHANGED storeVars => Tame
  BY <1>0, TameCalls
<1>2. ASSUME NEW op, Running(op), op \notin {"pause", "unreconciled"}, Tame,
             UNCHANGED <<orders, dispatched>>, NEW f \in Fresh(dispatched), f.op \notin Delicate,
             agenda' = <<f>> \o Rest
      PROVE  ExposureInv' /\ Retained
  <2>1. Tidy(agenda', dispatched)
    BY <1>0, <1>2, TidyRest
  <2>2. QED
    BY <1>2, <2>1, TameMove
<1>3. CASE Recover
  <2>1. Running("recover") /\ UNCHANGED <<orders, dispatched>>
    BY <1>3 DEF Recover, Local, brokerVars
  <2>2. PICK e \in Top.todo : /\ Transition(e.id, RecoveredState(e.state))
                              /\ agenda' = <<Without(e)>> \o Rest
    BY <1>3 DEF Recover
  <2>3. /\ Top \in Fresh(dispatched) /\ Without(e) \in Fresh(dispatched)
        /\ Without(e).op = "recover"
    BY <2>1, FreshLeft DEF Loops
  <2>4. e.id \in IntentIds /\ Top.op = "recover"
    BY <2>1, <2>2, TopCall DEF Typed, Entries
  <2>5. /\ RecoveredState(e.state) \in ExecutorStates /\ RecoveredState(e.state) # "REJECTED"
        /\ RecoveredState(e.state) = "EXPIRED" => dispatched[e.id] = 0
    BY <2>2, <2>3, <2>4 DEF Fresh, RecoveredState, ExecutorStates
  <2>6. Tame
    BY <1>0, <2>2, <2>4, <2>5, TameCalls
  <2>7. QED
    BY <1>2, <2>1, <2>2, <2>3, <2>6 DEF Delicate
<1>4. CASE ReconcileAll
  <2> DEFINE todo == {e \in Snapshot : e.state \notin {"CREATED", "APPROVED", "REJECTED"}}
  <2>1. /\ LoopFrame("reconcile", todo, TRUE) \in Frames
        /\ LoopFrame("reconcile", todo, TRUE).op = "reconcile"
    <3>1. todo \in SUBSET Entries
      BY <1>0, SnapshotRows
    <3>2. QED
      BY <3>1, LoopFrames DEF Loops, LoopEntries
  <2>2. agenda' = <<LoopFrame("reconcile", todo, TRUE)>> \o Rest
    BY <1>4 DEF ReconcileAll, Loop, LoopFrame
  <2>3. Running("reconcile_all") /\ UNCHANGED storeVars /\ UNCHANGED <<orders, dispatched>>
    BY <1>4 DEF ReconcileAll
  <2> HIDE DEF todo
  <2>4. QED
    BY <1>1, <1>2, <2>1, <2>2, <2>3, FreshFrames DEF Delicate
<1>5. CASE QueryUnseen
  <2>1. Running("reconcile") /\ UNCHANGED <<orders, dispatched>>
    BY <1>5 DEF QueryUnseen, Local, brokerVars
  <2>2. PICK e \in Top.todo :
          /\ Transition(e.id, "UNKNOWN") \/ UNCHANGED storeVars
          /\ agenda' = <<[Without(e) EXCEPT !.clean = @ /\ e.state \notin ACTIVE_STATES]>> \o Rest
    BY <1>5 DEF QueryUnseen
  <2>3. e.id \in IntentIds /\ "UNKNOWN" \in ExecutorStates
    BY <2>1, <2>2, TopCall DEF Typed, Entries, ExecutorStates
  <2>4. Tame
    BY <1>0, <1>1, <2>2, <2>3, TameCalls
  <2>5. (Without(e).clean /\ e.state \notin ACTIVE_STATES) \in BOOLEAN
    OBVIOUS
  <2>6. PICK clean \in BOOLEAN : agenda' = <<[Without(e) EXCEPT !.clean = clean]>> \o Rest
    BY <2>2, <2>5
  <2>7. /\ [Without(e) EXCEPT !.clean = clean] \in Fresh(dispatched)
        /\ [Without(e) EXCEPT !.clean = clean].op = "reconcile"
    BY <2>1, FreshLeft DEF Loops
  <2>8. QED
    BY <1>2, <2>1, <2>4, <2>6, <2>7 DEF Delicate
<1>6. CASE QueryFailed
  <2>1. Running("reconcile") /\ UNCHANGED <<orders, dispatched>> /\ UNCHANGED storeVars
    BY <1>6 DEF QueryFailed, Internal, Local, brokerVars
  <2>2. PICK e \in Top.todo : agenda' = <<[Without(e) EXCEPT !.clean = FALSE]>> \o Rest
    BY <1>6 DEF QueryFailed
  <2>3. /\ [Without(e) EXCEPT !.clean = FALSE] \in Fresh(dispatched)
        /\ [Without(e) EXCEPT !.clean = FALSE].op = "reconcile"
    BY <2>1, FreshLeft DEF Loops
  <2>4. QED
    BY <1>1, <1>2, <2>1, <2>2, <2>3 DEF Delicate
<1>7. CASE CancelAll
  <2> DEFINE todo == {e \in Snapshot : e.id \in Symbols /\ e.state \in ACTIVE_STATES}
  <2>1. todo \in SUBSET PendingEntries
    <3>1. ASSUME NEW e \in Entries, e.id \in Symbols, e.state \in ACTIVE_STATES
          PROVE  e \in PendingEntries
      BY <3>1 DEF Entries, PendingEntries
    <3>2. QED
      BY <1>0, <3>1, SnapshotRows
  <2>2. /\ LoopFrame("cancel", todo, TRUE) \in Frames
        /\ LoopFrame("cancel", todo, TRUE).op = "cancel"
        /\ LoopFrame("cancel", todo, TRUE).todo = todo
    BY <2>1, LoopFrames DEF Loops, LoopEntries
  <2>3. ASSUME NEW e \in todo, e.state \in Unsent PROVE dispatched[e.id] = 0
    <3>1. e.state = intents[e.id].state /\ e.id \in IntentIds
      BY <1>0, SnapshotRows DEF Entries
    <3>2. QED
      BY <2>3, <3>1 DEF EInv, BrokerOK, SentOnce, BrokerTyped
  <2>4. LoopFrame("cancel", todo, TRUE) \in Fresh(dispatched)
    BY <2>2, <2>3 DEF Fresh
  <2>5. agenda' = <<LoopFrame("cancel", todo, TRUE)>> \o Rest
    BY <1>7 DEF CancelAll, Loop, LoopFrame
  <2>6. Running("cancel_all") /\ UNCHANGED storeVars /\ UNCHANGED <<orders, dispatched>>
    BY <1>7 DEF CancelAll, Internal, Local, brokerVars
  <2> HIDE DEF todo
  <2>7. QED
    BY <1>1, <1>2, <2>2, <2>4, <2>5, <2>6 DEF Delicate
<1>8. CASE CancelUnsent
  <2>1. Running("cancel") /\ UNCHANGED <<orders, dispatched>>
    BY <1>8 DEF CancelUnsent, Local, brokerVars
  <2>2. PICK e \in Top.todo : /\ e.state \in {"CREATED", "APPROVED"} /\ Transition(e.id, "EXPIRED")
                              /\ agenda' = <<Without(e)>> \o Rest
    BY <1>8 DEF CancelUnsent
  <2>3. /\ Top \in Fresh(dispatched) /\ Without(e) \in Fresh(dispatched)
        /\ Without(e).op = "cancel"
    BY <2>1, FreshLeft DEF Loops
  <2>4. e.id \in IntentIds /\ Top.op = "cancel"
    BY <2>1, <2>2, TopCall DEF Typed, PendingEntries, IntentIds
  <2>5. "EXPIRED" \in ExecutorStates /\ dispatched[e.id] = 0
    BY <2>2, <2>3, <2>4 DEF Fresh, Unsent, ExecutorStates
  <2>6. Tame
    BY <1>0, <2>2, <2>4, <2>5, TameCalls
  <2>7. QED
    BY <1>2, <2>1, <2>2, <2>3, <2>6 DEF Delicate
<1>9. CASE CancelSent
  <2>1. Running("cancel") /\ UNCHANGED <<orders, dispatched>>
    BY <1>9 DEF CancelSent, Local, brokerVars
  <2>2. PICK e \in Top.todo :
          \/ /\ Transition(e.id, "CANCEL_PENDING")
             /\ agenda' = <<CallOn("ask_cancel", e.id), CallOn("cancelling", e.id),
                           Without(e)>> \o Rest
          \/ /\ UNCHANGED storeVars
             /\ agenda' = Raise(<<CallOn("cancelling", e.id), Without(e)>> \o Rest)
    BY <1>9 DEF CancelSent
  <2>3. e.id \in Symbols /\ e.id \in IntentIds /\ "CANCEL_PENDING" \in ExecutorStates
    BY <2>1, <2>2, TopCall DEF Typed, PendingEntries, IntentIds, ExecutorStates
  <2>4. /\ CallOn("ask_cancel", e.id) \in Fresh(dispatched)
        /\ CallOn("ask_cancel", e.id).op \notin Delicate
    <3>1. CallOn("ask_cancel", e.id) \in Frames /\ CallOn("ask_cancel", e.id).op = "ask_cancel"
      BY <2>3, AskFrames
    <3>2. QED
      BY <3>1, FreshFrames DEF Delicate
  <2>5. CallOn("cancelling", e.id) \in FreshLow(dispatched)
    <3>1. /\ CallOn("cancelling", e.id) \in Frames /\ CallOn("cancelling", e.id) \in Low
          /\ CallOn("cancelling", e.id).op = "cancelling"
      BY <2>3, IntentFrames DEF IntentOps, TopOnly
    <3>2. QED
      BY <3>1, FreshFrames
  <2>6. Without(e) \in FreshLow(dispatched)
    BY <2>1, FreshLeft DEF Loops
  <2>7. Tidy(agenda', dispatched)
    BY <1>0, <2>1, <2>2, <2>4, <2>5, <2>6, TidyRest
  <2>8. Tame
    BY <1>0, <1>1, <2>2, <2>3, TameCalls
  <2>9. QED
    BY <2>1, <2>7, <2>8, TameMove
<1>10. CASE FlattenAll
  <2> DEFINE todo == {[id |-> p, state |-> Nil] : p \in OpenPositions}
  <2>1. todo \in SUBSET HeldEntries
    BY DEF HeldEntries, OpenPositions
  <2>2. /\ LoopFrame("flatten", todo, TRUE) \in Frames
        /\ LoopFrame("flatten", todo, TRUE).op = "flatten"
    BY <2>1, LoopFrames DEF Loops, LoopEntries
  <2>3. agenda' = <<LoopFrame("flatten", todo, TRUE)>> \o Rest
    BY <1>10 DEF FlattenAll, Loop, LoopFrame
  <2>4. Running("flatten_all") /\ UNCHANGED storeVars /\ UNCHANGED <<orders, dispatched>>
    BY <1>10 DEF FlattenAll, Internal, Local, brokerVars
  <2> HIDE DEF todo
  <2>5. QED
    BY <1>1, <1>2, <2>2, <2>3, <2>4, FreshFrames DEF Delicate
<1>11. CASE FlattenNext
  <2>1. Running("flatten") /\ UNCHANGED storeVars /\ UNCHANGED <<orders, dispatched>>
    BY <1>11 DEF FlattenNext, Internal, Local, brokerVars
  <2>2. PICK e \in Top.todo : agenda' = <<CallOn("close", e.id), Without(e)>> \o Rest
    BY <1>11 DEF FlattenNext
  <2>3. e.id \in PositionIds
    BY <2>1, <2>2, TopCall DEF Typed, HeldEntries
  <2>4. CallOn("close", e.id) \in FreshLow(dispatched)
    <3>1. CallOn("close", e.id) \in Low /\ CallOn("close", e.id).op = "close"
      BY <2>3, PositionFrames
    <3>2. QED
      BY <3>1, FreshFrames DEF Low
  <2>5. Without(e) \in FreshLow(dispatched)
    BY <2>1, FreshLeft DEF Loops
  <2>6. Tidy(agenda', dispatched)
    BY <1>0, <2>1, <2>2, <2>4, <2>5, TidyRest
  <2>7. QED
    BY <1>1, <2>1, <2>6, TameMove
<1>12. QED
  BY <1>3, <1>4, <1>5, <1>6, <1>7, <1>8, <1>9, <1>10, <1>11

-----------------------------------------------------------------------------
(* A new entry is counted before it is allowed (engine.py submit_entry).   *)
LEMMA OneMore ==
  ASSUME IInv, NEW s \in Symbols, Cardinality(PotentialPositions) < MaxPositions,
         Exposed' \subseteq Exposed \cup {s}
  PROVE  Limited'
<1>1. PotentialPositions \subseteq Symbols \cup {Nil}
  BY DEF PotentialPositions, OpenPositions, IInv, TypeOK, Position
<1>2. IsFiniteSet(Symbols \cup {Nil})
  BY FiniteIdsAssumption, FS_AddElement
<1>3. IsFiniteSet(PotentialPositions) /\ Cardinality(PotentialPositions) \in Nat
  BY <1>1, <1>2, FS_Subset, FS_CardinalityType
<1>4. /\ IsFiniteSet(PotentialPositions \cup {s})
      /\ Cardinality(PotentialPositions \cup {s}) <= Cardinality(PotentialPositions) + 1
  BY <1>3, FS_AddElement
<1>5. Exposed' \ late_fills' \subseteq PotentialPositions \cup {s}
  BY DEF Exposed, PotentialPositions
<1>6. Cardinality(Exposed' \ late_fills') <= Cardinality(PotentialPositions \cup {s})
  BY <1>4, <1>5, FS_Subset
<1>7. /\ Cardinality(Exposed' \ late_fills') \in Nat
      /\ Cardinality(PotentialPositions \cup {s}) \in Nat
  BY <1>4, <1>5, FS_Subset, FS_CardinalityType
<1>8. QED
  BY <1>3, <1>4, <1>6, <1>7, ExecutorAssumption DEF Limited

(* An entry is created while the executor is idle.                         *)
LEMMA ExposureEntry ==
  ASSUME EInv, ExposureInv, NEW s \in Symbols, NEW n \in Units, NEW stop \in StopPrices,
         SubmitEntry(s, n, stop)
  PROVE  ExposureInv' /\ Retained
<1> USE NilDistinct
<1>0. /\ intents \in [IntentIds -> OrderIntent] /\ Symbols \subseteq IntentIds /\ IInv
      /\ orders \in [IntentIds -> Order]
  BY DEF EInv, IInv, TypeOK, IntentIds, BrokerOK, BrokerTyped
<1>1. /\ ~Row(s) /\ intents' = [intents EXCEPT ![s] = NewIntent(n, stop)]
      /\ UNCHANGED <<positions, late_fills, orders, dispatched>>
      /\ Cardinality(PotentialPositions) < MaxPositions /\ agenda' = <<CallOn("prepare", s)>>
  BY DEF SubmitEntry, CreateEntry, bookVars, Local, brokerVars
<1>2. /\ intents'[s].state = "APPROVED" /\ intents'[s].filled_units = 0
      /\ \A t \in Symbols : t # s => intents'[t] = intents[t]
  BY <1>0, <1>1 DEF NewIntent
<1>3. Lagging'
  <2>1. orders[s].filled_units >= 0
    BY <1>0 DEF Order, Units
  <2>2. QED
    BY <1>1, <1>2, <2>1 DEF ExposureInv, Lagging
<1>4. Exposed' \subseteq Exposed \cup {s}
  BY <1>1, <1>2 DEF Exposed, OpenPositions, Active
<1>5. Retained
  BY <1>1, <1>2 DEF Retained, Active, Row
<1>6. Limited'
  BY <1>0, <1>1, <1>4, OneMore
<1>7. /\ CallOn("prepare", s) \in Fresh(dispatched) /\ CallOn("prepare", s).op = "prepare"
  <2>1. CallOn("prepare", s) \in Frames /\ CallOn("prepare", s).op = "prepare"
    BY <1>0, IntentFrames DEF IntentOps
  <2>2. QED
    BY <2>1, FreshFrames
<1>8. ASSUME NEW f \in Fresh(dispatched), f.op = "prepare", agenda' = <<f>>
      PROVE  /\ agenda' \in Seq(Fresh(dispatched')) /\ Alone(agenda)' /\ Unsubmitted(agenda)'
             /\ Reported(agenda)'
  <2>1. agenda' # <<>> /\ Head(agenda') = f /\ Tail(agenda') = <<>>
    BY <1>8
  <2>2. agenda' \in Seq(Fresh(dispatched'))
    BY <1>1, <1>8
  <2>3. QED
    BY <1>8, <2>1, <2>2 DEF Alone, Unsubmitted, Reported
<1>9. QED
  BY <1>1, <1>3, <1>5, <1>6, <1>7, <1>8 DEF ExposureInv

(* The other operations of the owner, and the death of the process: they   *)
(* change no order, and begin with calls that may wait.                    *)
LEMMA ExposureOwner ==
  ASSUME EInv, ExposureInv, Operations \/ Crash
  PROVE  ExposureInv' /\ Retained
<1>0. IInv /\ agenda \in Stacks
  BY DEF EInv
<1>1. /\ Call("pause") \in FreshLow(dispatched) /\ Call("cancel_all") \in FreshLow(dispatched)
      /\ Call("flatten_all") \in FreshLow(dispatched)
      /\ Call("reconcile_all") \in FreshLow(dispatched)
      /\ Call("confirm_flat") \in FreshLow(dispatched) /\ Call("release") \in FreshLow(dispatched)
      /\ Call("unreconciled") \in FreshLow(dispatched)
  <2>1. ASSUME NEW op \in PlainOps PROVE Call(op) \in FreshLow(dispatched)
    <3>1. Call(op) \in Low /\ Call(op).op = op
      BY CallFrames
    <3>2. op \notin {"recover", "cancel"}
      BY DEF PlainOps
    <3>3. QED
      BY <3>1, <3>2, FreshFrames DEF Low
  <2>2. QED
    BY <2>1 DEF PlainOps
<1>2. ASSUME NEW p \in PositionIds PROVE CallOn("close", p) \in FreshLow(dispatched)
  <2>1. CallOn("close", p) \in Low /\ CallOn("close", p).op = "close"
    BY PositionFrames
  <2>2. QED
    BY <2>1, FreshFrames DEF Low
<1>3. UNCHANGED storeVars => Tame
  BY <1>0, TameCalls
<1>4. ASSUME NEW calls \in Seq(FreshLow(dispatched)), Operation(calls)
      PROVE  ExposureInv' /\ Retained
  <2>1. agenda' = calls /\ UNCHANGED storeVars /\ UNCHANGED <<orders, dispatched>>
    BY <1>4 DEF Operation, Internal, Local, brokerVars
  <2>2. QED
    BY <1>3, <2>1, TidyLow, TameMove
<1>5. CASE Enter
  <2> DEFINE todo == {e \in Snapshot : e.state \in {"SUBMITTING", "CREATED", "APPROVED"}}
  <2>1. todo \in SUBSET Entries
    BY <1>0, SnapshotRows
  <2>2. /\ Recovery(todo) \in Frames /\ Recovery(todo).op = "recover" /\ Recovery(todo).todo = todo
    <3>1. ASSUME NEW rows \in SUBSET Entries
          PROVE  /\ Recovery(rows) \in Frames /\ Recovery(rows).op = "recover"
                 /\ Recovery(rows).todo = rows
      <4>1. Recovery(rows) \in Frames /\ Recovery(rows).op = "recover"
        BY LoopFrames DEF Recovery, Loops, LoopEntries
      <4>2. Recovery(rows).todo = rows
        BY DEF Recovery, LoopFrame, Frame
      <4>3. QED
        BY <4>1, <4>2
    <3>2. QED
      BY <2>1, <3>1
  <2>3. ASSUME NEW e \in todo PROVE e.state = "SUBMITTING" \/ dispatched[e.id] = 0
    <3>1. e.state = intents[e.id].state /\ e.id \in IntentIds
      BY <1>0, SnapshotRows DEF Entries
    <3>2. QED
      BY <2>3, <3>1 DEF EInv, BrokerOK, SentOnce, BrokerTyped, Unsent
  <2>4. Recovery(todo) \in Fresh(dispatched)
    BY <2>2, <2>3 DEF Fresh
  <2>5. agenda' = <<Call("pause"), Call("unreconciled"), Recovery(todo), Call("reconcile_all")>>
    BY <1>5 DEF Enter, Recovery, LoopFrame, Loop
  <2>6. UNCHANGED storeVars /\ UNCHANGED <<orders, dispatched>>
    BY <1>5 DEF Enter, brokerVars
  <2> HIDE DEF todo
  <2>7. ASSUME NEW f \in Fresh(dispatched), NEW g \in Fresh(dispatched), NEW h \in Fresh(dispatched),
               NEW k \in Fresh(dispatched), f.op = "pause"
        PROVE  Tidy(<<f, g, h, k>>, dispatched)
    BY <2>7 DEF Tidy, Delicate
  <2>8. Call("pause").op = "pause"
    BY CallFrames DEF PlainOps
  <2>9. Tidy(agenda', dispatched)
    BY <1>1, <2>4, <2>5, <2>7, <2>8 DEF FreshLow
  <2>10. QED
    BY <1>3, <2>6, <2>9, TameMove
<1>6. CASE ArmOffline
  <2>1. Pause(FALSE) /\ agenda' = <<>> /\ UNCHANGED <<orders, dispatched>>
    BY <1>6 DEF ArmOffline, Local, brokerVars
  <2>2. Tame
    BY <1>0, <2>1, TameCalls
  <2>3. Tidy(agenda', dispatched)
    BY <2>1 DEF Tidy
  <2>4. QED
    BY <2>1, <2>2, <2>3, TameMove
<1>7. CASE Crash
  <2>1. agenda' = <<>> /\ UNCHANGED storeVars /\ UNCHANGED <<orders, dispatched>>
    BY <1>7 DEF Crash, brokerVars
  <2>2. QED
    BY <1>3, <2>1, TameMove DEF Tidy
<1>8. CASE FlattenOwned \/ Exit
  <2>1. /\ <<Call("pause"), Call("cancel_all"), Call("flatten_all"), Call("reconcile_all"),
             Call("confirm_flat")>> \in Seq(FreshLow(dispatched))
        /\ <<Call("pause"), Call("release")>> \in Seq(FreshLow(dispatched))
    BY <1>1
  <2>2. QED
    BY <1>4, <1>8, <2>1 DEF FlattenOwned, Exit
<1>9. ASSUME NEW f \in FreshLow(dispatched), Operation(<<f>>) PROVE ExposureInv' /\ Retained
  <2>1. <<f>> \in Seq(FreshLow(dispatched))
    OBVIOUS
  <2>2. QED
    BY <1>4, <1>9, <2>1
<1>10. CASE \/ Operation(<<Call("pause")>>) \/ Operation(<<Call("reconcile_all")>>)
            \/ Operation(<<Call("cancel_all")>>)
            \/ \E p \in PositionIds : Operation(<<CallOn("close", p)>>)
  BY <1>1, <1>2, <1>9, <1>10 DEF OpenPositions
<1>11. ASSUME NEW p \in OpenPositions, NEW stop \in StopPrices, TightenStop(p, stop)
       PROVE  ExposureInv' /\ Retained
  <2>1. /\ orders' \in {orders, [orders EXCEPT ![positions[p].owner_intent_id].protected = TRUE]}
        /\ agenda' = <<StopFrame(p, stop)>>
             \/ agenda' = <<Call("pause"), Call("cancel_all"), CallOn("close", p)>>
        /\ UNCHANGED storeVars /\ dispatched' = dispatched
    BY <1>11 DEF TightenStop, StopFrame
  <2>2. p \in PositionIds /\ orders \in [IntentIds -> Order]
    BY DEF OpenPositions, EInv, BrokerOK, BrokerTyped
  <2>3. Resting
    BY <2>1, <2>2 DEF Resting, Order, IntentIds
  <2>4. Lagging' /\ Limited' /\ Retained
    BY <1>3, <2>1, <2>3, TameBooks DEF ExposureInv
  <2>5. StopFrame(p, stop) \in FreshLow(dispatched)
    <3>1. StopFrame(p, stop) \in Low /\ StopFrame(p, stop).op = "set_protection"
      BY <2>2, StopFrames
    <3>2. QED
      BY <3>1, FreshFrames DEF Low
  <2>6. ASSUME NEW f \in FreshLow(dispatched), NEW g \in FreshLow(dispatched),
               NEW h \in FreshLow(dispatched)
        PROVE  <<f>> \in Seq(FreshLow(dispatched)) /\ <<f, g, h>> \in Seq(FreshLow(dispatched))
    OBVIOUS
  <2>7. agenda' \in Seq(FreshLow(dispatched))
    <3>1. CASE agenda' = <<StopFrame(p, stop)>>
      BY <2>5, <2>6, <3>1
    <3>2. CASE agenda' = <<Call("pause"), Call("cancel_all"), CallOn("close", p)>>
      <4>1. CallOn("close", p) \in FreshLow(dispatched)
        BY <1>2, <2>2
      <4>2. QED
        BY <1>1, <2>6, <3>2, <4>1
    <3>3. QED
      BY <2>1, <3>1, <3>2
  <2>8. Tidy(agenda', dispatched)
    BY <2>7, TidyLow
  <2>9. agenda' \in Seq(Fresh(dispatched'))
    BY <2>1, <2>8 DEF Tidy
  <2>10. Alone(agenda)' /\ Unsubmitted(agenda)' /\ Reported(agenda)'
    BY <2>8 DEF Tidy, Delicate, Alone, Unsubmitted, Reported
  <2>11. QED
    BY <2>4, <2>9, <2>10 DEF ExposureInv
<1>12. QED
  BY <1>5, <1>6, <1>7, <1>8, <1>10, <1>11, ExposureEntry DEF Operations

-----------------------------------------------------------------------------
(* A tame step that puts a delicate call on top, with what it relies on.   *)
LEMMA DelicateMove ==
  ASSUME EInv, ExposureInv, Tame, UNCHANGED <<orders, dispatched>>,
         NEW f \in Fresh(dispatched), NEW below \in Seq(FreshLow(dispatched)),
         agenda' = Above(f, below),
         f.op \in {"prepare", "submit"} /\ f.id \in Symbols => below = <<>>,
         f.op = "send" /\ f.id \in Symbols => Tail(below) = <<>>,
         f.op = "reject" => dispatched[f.id] = 0,
         f.op = "apply" /\ f.id \in Symbols => Dated(f.report, f.id)'
  PROVE  ExposureInv' /\ Retained
<1>1. Lagging' /\ Limited' /\ Retained
  BY TameBooks DEF ExposureInv, Resting
<1>2. agenda' # <<>> /\ Head(agenda') = f /\ Tail(agenda') = below
  BY AboveProperties
<1>3. agenda' \in Seq(Fresh(dispatched'))
  BY TidyAbove
<1>4. Alone(agenda)' /\ Unsubmitted(agenda)' /\ Reported(agenda)'
  BY <1>2 DEF Alone, Unsubmitted, Reported
<1>5. QED
  BY <1>1, <1>3, <1>4 DEF ExposureInv

(* Preparing, submitting and rejecting (engine.py _submit, _send,          *)
(* _reject_pre_send, close_owned).                                         *)
LEMMA ExposureCalls ==
  ASSUME EInv, ExposureInv, Prepare \/ Submit \/ SendRefused \/ CloseCreate \/ CloseRecheck
  PROVE  ExposureInv' /\ Retained
<1>0. IInv /\ agenda \in Stacks /\ agenda \in Seq(Fresh(dispatched))
  BY DEF EInv, ExposureInv
<1>1. UNCHANGED storeVars => Tame
  BY <1>0, TameCalls
<1>2. ASSUME NEW op, Running(op), op \notin {"pause", "unreconciled"}
      PROVE  /\ Top \in Fresh(dispatched) /\ Rest \in Seq(FreshLow(dispatched))
             /\ Top.op = op /\ agenda # <<>> /\ Typed(Top)
  BY <1>0, <1>2, FreshRest, TopCall
<1>3. ASSUME NEW op \in IntentOps, NEW i \in IntentIds
      PROVE  /\ CallOn(op, i) \in Fresh(dispatched) /\ CallOn(op, i).op = op
             /\ CallOn(op, i).id = i
             /\ op \notin TopOnly => CallOn(op, i) \in FreshLow(dispatched)
  <2>1. /\ CallOn(op, i) \in Frames /\ CallOn(op, i).op = op /\ CallOn(op, i).id = i
        /\ op \notin TopOnly => CallOn(op, i) \in Low
    BY IntentFrames
  <2>2. op \notin {"recover", "cancel"}
    BY DEF IntentOps
  <2>3. QED
    BY <2>1, <2>2, FreshFrames
<1>4. CASE Prepare
  <2>1. /\ Running("prepare") /\ UNCHANGED storeVars /\ UNCHANGED <<orders, dispatched>>
        /\ agenda' \in {Then(<<CallOn("submit", Top.id)>>), Then(<<CallOn("reject", Top.id)>>),
                        Raise(Rest)}
    BY <1>4 DEF Prepare, Internal, Local, brokerVars
  <2>2. Top.id \in IntentIds /\ Top.op = "prepare" /\ Rest \in Seq(FreshLow(dispatched))
    BY <1>2, <2>1 DEF Typed, IntentOps
  <2>3. /\ Top.id \in Symbols => Rest = <<>>
        /\ dispatched[Top.id] = 0
    <3>1. intents[Top.id].state = "APPROVED"
      BY <1>2, <2>1, <2>2 DEF EInv, Ready, ReadyCall, Top
    <3>2. dispatched[Top.id] = 0
      BY <2>2, <3>1 DEF EInv, BrokerOK, SentOnce, BrokerTyped, Unsent
    <3>3. QED
      BY <1>2, <2>1, <2>2, <3>2 DEF ExposureInv, Alone, Top, Rest
  <2>4. ASSUME NEW op \in {"submit", "reject"}, agenda' = Then(<<CallOn(op, Top.id)>>)
        PROVE  ExposureInv' /\ Retained
    <3>1. agenda' = Above(CallOn(op, Top.id), Rest)
      BY <2>4, Calls1
    <3>2. /\ CallOn(op, Top.id) \in Fresh(dispatched) /\ CallOn(op, Top.id).op = op
          /\ CallOn(op, Top.id).id = Top.id
      BY <1>3, <2>2, <2>4 DEF IntentOps
    <3>3. QED
      BY <1>1, <2>1, <2>2, <2>3, <2>4, <3>1, <3>2, DelicateMove
  <2>5. CASE agenda' = Raise(Rest)
    <3>1. Tidy(agenda', dispatched)
      BY <2>2, <2>5, TidyRaise
    <3>2. QED
      BY <1>1, <2>1, <3>1, TameMove
  <2>6. QED
    BY <2>1, <2>4, <2>5
<1>5. CASE Submit
  <2>1. /\ Running("submit") /\ UNCHANGED <<orders, dispatched>> /\ Transition(Top.id, "SUBMITTING")
        /\ agenda' = <<CallOn("send", Top.id), CallOn("sending", Top.id)>> \o Rest
    BY <1>5 DEF Submit, Local, brokerVars
  <2>2. Top.id \in IntentIds /\ Top.op = "submit" /\ "SUBMITTING" \in ExecutorStates
    BY <1>2, <2>1 DEF Typed, IntentOps, ExecutorStates
  <2>3. Top.id \in Symbols => Rest = <<>>
    BY <1>2, <2>1, <2>2 DEF ExposureInv, Alone, Top, Rest
  <2>4. Tame
    BY <1>0, <2>1, <2>2, TameCalls
  <2>5. /\ CallOn("send", Top.id) \in Fresh(dispatched) /\ CallOn("send", Top.id).op = "send"
        /\ CallOn("send", Top.id).id = Top.id
        /\ CallOn("sending", Top.id) \in FreshLow(dispatched)
    BY <1>3, <2>2 DEF IntentOps, TopOnly
  <2>6. ASSUME NEW f \in Fresh(dispatched), f.op = "send", NEW g \in FreshLow(dispatched),
               NEW below \in Seq(FreshLow(dispatched)), f.id \in Symbols => below = <<>>,
               agenda' = <<f, g>> \o below
        PROVE  ExposureInv' /\ Retained
    <3>1. /\ <<f, g>> \o below = Above(f, Above(g, below))
          /\ Above(g, below) \in Seq(FreshLow(dispatched)) /\ Tail(Above(g, below)) = below
      BY TwoAbove, AboveProperties
    <3>2. QED
      BY <2>1, <2>4, <2>6, <3>1, DelicateMove
  <2>7. QED
    BY <1>2, <2>1, <2>3, <2>5, <2>6
<1>6. CASE SendRefused
  <2>1. /\ Running("send") /\ UNCHANGED storeVars /\ UNCHANGED <<orders, dispatched>>
        /\ agenda' = <<CallOn("reject", Top.id)>> \o Tail(Rest)
    BY <1>6 DEF SendRefused, Internal, Local, brokerVars
  <2>2. /\ Top.id \in IntentIds /\ Rest # <<>> /\ dispatched[Top.id] = 0
    BY <1>2, <2>1 DEF EInv, Ready, ReadyCall, Top, Rest, Typed, IntentOps
  <2>3. Tail(Rest) \in Seq(FreshLow(dispatched))
    BY <1>2, <2>1, <2>2, TopAndRest
  <2>4. /\ CallOn("reject", Top.id) \in Fresh(dispatched) /\ CallOn("reject", Top.id).op = "reject"
        /\ CallOn("reject", Top.id).id = Top.id
    BY <1>3, <2>2 DEF IntentOps
  <2>5. agenda' = Above(CallOn("reject", Top.id), Tail(Rest))
    BY <2>1 DEF Above
  <2>6. QED
    BY <1>1, <2>1, <2>2, <2>3, <2>4, <2>5, DelicateMove
<1>7. CASE CloseCreate \/ CloseRecheck
  <2>1. /\ Running("close") \/ Running("close_recheck")
        /\ \/ CreateCloseOf(Top.id)
           \/ agenda' = Then(<<>>) /\ Internal
    BY <1>7 DEF CloseCreate, CloseRecheck
  <2>2. Top.id \in PositionIds /\ Rest \in Seq(FreshLow(dispatched))
    BY <1>2, <2>1 DEF Typed
  <2>3. Top.id \in IntentIds /\ Top.id \notin Symbols
    BY <2>2, NilDistinct DEF IntentIds
  <2>4. CASE CreateCloseOf(Top.id)
    <3>1. /\ CreateClose(Top.id, positions[Top.id].units) /\ UNCHANGED <<orders, dispatched>>
          /\ agenda' = Then(<<CallOn("submit", Top.id)>>)
      BY <2>4 DEF CreateCloseOf, Local, brokerVars
    <3>2. positions[Top.id].units \in Units
      BY <1>0, <2>2 DEF IInv, TypeOK, Position
    <3>3. Tame
      BY <1>0, <2>2, <3>1, <3>2, TameCalls
    <3>4. /\ CallOn("submit", Top.id) \in Fresh(dispatched) /\ CallOn("submit", Top.id).op = "submit"
          /\ CallOn("submit", Top.id).id = Top.id
      BY <1>3, <2>3 DEF IntentOps
    <3>5. agenda' = Above(CallOn("submit", Top.id), Rest)
      BY <3>1, Calls1
    <3>6. QED
      BY <2>2, <2>3, <3>1, <3>3, <3>4, <3>5, DelicateMove
  <2>5. CASE agenda' = Then(<<>>) /\ Internal
    <3>1. Tidy(agenda', dispatched)
      BY <1>0, <2>1, <2>5, TidyRest
    <3>2. QED
      BY <1>1, <2>5, <3>1, TameMove DEF Internal, Local, brokerVars
  <2>6. QED
    BY <2>1, <2>4, <2>5
<1>8. QED
  BY <1>4, <1>5, <1>6, <1>7

-----------------------------------------------------------------------------
(* What the broker does to an entry leaves the books behind it, and what   *)
(* was already answered out of date: fills only grow, and an order that    *)
(* ends is no longer partially filled.                                     *)
LEMMA ExposureBroker ==
  ASSUME EInv, ExposureInv, BrokerMoves
  PROVE  ExposureInv' /\ Retained
<1>0. /\ IInv /\ orders \in [IntentIds -> Order] /\ Symbols \subseteq IntentIds
      /\ intents \in [IntentIds -> OrderIntent]
  BY DEF EInv, IInv, TypeOK, BrokerOK, BrokerTyped, IntentIds
<1>1. ASSUME NEW i \in IntentIds, MoveOf(i)
      PROVE  /\ UNCHANGED <<intents, positions, late_fills, dispatched, agenda>>
             /\ moved \subseteq moved' /\ i \in moved'
  BY <1>1 DEF MoveOf, storeVars, orderVars, bookVars
<1>2. ASSUME UNCHANGED <<intents, positions, late_fills, dispatched, agenda>>,
             moved \subseteq moved',
             \A s \in Symbols :
               \/ orders'[s] = orders[s]
               \/ /\ s \in moved' /\ orders'[s].state # "REJECTED"
                  /\ orders'[s].filled_units > orders[s].filled_units
               \/ /\ s \in moved' /\ orders'[s].filled_units = orders[s].filled_units
                  /\ orders'[s].state # "PARTIALLY_FILLED"
                  /\ orders'[s].state = "REJECTED" => orders[s].filled_units = 0,
             \A s \in Symbols : orders'[s].filled_units \in Nat
      PROVE  ExposureInv' /\ Retained
  <2>1. \A s \in Symbols : orders[s].filled_units \in Nat /\ intents[s].filled_units \in Nat
    BY <1>0 DEF Order, OrderIntent, Units
  <2>2. Lagging'
    BY <1>2, <2>1 DEF ExposureInv, Lagging
  <2>3. Limited' /\ Retained
    BY <1>2 DEF ExposureInv, Limited, Exposed, OpenPositions, Active, Retained
  <2>4. ASSUME NEW u, NEW s \in Symbols, u.filled_units \in Nat, Dated(u, s) PROVE Dated(u, s)'
    BY <1>2, <2>1, <2>4 DEF Dated, Live
  <2>5. Reported(agenda)'
    <3>1. ASSUME agenda # <<>>, Top.op = "apply", Top.id \in Symbols
          PROVE  Dated(Top.report, Top.id)'
      <4>1. Top.report \in Reports
        BY <3>1, Topmost DEF EInv, Typed
      <4>2. Top.report.filled_units \in Nat
        BY <4>1 DEF Reports, BrokerOrder, Units
      <4>3. Dated(Top.report, Top.id)
        BY <3>1 DEF ExposureInv, Reported, Top
      <4>4. QED
        BY <2>4, <3>1, <4>2, <4>3, <1>2 DEF Top
    <3>2. QED
      BY <1>2, <3>1 DEF Reported, Top
  <2>6. QED
    BY <1>2, <2>2, <2>3, <2>5 DEF ExposureInv, Alone, Unsubmitted
<1>3. \A s \in Symbols : orders'[s].filled_units \in Nat
  <2>1. orders' \in [IntentIds -> Order]
    BY BrokerMoveStep DEF EInv, BrokerOK, BrokerTyped
  <2>2. QED
    BY <1>0, <2>1 DEF Order, Units
<1>4. ASSUME NEW i \in IntentIds, NEW n \in Units, NEW protected \in Protection,
             BrokerFills(i, n, protected)
      PROVE  ExposureInv' /\ Retained
  <2>1. /\ n > orders[i].filled_units /\ MoveOf(i)
        /\ orders' = [orders EXCEPT ![i] = [state |-> FillState(intents[i].units, n),
                                            filled_units |-> n, protected |-> protected]]
    <3>1. orders[i].filled_units \in Nat /\ intents[i].units \in Nat /\ n \in Nat
      BY <1>0 DEF Order, OrderIntent, Units
    <3>2. QED
      BY <1>4, <3>1 DEF BrokerFills
  <2>2. FillState(intents[i].units, n) # "REJECTED"
    BY DEF FillState
  <2>3. \A s \in Symbols :
          \/ orders'[s] = orders[s]
          \/ /\ s = i /\ orders'[s].state # "REJECTED"
             /\ orders'[s].filled_units > orders[s].filled_units
    BY <1>0, <2>1, <2>2
  <2>4. QED
    BY <1>1, <1>2, <1>3, <2>1, <2>3
<1>5. ASSUME NEW i \in IntentIds, NEW state \in {"CANCELLED", "EXPIRED", "REJECTED"},
             BrokerEnds(i, state)
      PROVE  ExposureInv' /\ Retained
  <2>1. /\ orders' = [orders EXCEPT ![i].state = state] /\ MoveOf(i)
        /\ state = "REJECTED" => orders[i].filled_units = 0
    BY <1>5 DEF BrokerEnds
  <2>2. \A s \in Symbols :
          \/ orders'[s] = orders[s]
          \/ /\ s = i /\ orders'[s].filled_units = orders[s].filled_units
             /\ orders'[s].state = state
    BY <1>0, <2>1 DEF Order
  <2>3. QED
    BY <1>1, <1>2, <1>3, <2>1, <2>2
<1>6. ASSUME NEW s \in Symbols, StopOut(s) PROVE ExposureInv' /\ Retained
  <2>1. MoveOf(s) /\ orders' = orders /\ s \in IntentIds
    BY <1>0, <1>6 DEF StopOut
  <2>2. QED
    BY <1>1, <1>2, <1>3, <2>1
<1>7. QED
  BY <1>4, <1>5, <1>6 DEF BrokerMoves

-----------------------------------------------------------------------------
(* What an incident calls may wait, whatever was sent meanwhile.           *)
LEMMA FreshIncident ==
  ASSUME NEW u \in Reports, NEW sent, Rest \in Seq(FreshLow(sent))
  PROVE  Then(IncidentCalls(u)) \in Seq(FreshLow(sent))
<1> DEFINE L == FreshLow(sent)
<1>1. Call("pause") \in L /\ Call("cancel_all") \in L /\ Call("end_incident") \in L
  <2>1. ASSUME NEW op \in PlainOps PROVE Call(op) \in L
    <3>1. Call(op) \in Low /\ Call(op).op = op
      BY CallFrames
    <3>2. op \notin {"recover", "cancel"}
      BY DEF PlainOps
    <3>3. QED
      BY <3>1, <3>2, FreshFrames DEF Low
  <2>2. QED
    BY <2>1 DEF PlainOps
<1> HIDE DEF L
<1>2. CASE ~Incident(u)
  <2>1. IncidentCalls(u) = <<>>
    BY <1>2 DEF IncidentCalls
  <2>2. QED
    BY <2>1, Returns DEF L
<1>3. CASE Incident(u)
  <2>1. u.position_id \in PositionIds
    BY <1>3 DEF Incident, Reports, Report, BrokerOrder
  <2>2. CallOn("close", u.position_id) \in L
    <3>1. /\ CallOn("close", u.position_id) \in Low
          /\ CallOn("close", u.position_id).op = "close"
      BY <2>1, PositionFrames
    <3>2. QED
      BY <3>1, FreshFrames DEF Low, L
  <2>3. IncidentCalls(u) \in Seq(L) /\ IncidentCalls(u) # <<>>
    <3>1. CASE InIncident
      BY <1>1, <1>3, <3>1 DEF IncidentCalls
    <3>2. CASE ~InIncident
      BY <1>1, <1>3, <2>2, <3>2 DEF IncidentCalls
    <3>3. QED
      BY <3>1, <3>2
  <2>4. Then(IncidentCalls(u)) = IncidentCalls(u) \o Rest
    BY <2>3 DEF Then
  <2>5. QED
    BY <2>3, <2>4, ConcatProperties DEF L
<1>4. QED
  BY <1>2, <1>3

(* What a finished row may move to.                                        *)
LEMMA AfterTheEnd ==
  ASSUME NEW old \in TERMINAL_STATES, NEW new, ValidTransition(old, new)
  PROVE  /\ old \in {"FILLED", "REJECTED"} => new = old
         /\ old \in {"CANCELLED", "EXPIRED"} =>
              new \in {"CANCELLED", "EXPIRED", "PARTIALLY_FILLED", "FILLED"}
<1>1. ASSUME NEW row \in OrderState, new \in TRANSITIONS[row]
      PROVE  /\ row \notin {"FILLED", "REJECTED"}
             /\ row \in {"CANCELLED", "EXPIRED"} => new \in {"PARTIALLY_FILLED", "FILLED"}
  BY <1>1 DEF TRANSITIONS
<1>2. QED
  BY <1>1 DEF ValidTransition, OrderState

(* Booking a report that is dated but not contradicting (store.py          *)
(* apply_broker_order): what it reopens is a late fill, and what it ends   *)
(* the broker had ended.                                                   *)
LEMMA BookedExposure ==
  ASSUME IInv, Lagging, Limited, NEW u \in Reports, NEW now, ApplyBrokerOrder(u, now),
         orders \in [IntentIds -> Order], UNCHANGED orders,
         u.intent_id \in Symbols => Dated(u, u.intent_id)
  PROVE  Lagging' /\ Limited' /\ Retained
<1> USE NilDistinct
<1>0. /\ intents \in [IntentIds -> OrderIntent] /\ Symbols \subseteq IntentIds
      /\ Symbols \cap PositionIds = {}
  BY StoreAssumption DEF IInv, TypeOK, IntentIds
<1>1. PICK i : i = u.intent_id
  OBVIOUS
<1>2. i \in IntentIds /\ u \in ReportsOf[i]
  BY <1>1 DEF Reports, BrokerOrder, ReportsOf
<1>3. /\ Commits(u, now) /\ positions' = Observed(u) /\ intents' = [intents EXCEPT ![i] = Updated(u)]
      /\ late_fills' = IF LateFill(u) THEN late_fills \cup {i} ELSE late_fills
  BY <1>1 DEF ApplyBrokerOrder
<1>4. /\ intents'[i].state = u.state /\ intents'[i].filled_units = u.filled_units
      /\ \A j \in IntentIds : j # i => intents'[j] = intents[j]
  BY <1>0, <1>2, <1>3 DEF Updated
<1>5. /\ u.filled_units \in Nat /\ u.state \in BrokerStates /\ intents[i].filled_units \in Nat
      /\ intents[i].units \in Nat
      /\ Delta(u) = u.filled_units - intents[i].filled_units
      /\ \A s \in Symbols : orders[s].filled_units \in Nat /\ intents[s].filled_units \in Nat
  BY <1>0, <1>2, ReportFields, DeltaTyped DEF Units, OrderIntent, Order
<1>6. /\ intents[i].state \in OrderState /\ ValidTransition(intents[i].state, u.state)
      /\ u.filled_units >= intents[i].filled_units /\ u.filled_units <= intents[i].units
  BY <1>0, <1>1, <1>2, <1>3, <1>5 DEF Commits, ReportAccepted, QuantityAccepted, Row, OrderIntent
<1>7. Lagging'
  BY <1>0, <1>1, <1>4, <1>5 DEF Lagging, Dated
<1>8. ASSUME NEW p \in PositionIds
      PROVE  \/ /\ positions'[p].units = positions[p].units
                /\ positions'[p].owner_intent_id = positions[p].owner_intent_id
             \/ /\ Delta(u) > 0 /\ i \in Symbols /\ positions'[p].owner_intent_id = i
                /\ positions[p].owner_intent_id \in {Nil, i}
             \/ /\ positions'[p].owner_intent_id = positions[p].owner_intent_id
                /\ positions'[p].units = positions[p].units - Delta(u) /\ Delta(u) > 0
  BY <1>2, <1>3, BookedPositions, ObservedPositions
<1>9. \A p \in PositionIds : positions[p].units \in Nat
  BY DEF IInv, TypeOK, Position, Units
<1>10. ASSUME NEW s \in Symbols, s \in Exposed', s # i PROVE s \in Exposed
  BY <1>0, <1>4, <1>5, <1>8, <1>9, <1>10 DEF Exposed, OpenPositions, Active
<1>11. ASSUME i \in Symbols, i \in Exposed', i \notin Exposed PROVE LateFill(u)
  <2>1. ~Active(i) /\ \A p \in OpenPositions : positions[p].owner_intent_id # i
    BY <1>11 DEF Exposed
  <2>2. u.state \in ACTIVE_STATES \/ Delta(u) > 0
    <3>1. ASSUME Delta(u) = 0 PROVE Active(i)'
      BY <1>5, <1>8, <1>9, <1>11, <2>1, <3>1 DEF Exposed, OpenPositions
    <3>2. QED
      BY <1>4, <1>5, <1>6, <3>1 DEF Active
  <2>3. /\ intents[i].state \in {"FILLED", "CANCELLED", "EXPIRED", "REJECTED"}
        /\ intents[i].state \in TERMINAL_STATES
    BY <1>6, <2>1 DEF Active, OrderState, TERMINAL_STATES
  <2>4. CASE intents[i].state = "FILLED"
    <3>1. u.state = "FILLED" /\ intents[i].filled_units = intents[i].units
      BY <1>2, <1>6, <2>3, <2>4, AfterTheEnd DEF IInv, FillsMatchState
    <3>2. QED
      BY <1>5, <1>6, <2>2, <3>1 DEF ACTIVE_STATES
  <2>5. CASE intents[i].state = "REJECTED"
    <3>1. u.state = "REJECTED"
      BY <1>6, <2>3, <2>5, AfterTheEnd
    <3>2. u.filled_units = 0
      BY <1>1, <1>11, <3>1 DEF Dated
    <3>3. QED
      BY <1>5, <1>6, <2>2, <3>1, <3>2 DEF ACTIVE_STATES
  <2>6. CASE intents[i].state \in {"CANCELLED", "EXPIRED"}
    <3>1. u.state \in {"CANCELLED", "EXPIRED", "PARTIALLY_FILLED", "FILLED"}
      BY <1>6, <2>3, <2>6, AfterTheEnd
    <3>2. Delta(u) > 0
      BY <1>1, <1>5, <1>6, <1>11, <2>2, <2>6, <3>1 DEF Dated, ACTIVE_STATES
    <3>3. QED
      BY <1>1, <2>6, <3>2 DEF LateFill
  <2>7. QED
    BY <2>3, <2>4, <2>5, <2>6
<1>12. Exposed' \ late_fills' \subseteq Exposed \ late_fills
  BY <1>3, <1>10, <1>11 DEF Exposed
<1>13. Retained
  <2>1. ASSUME NEW s \in Symbols, Active(s), ~Active(s)' PROVE ~Live(s) \/ s \in moved
    <3>1. s = i /\ u.state \notin ACTIVE_STATES
      BY <1>0, <1>4, <2>1 DEF Active
    <3>2. u.state \in TERMINAL_STATES
      BY <1>5, <3>1 DEF BrokerStates, OrderState
    <3>3. QED
      BY <1>1, <3>1, <3>2 DEF Dated
  <2>2. QED
    BY <2>1 DEF Retained
<1>14. QED
  BY <1>7, <1>12, <1>13, LimitKept

(* A report is booked, and an unacceptable fill managed (engine.py _apply). *)
LEMMA ExposureApply ==
  ASSUME EInv, ExposureInv, ApplyReport
  PROVE  ExposureInv' /\ Retained
<1>0. IInv /\ agenda \in Stacks /\ agenda \in Seq(Fresh(dispatched)) /\ orders \in [IntentIds -> Order]
  BY DEF EInv, ExposureInv, BrokerOK, BrokerTyped
<1>1. /\ Running("apply") /\ ApplyBrokerOrder(Top.report, clock)
      /\ agenda' = Then(IncidentCalls(Top.report)) /\ UNCHANGED <<orders, dispatched>>
  BY DEF ApplyReport, Local, brokerVars
<1>2. /\ Top.report \in Reports /\ Top.id = Top.report.intent_id /\ Top.op = "apply"
      /\ agenda # <<>>
  BY <1>1, TopCall DEF Typed, Running
<1>3. Rest \in Seq(FreshLow(dispatched))
  BY <1>0, <1>1, FreshRest
<1>4. Top.report.intent_id \in Symbols => Dated(Top.report, Top.report.intent_id)
  BY <1>2 DEF ExposureInv, Reported, Top
<1>5. Lagging' /\ Limited' /\ Retained
  BY <1>0, <1>1, <1>2, <1>4, BookedExposure DEF ExposureInv
<1>6. Tidy(agenda', dispatched)
  <2>1. agenda' \in Seq(FreshLow(dispatched))
    BY <1>1, <1>2, <1>3, FreshIncident
  <2>2. QED
    BY <2>1, TidyLow
<1>7. agenda' \in Seq(Fresh(dispatched'))
  BY <1>1, <1>6 DEF Tidy
<1>8. Alone(agenda)' /\ Unsubmitted(agenda)' /\ Reported(agenda)'
  BY <1>6 DEF Tidy, Delicate, Alone, Unsubmitted, Reported
<1>9. QED
  BY <1>5, <1>7, <1>8 DEF ExposureInv

-----------------------------------------------------------------------------
(* The broker's answer is booked next, or lost; the store is not written.  *)
LEMMA AnswerExposure ==
  ASSUME EInv', Limited, Lagging', UNCHANGED storeVars,
         Rest \in Seq(FreshLow(dispatched')), NEW u,
         agenda' = Raise(Rest) \/ agenda' = <<Apply(u)>> \o Rest,
         u.intent_id \in Symbols => Dated(u, u.intent_id)'
  PROVE  ExposureInv' /\ Retained
<1>0. Limited' /\ Retained
  BY DEF Limited, Retained, Exposed, OpenPositions, Active, storeVars, orderVars, bookVars
<1>1. CASE agenda' = Raise(Rest)
  <2>1. Tidy(agenda', dispatched')
    BY <1>1, TidyRaise
  <2>2. agenda' \in Seq(Fresh(dispatched'))
    BY <2>1 DEF Tidy
  <2>3. Alone(agenda)' /\ Unsubmitted(agenda)' /\ Reported(agenda)'
    BY <2>1 DEF Tidy, Delicate, Alone, Unsubmitted, Reported
  <2>4. QED
    BY <1>0, <2>2, <2>3 DEF ExposureInv
<1>2. ASSUME NEW below \in Seq(FreshLow(dispatched')), agenda' = <<Apply(u)>> \o below
      PROVE  ExposureInv' /\ Retained
  <2>1. agenda' = Above(Apply(u), below)
    BY <1>2 DEF Above
  <2>2. below \in Seq(Low) /\ agenda' \in Stacks
    BY DEF EInv, FreshLow
  <2>3. u \in Reports
    BY <2>1, <2>2, ApplyTop
  <2>4. /\ Apply(u).op = "apply" /\ Apply(u).id = u.intent_id /\ Apply(u).report = u
        /\ Apply(u) \in Frames
    BY <2>3, ApplyFrames DEF Apply, Frame
  <2>5. Apply(u) \in Fresh(dispatched')
    BY <2>4, FreshFrames
  <2>6. /\ agenda' \in Seq(Fresh(dispatched')) /\ agenda' # <<>> /\ Head(agenda') = Apply(u)
    BY <2>1, <2>5, TidyAbove, AboveProperties
  <2>7. Alone(agenda)' /\ Unsubmitted(agenda)' /\ Reported(agenda)'
    BY <2>4, <2>6 DEF Alone, Unsubmitted, Reported
  <2>8. QED
    BY <1>0, <2>6, <2>7 DEF ExposureInv
<1>3. QED
  BY <1>1, <1>2

(* What waits below a send holds no loop that takes the order it sends for *)
(* unsent: a close is in no such loop, and nothing waits below an entry.   *)
LEMMA SentBelow ==
  ASSUME EInv, ExposureInv, Running("send"), dispatched' = [dispatched EXCEPT ![Top.id] = @ + 1]
  PROVE  Rest \in Seq(FreshLow(dispatched'))
<1>0. agenda \in Stacks /\ agenda \in Seq(Fresh(dispatched))
  BY DEF EInv, ExposureInv
<1>1. PICK i : i = Top.id
  OBVIOUS
<1>2. /\ i \in IntentIds /\ Top.op = "send" /\ agenda # <<>>
      /\ Rest # <<>> /\ Head(Rest).op = "sending"
  BY <1>0, <1>1, TopCall DEF Typed, IntentOps, EInv, Ready, ReadyCall, Top, Rest, Running
<1>3. Rest \in Seq(FreshLow(dispatched))
  BY <1>0, FreshRest
<1>4. dispatched \in [IntentIds -> {0, 1}]
  BY DEF EInv, BrokerOK, BrokerTyped
<1>5. CASE i \notin Symbols
  <2>1. ASSUME NEW f \in FreshLow(dispatched) PROVE f \in FreshLow(dispatched')
    <3>1. f \in Frames /\ f.op # "recover" /\ f \in Low /\ Typed(f)
      BY FrameFields DEF FreshLow, Low, TopOnly
    <3>2. f.op = "cancel" => \A e \in f.todo : e.id \in Symbols
      BY <3>1 DEF Typed, PendingEntries
    <3>3. \A s \in Symbols : dispatched'[s] = dispatched[s]
      BY <1>1, <1>4, <1>5 DEF IntentIds
    <3>4. QED
      BY <3>1, <3>2, <3>3 DEF FreshLow, Fresh
  <2>2. FreshLow(dispatched) \subseteq FreshLow(dispatched')
    BY <2>1
  <2> DEFINE K == FreshLow(dispatched)
             L == FreshLow(dispatched')
  <2> HIDE DEF K, L
  <2>3. K \subseteq L /\ Rest \in Seq(K)
    BY <1>3, <2>2 DEF K, L
  <2>4. Rest \in Seq(L)
    BY <2>3
  <2>5. QED
    BY <2>4 DEF L
<1>6. CASE i \in Symbols
  <2>1. Tail(Rest) = <<>>
    BY <1>1, <1>2, <1>6 DEF ExposureInv, Alone, Top, Rest
  <2>2. Head(Rest) \in FreshLow(dispatched)
    BY <1>2, <1>3, TopAndRest
  <2>3. Head(Rest) \in FreshLow(dispatched')
    BY <1>2, <2>2, FreshFrames DEF FreshLow, Low
  <2>4. ASSUME NEW K, NEW L, NEW s \in Seq(K), s # <<>>, Tail(s) = <<>>, Head(s) \in L
        PROVE  s \in Seq(L)
    <3>1. s = Above(Head(s), Tail(s))
      BY <2>4, TopAndRest
    <3>2. Tail(s) \in Seq(L)
      BY <2>4, EmptySeq
    <3>3. QED
      BY <2>4, <3>1, <3>2, AboveProperties
  <2>5. QED
    BY <1>2, <1>3, <2>1, <2>3, <2>4
<1>7. QED
  BY <1>5, <1>6

(* An order is sent: the broker takes it, or nobody can tell (engine.py    *)
(* _send).                                                                 *)
LEMMA ExposureSends ==
  ASSUME EInv, EInv', ExposureInv, SendAccepted \/ SendFailed
  PROVE  ExposureInv' /\ Retained
<1> USE NilDistinct
<1>0. /\ Running("send") /\ UNCHANGED storeVars
      /\ dispatched' = [dispatched EXCEPT ![Top.id] = @ + 1]
  BY DEF SendAccepted, SendFailed
<1>1. PICK i : i = Top.id
  OBVIOUS
<1>2. /\ i \in IntentIds /\ intents[i].state = "SUBMITTING" /\ dispatched[i] = 0
      /\ agenda # <<>>
  BY <1>0, <1>1, TopCall DEF Typed, IntentOps, EInv, Ready, ReadyCall, Top, Rest, Running
<1>3. Rest \in Seq(FreshLow(dispatched'))
  BY <1>0, SentBelow
<1>4. /\ intents' = intents /\ Symbols \subseteq IntentIds
      /\ orders \in [IntentIds -> Order] /\ orders' \in [IntentIds -> Order]
      /\ orders[i].filled_units = 0
  BY <1>0, <1>2 DEF storeVars, orderVars, IntentIds, EInv, BrokerOK, BrokerTyped, BrokerOrders
<1>5. CASE SendFailed
  <2>1. orders' = orders /\ agenda' = Raise(Rest)
    BY <1>5 DEF SendFailed
  <2>2. Lagging'
    BY <1>4, <2>1 DEF ExposureInv, Lagging
  <2>3. PICK u : u = [intent_id |-> Nil]
    OBVIOUS
  <2>4. u.intent_id \notin Symbols
    BY <2>3
  <2>5. QED
    BY <1>0, <1>3, <2>1, <2>2, <2>4, AnswerExposure DEF ExposureInv
<1>6. CASE SendAccepted
  <2>1. PICK n \in IF Etoro THEN {0} ELSE 0..intents[i].units, protected \in Protection :
          LET o == [state |-> FillState(intents[i].units, n), filled_units |-> n,
                    protected |-> protected]
          IN /\ orders' = [orders EXCEPT ![i] = o]
             /\ agenda' = Raise(Rest) \/ agenda' = <<Apply(ReportAt(i, o, held', clock'))>> \o Rest
    BY <1>1, <1>6 DEF SendAccepted
  <2> DEFINE o == [state |-> FillState(intents[i].units, n), filled_units |-> n,
                   protected |-> protected]
  <2>0. PICK u : u = ReportAt(i, o, held', clock')
    OBVIOUS
  <2>2. u.state = o.state /\ u.filled_units = o.filled_units /\ u.intent_id = i
    BY <2>0 DEF ReportAt
  <2>3. o.state \in {"FILLED", "PARTIALLY_FILLED", "ACKNOWLEDGED"} /\ o.filled_units = n
    BY DEF FillState
  <2>4. /\ orders' = [orders EXCEPT ![i] = o]
        /\ agenda' = Raise(Rest) \/ agenda' = <<Apply(u)>> \o Rest
    BY <2>0, <2>1
  <2> HIDE DEF o
  <2>5. orders'[i] = o /\ \A s \in Symbols : s # i => orders'[s] = orders[s]
    BY <1>2, <1>4, <2>4
  <2>6. o.filled_units \in Nat
    BY <1>2, <1>4, <2>5 DEF Order, Units
  <2>7. Lagging'
    <3>1. i \in Symbols => intents[i].filled_units <= 0
      BY <1>4 DEF ExposureInv, Lagging
    <3>2. intents[i].filled_units \in Nat
      BY <1>2 DEF EInv, IInv, TypeOK, OrderIntent, Units
    <3>3. QED
      BY <1>2, <1>4, <2>3, <2>5, <2>6, <3>1, <3>2 DEF ExposureInv, Lagging
  <2>8. i \in Symbols => Dated(u, i)'
    <3>1. Dated(u, i)' <=>
            /\ u.filled_units <= orders'[i].filled_units
            /\ u.state = "REJECTED" => u.filled_units = 0
            /\ u.state \in {"CANCELLED", "EXPIRED"} /\ u.filled_units = orders'[i].filled_units
                 => orders'[i].state # "PARTIALLY_FILLED"
            /\ u.state = "PARTIALLY_FILLED" /\ intents'[i].state \in {"CANCELLED", "EXPIRED"}
                 => u.filled_units # intents'[i].filled_units
            /\ u.state \in TERMINAL_STATES => ~Live(i)' \/ i \in moved'
      BY DEF Dated
    <3>2. u.state \in TERMINAL_STATES => ~Live(i)'
      BY <2>2, <2>3, <2>5 DEF TERMINAL_STATES, Live
    <3>3. QED
      BY <1>2, <1>4, <2>2, <2>3, <2>5, <2>6, <3>1, <3>2
  <2>9. QED
    BY <1>0, <1>3, <2>2, <2>4, <2>7, <2>8, AnswerExposure DEF ExposureInv
<1>7. QED
  BY <1>5, <1>6

-----------------------------------------------------------------------------
(* What the broker makes of a cancellation of an entry: it ends nothing    *)
(* but the order it was asked to end, and fills nothing.                   *)
LEMMA CancelAnswer ==
  ASSUME NEW o \in Order, o.state # Nil, NEW outcome \in CancelOutcomes(o)
  PROVE  /\ outcome.order.filled_units = o.filled_units
         /\ outcome.order.state \in {o.state, "CANCEL_PENDING", "CANCELLED"}
         /\ outcome.reported \in {"CANCEL_PENDING", "FILLED", "CANCELLED"}
         /\ outcome.reported # "CANCEL_PENDING" => outcome.order.state = outcome.reported
BY CancelOutcome

(* A cancellation is asked for, and answered or lost (engine.py            *)
(* cancel_pending_entries).                                                *)
LEMMA ExposureCancel ==
  ASSUME EInv, EInv', ExposureInv, AskCancel
  PROVE  ExposureInv' /\ Retained
<1> USE NilDistinct
<1>0. /\ Running("ask_cancel") /\ UNCHANGED storeVars /\ dispatched' = dispatched
      /\ agenda \in Stacks /\ agenda \in Seq(Fresh(dispatched)) /\ Accepted(Top.id)
  BY DEF AskCancel, EInv, ExposureInv
<1>1. PICK i : i = Top.id
  OBVIOUS
<1>2. i \in Symbols /\ i \in IntentIds /\ Accepted(i)
  BY <1>0, <1>1, TopCall DEF Typed, IntentIds
<1>3. Rest \in Seq(FreshLow(dispatched'))
  BY <1>0, FreshRest
<1>4. /\ intents' = intents /\ Symbols \subseteq IntentIds
      /\ orders \in [IntentIds -> Order] /\ orders' \in [IntentIds -> Order]
      /\ orders[i] \in Order /\ orders[i].state # Nil
  BY <1>0, <1>2 DEF storeVars, orderVars, IntentIds, EInv, BrokerOK, BrokerTyped, Accepted
<1>5. PICK outcome \in CancelOutcomes(orders[i]) :
        /\ orders' = [orders EXCEPT ![i] = outcome.order]
        /\ \/ agenda' = Raise(Rest)
           \/ agenda' = <<Apply([ReportOn(i, outcome.order) EXCEPT !.state = outcome.reported])>>
                          \o Rest
  BY <1>1 DEF AskCancel
<1>6. PICK u : u = [ReportOn(i, outcome.order) EXCEPT !.state = outcome.reported]
  OBVIOUS
<1>7. /\ orders'[i].filled_units = orders[i].filled_units
      /\ orders'[i].state \in {orders[i].state, "CANCEL_PENDING", "CANCELLED"}
      /\ outcome.reported \in {"CANCEL_PENDING", "FILLED", "CANCELLED"}
      /\ outcome.reported # "CANCEL_PENDING" => orders'[i].state = outcome.reported
      /\ orders'[i] = outcome.order
      /\ \A s \in Symbols : s # i => orders'[s] = orders[s]
  BY <1>2, <1>4, <1>5, CancelAnswer
<1>8. u.intent_id = i /\ u.state = outcome.reported /\ u.filled_units = orders'[i].filled_units
  BY <1>6, <1>7 DEF ReportOn, ReportAt
<1>9. Lagging'
  BY <1>2, <1>4, <1>7 DEF ExposureInv, Lagging
<1>10. Dated(u, i)'
  <2>1. orders'[i].filled_units \in Nat
    BY <1>2, <1>4 DEF Order, Units
  <2>2. u.state \in TERMINAL_STATES => ~Live(i)'
    BY <1>7, <1>8 DEF TERMINAL_STATES, Live
  <2>3. QED
    BY <1>7, <1>8, <2>1, <2>2 DEF Dated
<1>11. agenda' = Raise(Rest) \/ agenda' = <<Apply(u)>> \o Rest
  BY <1>5, <1>6
<1>12. QED
  BY <1>0, <1>3, <1>8, <1>9, <1>10, <1>11, AnswerExposure DEF ExposureInv

(* A query is answered, and the answer booked next (engine.py reconcile).  *)
LEMMA ExposureQuery ==
  ASSUME EInv, ExposureInv, QueryAnswered
  PROVE  ExposureInv' /\ Retained
<1> USE NilDistinct
<1>0. /\ Running("reconcile") /\ UNCHANGED storeVars /\ UNCHANGED brokerVars
      /\ IInv /\ BrokerOK
  BY DEF QueryAnswered, Internal, Local, EInv
<1>1. PICK e \in Top.todo :
        /\ Accepted(e.id)
        /\ \E u \in Answers(e.id) :
             agenda' = <<Apply(u), [Without(e) EXCEPT !.clean = @ /\ u.state # "UNKNOWN"]>> \o Rest
  BY DEF QueryAnswered
<1>2. PICK u \in Answers(e.id) :
        agenda' = <<Apply(u), [Without(e) EXCEPT !.clean = @ /\ u.state # "UNKNOWN"]>> \o Rest
  BY <1>1
<1>3. e.id \in IntentIds
  BY <1>0, <1>1, TopCall DEF Typed, Entries
<1>4. /\ u \in Reports /\ u.intent_id = e.id
      /\ e.id \in Symbols =>
           /\ u.state = orders[e.id].state \/ u.state = "UNKNOWN"
           /\ u.filled_units = orders[e.id].filled_units
  BY <1>0, <1>1, <1>3, AnswersAreReports DEF Kind
<1>5. /\ Apply(u).op = "apply" /\ Apply(u).id = e.id /\ Apply(u).report = u
      /\ Apply(u) \in Fresh(dispatched)
  <2>1. Apply(u) \in Frames /\ Apply(u).op = "apply" /\ Apply(u).id = u.intent_id
        /\ Apply(u).report = u
    BY <1>4, ApplyFrames DEF Apply, Frame
  <2>2. QED
    BY <1>4, <2>1, FreshFrames
<1>6. PICK loop : loop = [Without(e) EXCEPT !.clean = @ /\ u.state # "UNKNOWN"]
  OBVIOUS
<1>7. loop \in FreshLow(dispatched) /\ Rest \in Seq(FreshLow(dispatched))
  <2>1. (Without(e).clean /\ u.state # "UNKNOWN") \in BOOLEAN
    OBVIOUS
  <2>2. QED
    BY <1>0, <1>6, <2>1, FreshLeft DEF Loops
<1>8. e.id \in Symbols => Dated(u, e.id)
  <2>1. orders[e.id].filled_units \in Nat
    BY <1>0, <1>3 DEF BrokerOK, BrokerTyped, Order, Units
  <2>2. /\ "UNKNOWN" \notin TERMINAL_STATES
        /\ orders[e.id].state \in TERMINAL_STATES => ~Live(e.id)
    BY DEF TERMINAL_STATES, Live
  <2>3. QED
    BY <1>4, <2>1, <2>2 DEF Dated, ExposureInv, Lagging
<1>9. (e.id \in Symbols => Dated(u, e.id)) => (e.id \in Symbols => Dated(u, e.id)')
  BY <1>0 DEF Dated, Live, storeVars, orderVars, brokerVars
<1>10. ASSUME NEW below \in Seq(FreshLow(dispatched)), agenda' = <<Apply(u), loop>> \o below
       PROVE  ExposureInv' /\ Retained
  <2>1. /\ <<Apply(u), loop>> \o below = Above(Apply(u), Above(loop, below))
        /\ Above(loop, below) \in Seq(FreshLow(dispatched))
    <3>1. <<Apply(u), loop>> \o below = Above(Apply(u), Above(loop, below))
      BY TwoAbove
    <3>2. QED
      BY <1>7, <3>1, AboveProperties
  <2>2. Tame
    BY <1>0, TameCalls
  <2>3. QED
    BY <1>0, <1>5, <1>8, <1>9, <1>10, <2>1, <2>2, DelicateMove DEF brokerVars
<1>11. QED
  BY <1>2, <1>6, <1>7, <1>10

-----------------------------------------------------------------------------
(* Initially no entry is exposed.                                          *)
LEMMA ExposureInit == Init => ExposureInv
<1>1. SUFFICES ASSUME Init PROVE ExposureInv
  OBVIOUS
<1>2. /\ agenda = <<>> /\ orders = [i \in IntentIds |-> NoOrder]
      /\ intents = [i \in IntentIds |-> NoIntent] /\ positions = [p \in PositionIds |-> NoPosition]
      /\ Symbols \subseteq IntentIds
  BY <1>1 DEF Init, StoreInit, IntentIds
<1>3. Lagging
  BY <1>2, NilDistinct DEF Lagging, NoOrder, NoIntent, OrderState, ACTIVE_STATES, TERMINAL_STATES
<1>4. Exposed \ late_fills = {}
  BY <1>2, NilDistinct DEF Exposed, OpenPositions, Active, NoIntent, NoPosition
<1>5. Limited
  BY <1>4, FS_EmptySet, ExecutorAssumption DEF Limited
<1>6. agenda \in Seq(Fresh(dispatched)) /\ Alone(agenda) /\ Unsubmitted(agenda) /\ Reported(agenda)
  BY <1>2 DEF Alone, Unsubmitted, Reported
<1>7. QED
  BY <1>3, <1>5, <1>6 DEF ExposureInv

(* Every step keeps the limit, and gives up only what is dead.             *)
LEMMA ExposureNext ==
  ASSUME EInv, ExposureInv, [Next]_vars
  PROVE  ExposureInv' /\ (Retained \/ UNCHANGED vars)
<1>0. EInv'
  BY EInvNext
<1>1. CASE UNCHANGED vars
  <2>1. UNCHANGED <<intents, positions, late_fills, orders, dispatched, moved, agenda>>
    BY <1>1 DEF vars, storeVars, orderVars, bookVars, brokerVars
  <2>2. QED
    BY <1>1, <2>1 DEF ExposureInv, Fresh, Alone, Unsubmitted, Reported, Dated, Live, Lagging, Limited,
       Exposed, OpenPositions, Active
<1>2. CASE Operations \/ Crash
  BY <1>2, ExposureOwner
<1>3. CASE BrokerMoves
  BY <1>3, ExposureBroker
<1>4. CASE \/ PauseCall \/ UnreconciledCall \/ ToUnknown \/ SetProtectionCall \/ Release
           \/ EndIncident \/ LoopEnds("recover") \/ LoopEnds("cancel") \/ LoopEnds("flatten")
           \/ Reject \/ ApplyRefused \/ ReconcileEnds \/ AskCancelFailed
           \/ CloseNothing \/ CloseBlocked \/ CloseAfterCancel \/ CloseStillPending
           \/ CloseRefused \/ ConfirmFlat
  BY <1>4, ExposureReturns
<1>5. CASE \/ Recover \/ ReconcileAll \/ QueryUnseen \/ QueryFailed \/ CancelAll
           \/ CancelUnsent \/ CancelSent \/ FlattenAll \/ FlattenNext
  BY <1>5, ExposureLoops
<1>6. CASE Prepare \/ Submit \/ SendRefused \/ CloseCreate \/ CloseRecheck
  BY <1>6, ExposureCalls
<1>7. CASE SendAccepted \/ SendFailed
  BY <1>0, <1>7, ExposureSends
<1>8. CASE ApplyReport
  BY <1>8, ExposureApply
<1>9. CASE AskCancel
  BY <1>0, <1>9, ExposureCancel
<1>10. CASE QueryAnswered
  BY <1>10, ExposureQuery
<1>11. QED
  BY <1>1, <1>2, <1>3, <1>4, <1>5, <1>6, <1>7, <1>8, <1>9, <1>10 DEF Next, ExecutorSteps

(* Open positions and pending entries together never exceed max_positions, *)
(* whatever is in flight, lost or recovered, except for fills that arrive  *)
(* after a cancellation (store.py portfolio, engine.py submit_entry).      *)
THEOREM ExposureIsLimited == Spec => []PositionLimit
<1>1. EInv /\ ExposureInv /\ [Next]_vars => ExposureInv'
  BY ExposureNext
<1>2. ExposureInv => PositionLimit
  BY DEF ExposureInv, Limited, Exposed, PositionLimit
<1>3. QED
  BY <1>1, <1>2, ExposureInit, ExecutorInvariant, PTL DEF Spec

(* No entry is given up, nor its reserved cash and risk, while the broker  *)
(* may still fill it, unless the broker revives or ends it behind the      *)
(* reconciliation that is running (engine.py __enter__, _send, reconcile,  *)
(* cancel_pending_entries).                                                *)
THEOREM GivenUpWhenDead == Spec => ReleasedOnlyWhenDead
<1>1. EInv /\ ExposureInv /\ [Next]_vars => ExposureInv'
  BY ExposureNext
<1>2. EInv /\ ExposureInv /\ [Next]_vars =>
        [\A s \in Symbols : Active(s) /\ ~Active(s)' => ~Live(s) \/ s \in moved]_vars
  BY ExposureNext DEF Retained
<1>3. QED
  BY <1>1, <1>2, ExposureInit, ExecutorInvariant, PTL DEF Spec, ReleasedOnlyWhenDead

=============================================================================
