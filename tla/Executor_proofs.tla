--------------------------- MODULE Executor_proofs ---------------------------
(***************************************************************************)
(* The executor over its store and its broker, for every set of symbols,   *)
(* positions, prices and bounds, every interleaving with the broker's own  *)
(* moves, every lost answer and every crash.                               *)
(*                                                                         *)
(* The call stack is a sequence of typed frames in which some calls occur  *)
(* only at the top (Stacks): they are made and consumed by steps that      *)
(* follow each other, so that between the two the store is not written.    *)
(***************************************************************************)
EXTENDS Executor, StateStore_proofs, SequenceTheorems, FiniteSetTheorems,
        WellFoundedInduction

-----------------------------------------------------------------------------
(* The frames a call stack is made of.                                     *)
PlainOps == {"pause", "unreconciled", "reconcile_all", "cancel_all", "flatten_all",
             "confirm_flat", "end_incident", "release"}
IntentOps == {"prepare", "submit", "send", "sending", "reject", "to_unknown", "cancelling"}

(* Rows a loop read from the store.                                        *)
Entries == [id : IntentIds, state : OrderState]
PendingEntries == [id : Symbols, state : ACTIVE_STATES]
HeldEntries == [id : PositionIds, state : {Nil}]

Plain    == {Call(op) : op \in PlainOps}
OnIntent == {CallOn(op, i) : op \in IntentOps, i \in IntentIds}
OnEntry  == {CallOn("ask_cancel", s) : s \in Symbols}
OnPosition == {CallOn(op, p) : op \in {"close", "close_recheck"}, p \in PositionIds}
Applying == {Apply(u) : u \in Reports}
StopFrame(p, stop) == Frame("set_protection", p, {}, TRUE, stop)
Stopping == {StopFrame(p, stop) : p \in PositionIds, stop \in StopPrices}
LoopFrame(op, todo, clean) == Frame(op, Nil, todo, clean, Nil)
Looping(op, entries) == {LoopFrame(op, todo, clean) : todo \in SUBSET entries, clean \in BOOLEAN}

Settlings == Looping("recover", Entries) \cup Looping("reconcile", Entries)
Cancellings == Looping("cancel", PendingEntries)
Flattenings == Looping("flatten", HeldEntries)

Frames ==
  Plain \cup OnIntent \cup OnEntry \cup OnPosition \cup Applying \cup Stopping
    \cup Settlings \cup Cancellings \cup Flattenings

(* Calls that the very next steps of the executor make and consume, and the *)
(* recovery, which nothing interrupts: they are never below another call.  *)
TopOnly == {"prepare", "submit", "send", "reject", "apply", "ask_cancel", "recover",
            "to_unknown"}
Low == {f \in Frames : f.op \notin TopOnly}

Above(f, below) == <<f>> \o below

(* The stacks of a session that has recovered, or recovers.                *)
Working == Seq(Low) \cup {Above(f, below) : f \in Frames, below \in Seq(Low)}

(* The stacks of __enter__ before its recovery.                            *)
Recovery(todo) == LoopFrame("recover", todo, TRUE)
Entering(todo) ==
  <<Call("pause"), Call("unreconciled"), Recovery(todo), Call("reconcile_all")>>
Entered(todo) == <<Call("unreconciled"), Recovery(todo), Call("reconcile_all")>>
Starting == {Entering(todo) : todo \in SUBSET Entries} \cup {Entered(todo) : todo \in SUBSET Entries}

Stacks == Working \cup Starting

(* What the type of a frame says of its fields.                            *)
Typed(f) ==
  /\ f.op \in Calls /\ f.clean \in BOOLEAN
  /\ f.op \in IntentOps => f.id \in IntentIds
  /\ f.op = "ask_cancel" => f.id \in Symbols
  /\ f.op \in {"close", "close_recheck"} => f.id \in PositionIds
  /\ f.op = "apply" => f.report \in Reports /\ f.id = f.report.intent_id
  /\ f.op = "set_protection" => f.report \in StopPrices /\ f.id \in PositionIds
  /\ f.op \in {"recover", "reconcile"} => f.todo \in SUBSET Entries
  /\ f.op = "cancel" => f.todo \in SUBSET PendingEntries
  /\ f.op = "flatten" => f.todo \in SUBSET HeldEntries
  /\ f.op \notin {"recover", "reconcile", "cancel", "flatten"} => f.todo = {}
  /\ f.op \notin {"apply", "set_protection"} => f.report = Nil
  /\ f.op \notin IntentOps \cup {"ask_cancel", "close", "close_recheck", "apply",
                                 "set_protection"} => f.id = Nil

(* Every call has a field set fit for its operation.                       *)
LEMMA FrameFields ==
  ASSUME NEW f \in Frames
  PROVE  Typed(f)
<1> USE DEF Calls, IntentOps
<1>1. CASE f \in Plain
  <2>1. PICK op \in PlainOps : f = Call(op)
    BY <1>1 DEF Plain
  <2>2. f.op = op /\ f.id = Nil /\ f.todo = {} /\ f.clean = TRUE /\ f.report = Nil
    BY <2>1 DEF Call, Frame
  <2>3. QED
    BY <2>2 DEF PlainOps, Typed
<1>2. CASE f \in OnIntent
  <2>1. PICK op \in IntentOps, i \in IntentIds : f = CallOn(op, i)
    BY <1>2 DEF OnIntent
  <2>2. f.op = op /\ f.id = i /\ f.todo = {} /\ f.clean = TRUE /\ f.report = Nil
    BY <2>1 DEF CallOn, Frame
  <2>3. QED
    BY <2>2 DEF Typed
<1>3. CASE f \in OnEntry
  <2>1. PICK s \in Symbols : f = CallOn("ask_cancel", s)
    BY <1>3 DEF OnEntry
  <2>2. f.op = "ask_cancel" /\ f.id = s /\ f.todo = {} /\ f.clean = TRUE /\ f.report = Nil
    BY <2>1 DEF CallOn, Frame
  <2>3. QED
    BY <2>2 DEF Typed
<1>4. CASE f \in OnPosition
  <2>1. PICK op \in {"close", "close_recheck"}, p \in PositionIds : f = CallOn(op, p)
    BY <1>4 DEF OnPosition
  <2>2. f.op = op /\ f.id = p /\ f.todo = {} /\ f.clean = TRUE /\ f.report = Nil
    BY <2>1 DEF CallOn, Frame
  <2>3. QED
    BY <2>2 DEF Typed
<1>5. CASE f \in Applying
  <2>1. PICK u \in Reports : f = Apply(u)
    BY <1>5 DEF Applying
  <2>2. f.op = "apply" /\ f.id = u.intent_id /\ f.todo = {} /\ f.clean = TRUE /\ f.report = u
    BY <2>1 DEF Apply, Frame
  <2>3. QED
    BY <2>2 DEF Typed
<1>6. CASE f \in Stopping
  <2>1. PICK p \in PositionIds, stop \in StopPrices : f = StopFrame(p, stop)
    BY <1>6 DEF Stopping
  <2>2. f.op = "set_protection" /\ f.id = p /\ f.todo = {} /\ f.clean = TRUE /\ f.report = stop
    BY <2>1 DEF StopFrame, Frame
  <2>3. QED
    BY <2>2 DEF Typed
<1>7. ASSUME NEW op, NEW entries, f \in Looping(op, entries)
      PROVE  /\ f.op = op /\ f.id = Nil /\ f.report = Nil
             /\ f.clean \in BOOLEAN /\ f.todo \in SUBSET entries
  BY <1>7 DEF Looping, LoopFrame, Frame
<1>8. CASE f \in Settlings
  BY <1>7, <1>8 DEF Settlings, Typed
<1>9. CASE f \in Cancellings
  BY <1>7, <1>9 DEF Cancellings, Typed
<1>10. CASE f \in Flattenings
  BY <1>7, <1>10 DEF Flattenings, Typed
<1>11. \/ f \in Plain \/ f \in OnIntent \/ f \in OnEntry \/ f \in OnPosition \/ f \in Applying
       \/ f \in Stopping \/ f \in Settlings \/ f \in Cancellings \/ f \in Flattenings
  BY DEF Frames
<1> HIDE DEF Calls, IntentOps
<1>12. QED
  BY <1>1, <1>2, <1>3, <1>4, <1>5, <1>6, <1>8, <1>9, <1>10, <1>11

(* Frames are what the calls of the executor make.                         *)
LEMMA CallFrames ==
  ASSUME NEW op \in PlainOps
  PROVE  Call(op) \in Low /\ Call(op).op = op
<1>1. Call(op) \in Frames
  BY DEF Frames, Plain
<1>2. Call(op).op = op
  BY DEF Call, Frame
<1>3. QED
  BY <1>1, <1>2 DEF Low, TopOnly, PlainOps

(* A call on an intent (prepare, submit, reject, query, ...) is a frame,   *)
(* and one that may wait below others unless it only ever runs on top.     *)
LEMMA IntentFrames ==
  ASSUME NEW op \in IntentOps, NEW i \in IntentIds
  PROVE  /\ CallOn(op, i) \in Frames /\ CallOn(op, i).op = op /\ CallOn(op, i).id = i
         /\ op \notin TopOnly => CallOn(op, i) \in Low
<1>1. CallOn(op, i) \in Frames
  BY DEF Frames, OnIntent
<1>2. CallOn(op, i).op = op /\ CallOn(op, i).id = i
  BY DEF CallOn, Frame
<1>3. QED
  BY <1>1, <1>2 DEF Low

(* A call of close_owned on a position may wait below others.              *)
LEMMA PositionFrames ==
  ASSUME NEW op \in {"close", "close_recheck"}, NEW p \in PositionIds
  PROVE  CallOn(op, p) \in Low /\ CallOn(op, p).op = op /\ CallOn(op, p).id = p
<1>1. CallOn(op, p) \in Frames
  BY DEF Frames, OnPosition
<1>2. CallOn(op, p).op = op /\ CallOn(op, p).id = p
  BY DEF CallOn, Frame
<1>3. QED
  BY <1>1, <1>2 DEF Low, TopOnly

(* The request to cancel an entry is a frame.                              *)
LEMMA AskFrames ==
  ASSUME NEW s \in Symbols
  PROVE  /\ CallOn("ask_cancel", s) \in Frames
         /\ CallOn("ask_cancel", s).op = "ask_cancel" /\ CallOn("ask_cancel", s).id = s
  BY DEF Frames, OnEntry, CallOn, Frame

(* The call that books a report is a frame and carries that report.        *)
LEMMA ApplyFrames ==
  ASSUME NEW u \in Reports
  PROVE  /\ Apply(u) \in Frames /\ Apply(u).op = "apply"
         /\ Apply(u).id = u.intent_id /\ Apply(u).report = u
  BY DEF Frames, Applying, Apply, Frame

(* The call that records a stop may wait below others.                     *)
LEMMA StopFrames ==
  ASSUME NEW p \in PositionIds, NEW stop \in StopPrices
  PROVE  /\ StopFrame(p, stop) \in Low
         /\ StopFrame(p, stop).op = "set_protection"
<1>1. StopFrame(p, stop) \in Frames
  BY DEF Frames, Stopping
<1>2. StopFrame(p, stop).op = "set_protection"
  BY DEF StopFrame, Frame
<1>3. QED
  BY <1>1, <1>2 DEF Low, TopOnly

(* What each loop may still have to do.                                    *)
LoopEntries(op) ==
  CASE op \in {"recover", "reconcile"} -> Entries
    [] op = "cancel" -> PendingEntries
    [] OTHER -> HeldEntries

Loops == {"recover", "reconcile", "cancel", "flatten"}

(* The loops over the open intents and positions keep what is left to do;  *)
(* only the loop of __enter__ never waits below another call.              *)
LEMMA LoopFrames ==
  ASSUME NEW op \in Loops, NEW todo \in SUBSET LoopEntries(op), NEW clean \in BOOLEAN
  PROVE  /\ LoopFrame(op, todo, clean) \in Frames
         /\ op # "recover" => LoopFrame(op, todo, clean) \in Low
         /\ LoopFrame(op, todo, clean).op = op
         /\ LoopFrame(op, todo, clean).todo = todo
         /\ LoopFrame(op, todo, clean).clean = clean
<1>1. LoopFrame(op, todo, clean) \in Looping(op, LoopEntries(op))
  BY DEF Looping
<1>2. Looping(op, LoopEntries(op)) \subseteq Frames
  BY DEF Frames, Settlings, Cancellings, Flattenings, Loops, LoopEntries
<1>3. /\ LoopFrame(op, todo, clean).op = op
      /\ LoopFrame(op, todo, clean).todo = todo
      /\ LoopFrame(op, todo, clean).clean = clean
  BY DEF LoopFrame, Frame
<1>4. QED
  BY <1>1, <1>2, <1>3 DEF Low, TopOnly, Loops

(* A loop that loses an entry or its cleanness is still that loop.         *)
LEMMA LoopGoesOn ==
  ASSUME NEW f \in Frames, f.op \in Loops, NEW todo \in SUBSET f.todo, NEW clean \in BOOLEAN
  PROVE  LET left == [f EXCEPT !.todo = todo]
             unclean == [f EXCEPT !.clean = clean]
         IN /\ left \in Frames /\ left.op = f.op /\ left.todo = todo /\ left.clean = f.clean
            /\ unclean \in Frames /\ unclean.op = f.op /\ unclean.todo = f.todo
            /\ unclean.clean = clean
            /\ f.op # "recover" => left \in Low /\ unclean \in Low
<1>1. /\ f.op # "ask_cancel" /\ f.op # "apply" /\ f.op # "set_protection"
      /\ f.op \notin PlainOps /\ f.op \notin IntentOps /\ f.op \notin {"close", "close_recheck"}
  BY DEF Loops, PlainOps, IntentOps
<1>2. f \notin Plain /\ f \notin OnIntent
  BY <1>1 DEF Plain, OnIntent, Call, CallOn, Frame
<1>3. f \notin OnEntry /\ f \notin OnPosition
  BY <1>1 DEF OnEntry, OnPosition, CallOn, Frame
<1>4. f \notin Applying /\ f \notin Stopping
  BY <1>1 DEF Applying, Stopping, StopFrame, Apply, Frame
<1>5. \/ f \in Looping("recover", Entries) \/ f \in Looping("reconcile", Entries)
      \/ f \in Looping("cancel", PendingEntries) \/ f \in Looping("flatten", HeldEntries)
  BY <1>2, <1>3, <1>4 DEF Frames, Settlings, Cancellings, Flattenings
<1>6. ASSUME NEW op, NEW entries, f \in Looping(op, entries)
      PROVE  /\ f = Frame(op, Nil, f.todo, f.clean, Nil)
             /\ f.op = op /\ f.todo \in SUBSET entries /\ f.clean \in BOOLEAN
  BY <1>6 DEF Looping, LoopFrame, Frame
<1>7. /\ f = Frame(f.op, Nil, f.todo, f.clean, Nil)
      /\ f.todo \in SUBSET LoopEntries(f.op) /\ f.clean \in BOOLEAN
  <2>1. CASE f \in Looping("recover", Entries)
    BY <2>1, <1>6 DEF LoopEntries
  <2>2. CASE f \in Looping("reconcile", Entries)
    BY <2>2, <1>6 DEF LoopEntries
  <2>3. CASE f \in Looping("cancel", PendingEntries)
    BY <2>3, <1>6 DEF LoopEntries
  <2>4. CASE f \in Looping("flatten", HeldEntries)
    BY <2>4, <1>6 DEF LoopEntries
  <2>5. QED
    BY <1>5, <2>1, <2>2, <2>3, <2>4
<1>8. ASSUME NEW g, NEW op, NEW some, NEW c, g = Frame(op, Nil, some, c, Nil)
      PROVE  [g EXCEPT !.todo = todo] = Frame(op, Nil, todo, c, Nil)
  BY <1>8 DEF Frame
<1>9. ASSUME NEW g, NEW op, NEW some, NEW c, g = Frame(op, Nil, some, c, Nil)
      PROVE  [g EXCEPT !.clean = clean] = Frame(op, Nil, some, clean, Nil)
  BY <1>9 DEF Frame
<1>10. todo \in SUBSET LoopEntries(f.op)
  BY <1>7
<1>11. /\ [f EXCEPT !.todo = todo] = LoopFrame(f.op, todo, f.clean)
       /\ [f EXCEPT !.clean = clean] = LoopFrame(f.op, f.todo, clean)
  BY <1>7, <1>8, <1>9 DEF LoopFrame
<1>12. QED
  BY <1>7, <1>10, <1>11, LoopFrames

-----------------------------------------------------------------------------
(* Call stacks.                                                            *)

(* A frame on a stack is its top, and the stack is the rest.               *)
LEMMA AboveProperties ==
  ASSUME NEW L, NEW f, NEW below \in Seq(L)
  PROVE  /\ Above(f, below) # <<>> /\ Head(Above(f, below)) = f
         /\ Tail(Above(f, below)) = below /\ Len(Above(f, below)) = Len(below) + 1
         /\ f \in L => Above(f, below) \in Seq(L)
<1> DEFINE K == L \cup {f}
<1>1. <<f>> \in Seq(K) /\ below \in Seq(K) /\ Len(<<f>>) = 1 /\ <<f>>[1] = f
  OBVIOUS
<1>2. /\ Above(f, below) \in Seq(K)
      /\ Len(Above(f, below)) = Len(below) + 1
      /\ \A k \in 1..(Len(below) + 1) :
           Above(f, below)[k] = IF k <= 1 THEN f ELSE below[k - 1]
  BY <1>1, ConcatProperties, LenProperties DEF Above
<1>3. QED
  BY <1>1, <1>2

(* Several calls made at once are stacked one above the other.             *)
LEMMA Pair ==
  ASSUME NEW f, NEW g
  PROVE  <<f, g>> = <<f>> \o <<g>>
<1> DEFINE K == {f, g}
<1>1. <<f>> \in Seq(K) /\ <<g>> \in Seq(K)
  OBVIOUS
<1>2. Len(<<f>>) = 1 /\ Len(<<g>>) = 1 /\ <<f>>[1] = f /\ <<g>>[1] = g
  OBVIOUS
<1>3. /\ <<f>> \o <<g>> \in Seq(K) /\ Len(<<f>> \o <<g>>) = 2
      /\ (<<f>> \o <<g>>)[1] = f /\ (<<f>> \o <<g>>)[2] = g
  BY <1>1, <1>2, ConcatProperties
<1>4. ASSUME NEW s \in Seq(K), Len(s) = 2 PROVE s = <<s[1], s[2]>>
  BY <1>4
<1>5. QED
  BY <1>3, <1>4

(* Putting two calls on the stack puts one above the other.                *)
LEMMA TwoAbove ==
  ASSUME NEW L, NEW f, NEW g, NEW below \in Seq(L)
  PROVE  <<f, g>> \o below = Above(f, Above(g, below))
<1> DEFINE K == L \cup {f, g}
<1>1. <<f>> \in Seq(K) /\ <<g>> \in Seq(K) /\ below \in Seq(K)
  OBVIOUS
<1>2. <<f, g>> = <<f>> \o <<g>>
  BY Pair
<1>3. QED
  BY <1>1, <1>2, ConcatAssociative DEF Above

(* Putting three calls on the stack puts them one above the other.         *)
LEMMA ThreeAbove ==
  ASSUME NEW L, NEW f, NEW g, NEW h, NEW below \in Seq(L)
  PROVE  <<f, g, h>> \o below = Above(f, Above(g, Above(h, below)))
<1> DEFINE K == L \cup {f, g, h}
<1>1. <<f>> \in Seq(K) /\ <<g, h>> \in Seq(K) /\ below \in Seq(K)
  OBVIOUS
<1>2. <<f, g, h>> = <<f>> \o <<g, h>>
  OBVIOUS
<1>3. <<g, h>> \o below = Above(g, Above(h, below))
  BY TwoAbove
<1>4. QED
  BY <1>1, <1>2, <1>3, ConcatAssociative DEF Above

(* A stack with calls under way is its topmost call above the others.      *)
LEMMA TopAndRest ==
  ASSUME NEW L, NEW s \in Seq(L), s # <<>>
  PROVE  /\ Head(s) \in L /\ Tail(s) \in Seq(L) /\ s = Above(Head(s), Tail(s))
<1>1. Head(s) \in L /\ Tail(s) \in Seq(L)
  BY HeadTailProperties
<1>2. SubSeq(s, 1, Len(s)) = s /\ Len(s) \in Nat \ {0}
  BY SubSeqFull, EmptySeq
<1>3. s = <<s[1]>> \o SubSeq(s, 2, Len(s))
  BY <1>2, SubSeqRecursiveFirst
<1>4. QED
  BY <1>1, <1>3, TailIsSubSeq DEF Above

(* A call of reconcile() is under way.                                     *)
Reconciling(s) == \E k \in 1..Len(s) : s[k].op = "reconcile"

(* A call that is not reconcile() hides no reconcile() below it.           *)
LEMMA ReconcilingAbove ==
  ASSUME NEW L, NEW f, NEW below \in Seq(L)
  PROVE  Reconciling(Above(f, below)) <=> f.op = "reconcile" \/ Reconciling(below)
<1> DEFINE K == L \cup {f}
<1>1. <<f>> \in Seq(K) /\ below \in Seq(K) /\ Len(<<f>>) = 1 /\ <<f>>[1] = f
  OBVIOUS
<1>2. /\ Len(Above(f, below)) = Len(below) + 1 /\ Len(below) \in Nat
      /\ \A k \in 1..(Len(below) + 1) :
           Above(f, below)[k] = IF k <= 1 THEN f ELSE below[k - 1]
  BY <1>1, ConcatProperties, LenProperties DEF Above
<1>3. ASSUME NEW k \in 1..Len(below)
      PROVE  Above(f, below)[k + 1] = below[k] /\ k + 1 \in 1..(Len(below) + 1)
  BY <1>2
<1>4. ASSUME NEW k \in 1..(Len(below) + 1), k # 1
      PROVE  Above(f, below)[k] = below[k - 1] /\ k - 1 \in 1..Len(below)
  <2>1. Above(f, below)[k] = IF k <= 1 THEN f ELSE below[k - 1]
    BY <1>2
  <2>2. ~(k <= 1) /\ k - 1 \in 1..Len(below)
    BY <1>2, <1>4
  <2>3. QED
    BY <2>1, <2>2
<1>5. Above(f, below)[1] = f /\ 1 \in 1..(Len(below) + 1)
  BY <1>2
<1>6. ASSUME Reconciling(Above(f, below)) PROVE f.op = "reconcile" \/ Reconciling(below)
  <2>1. PICK k \in 1..(Len(below) + 1) : Above(f, below)[k].op = "reconcile"
    BY <1>2, <1>6 DEF Reconciling
  <2>2. CASE k = 1
    BY <2>1, <2>2, <1>5
  <2>3. CASE k # 1
    BY <2>1, <2>3, <1>4 DEF Reconciling
  <2>4. QED
    BY <2>2, <2>3
<1>7. ASSUME Reconciling(below) PROVE Reconciling(Above(f, below))
  <2>1. PICK k \in 1..Len(below) : below[k].op = "reconcile"
    BY <1>7 DEF Reconciling
  <2>2. Above(f, below)[k + 1].op = "reconcile" /\ k + 1 \in 1..Len(Above(f, below))
    BY <2>1, <1>2, <1>3
  <2>3. QED
    BY <2>2 DEF Reconciling
<1>8. ASSUME f.op = "reconcile" PROVE Reconciling(Above(f, below))
  BY <1>2, <1>5, <1>8 DEF Reconciling
<1>9. QED
  BY <1>6, <1>7, <1>8

(* A set of naturals has a least element.                                  *)
LEMMA LeastElement ==
  ASSUME NEW S \in SUBSET Nat, S # {}
  PROVE  \E k \in S : \A l \in S : k <= l
<1> DEFINE Less == OpToRel(<, Nat)
<1>1. PICK k \in S : \A l \in S : ~ (<<l, k>> \in Less)
  BY NatLessThanWellFounded, WFMin
<1>2. \A l \in Nat : l < k => <<l, k>> \in Less
  BY <1>1 DEF OpToRel
<1> HIDE DEF Less
<1>3. ASSUME NEW l \in S PROVE k <= l
  <2>1. l \in Nat /\ k \in Nat
    OBVIOUS
  <2>2. ~ (l < k)
    BY <1>1, <1>2, <2>1
  <2>3. QED
    BY <2>1, <2>2
<1>4. QED
  BY <1>1, <1>3

(* Where an exception leads: out of the operation, into the loop of         *)
(* reconcile(), or into a handler that makes the intent UNKNOWN and blocks. *)
(* A reconcile() under way is never abandoned.                             *)
Interrupted(i, guard, below) == Above(CallOn("to_unknown", i), AmbiguityCalls(guard) \o below)

(* The three ends of an exception: no handler and the operation is         *)
(* abandoned, the loop of reconcile(), or the handler that makes the intent*)
(* UNKNOWN.                                                                *)
LEMMA Raises ==
  ASSUME NEW L \in SUBSET Low, NEW s \in Seq(L)
  PROVE  \/ Raise(s) = <<>> /\ ~Reconciling(s)
         \/ \E f \in L, below \in Seq(L) :
              f.op = "reconcile" /\ Raise(s) = Above([f EXCEPT !.clean = FALSE], below)
         \/ \E i \in IntentIds, guard \in Guards, below \in Seq(L) :
              /\ Raise(s) = Interrupted(i, guard, below)
              /\ Reconciling(s) => Reconciling(below)
<1> DEFINE found == {k \in 1..Len(s) : s[k].op \in Handlers}
           least == CHOOSE k \in found : \A l \in found : k <= l
           handler == s[least]
           below == SubSeq(s, least + 1, Len(s))
<1>1. Len(s) \in Nat /\ \A k \in 1..Len(s) : s[k] \in L
  BY LenProperties, ElementOfSeq
<1>2. CASE found = {}
  <2>1. Raise(s) = <<>>
    BY <1>2 DEF Raise
  <2>2. ~Reconciling(s)
    BY <1>2 DEF Reconciling, Handlers
  <2>3. QED
    BY <2>1, <2>2
<1>3. CASE found # {}
  <2>1. \E k \in found : \A l \in found : k <= l
    <3>1. found \in SUBSET Nat
      BY <1>1
    <3> HIDE DEF found
    <3>2. QED
      BY <3>1, <1>3, LeastElement
  <2>2. least \in found /\ \A l \in found : least <= l
    <3> HIDE DEF found
    <3>1. QED
      BY <2>1
  <2>3. least \in 1..Len(s) /\ handler \in L /\ handler.op \in Handlers
    BY <2>2, <1>1
  <2>4. Raise(s) = IF handler.op = "reconcile" THEN <<[handler EXCEPT !.clean = FALSE]>> \o below
                   ELSE <<CallOn("to_unknown", handler.id)>> \o AmbiguityCalls(handler.op) \o below
    BY <1>3 DEF Raise
  <2> HIDE DEF handler, below, least
  <2>5. /\ below \in Seq(L)
        /\ Len(below) = IF least + 1 <= Len(s) THEN Len(s) - (least + 1) + 1 ELSE 0
        /\ \A k \in 1..(Len(s) - (least + 1) + 1) : below[k] = s[(least + 1) + k - 1]
    <3>1. least + 1 \in Int /\ Len(s) \in Int /\ \A k \in (least + 1)..Len(s) : s[k] \in L
      BY <1>1, <2>3
    <3>2. QED
      BY <3>1, SubSeqProperties DEF below
  <2>6. CASE handler.op = "reconcile"
    BY <2>3, <2>4, <2>5, <2>6 DEF Above
  <2>7. CASE handler.op # "reconcile"
    <3>1. handler.op \in Guards /\ handler \in Frames
      BY <2>3, <2>7 DEF Handlers, Low
    <3>2. handler.id \in IntentIds
      BY <3>1, FrameFields DEF Typed, IntentOps, Guards
    <3>3. ASSUME Reconciling(s) PROVE Reconciling(below)
      <4>1. PICK j \in 1..Len(s) : s[j].op = "reconcile"
        BY <3>3 DEF Reconciling
      <4>2. j \in found /\ j # least
        BY <4>1, <2>7 DEF Handlers, handler
      <4>3. j > least /\ j \in Int /\ least \in Int
        BY <4>1, <4>2, <2>2, <2>3
      <4>4. /\ j - least \in 1..(Len(s) - (least + 1) + 1)
            /\ (least + 1) + (j - least) - 1 = j
        BY <4>1, <4>3, <1>1
      <4>5. below[j - least].op = "reconcile"
        BY <4>1, <4>4, <2>5
      <4>6. j - least \in 1..Len(below)
        BY <4>3, <4>4, <2>5, <1>1
      <4>7. QED
        BY <4>5, <4>6 DEF Reconciling
    <3>4. Raise(s) = Interrupted(handler.id, handler.op, below)
      <4>1. Raise(s) = <<CallOn("to_unknown", handler.id)>> \o AmbiguityCalls(handler.op) \o below
        BY <2>4, <2>7
      <4>2. CallOn("to_unknown", handler.id) \in Frames
        BY <3>2, IntentFrames DEF IntentOps
      <4>3. AmbiguityCalls(handler.op) \in Seq(Frames)
        <5>1. Call("pause") \in Frames /\ Call("unreconciled") \in Frames
          BY CallFrames DEF PlainOps, Low
        <5>2. QED
          BY <5>1 DEF AmbiguityCalls
      <4>4. below \in Seq(Frames) /\ <<CallOn("to_unknown", handler.id)>> \in Seq(Frames)
        <5>1. L \subseteq Frames
          BY DEF Low
        <5>2. below \in Seq(Frames)
          BY <5>1, <2>5, SeqMonotonic
        <5>3. QED
          BY <5>2, <4>2
      <4>5. QED
        BY <4>1, <4>3, <4>4, ConcatAssociative DEF Interrupted, Above
    <3>5. QED
      BY <3>1, <3>2, <3>3, <3>4, <2>5
  <2>8. QED
    BY <2>6, <2>7
<1>4. QED
  BY <1>2, <1>3

(* The handlers of an ambiguous call pause and unreconcile, in some order. *)
LEMMA Ambiguity ==
  ASSUME NEW L \in SUBSET Low, Call("pause") \in L, Call("unreconciled") \in L,
         NEW guard, NEW below \in Seq(L)
  PROVE  /\ AmbiguityCalls(guard) \o below \in Seq(L)
         /\ Reconciling(below) => Reconciling(AmbiguityCalls(guard) \o below)
         /\ \/ AmbiguityCalls(guard) \o below
                 = Above(Call("pause"), Above(Call("unreconciled"), below))
            \/ AmbiguityCalls(guard) \o below
                 = Above(Call("unreconciled"), Above(Call("pause"), below))
<1>1. \/ AmbiguityCalls(guard) = <<Call("pause"), Call("unreconciled")>>
      \/ AmbiguityCalls(guard) = <<Call("unreconciled"), Call("pause")>>
  BY DEF AmbiguityCalls
<1>2. ASSUME NEW f \in L, NEW g \in L
      PROVE  /\ <<f, g>> \o below = Above(f, Above(g, below))
             /\ <<f, g>> \o below \in Seq(L)
             /\ Reconciling(below) => Reconciling(<<f, g>> \o below)
  <2>1. <<f, g>> \o below = Above(f, Above(g, below))
    BY TwoAbove
  <2>2. Above(g, below) \in Seq(L) /\ (Reconciling(below) => Reconciling(Above(g, below)))
    BY AboveProperties, ReconcilingAbove
  <2> DEFINE lower == Above(g, below)
  <2> HIDE DEF lower
  <2>3. Above(f, lower) \in Seq(L) /\ (Reconciling(lower) => Reconciling(Above(f, lower)))
    BY <2>2, AboveProperties, ReconcilingAbove DEF lower
  <2>4. QED
    BY <2>1, <2>2, <2>3 DEF lower
<1>3. QED
  BY <1>1, <1>2

(* An exception leaves a working stack, topped by a handler if any.        *)
LEMMA RaiseWorks ==
  ASSUME NEW s \in Seq(Low)
  PROVE  /\ Raise(s) \in Working
         /\ Raise(s) # <<>> => Head(Raise(s)).op \in {"reconcile", "to_unknown"}
         /\ Reconciling(s) => Reconciling(Raise(s))
<1>1. Call("pause") \in Low /\ Call("unreconciled") \in Low
  BY CallFrames DEF PlainOps
<1>2. CASE Raise(s) = <<>> /\ ~Reconciling(s)
  BY <1>2 DEF Working
<1>3. ASSUME NEW f \in Low, NEW below \in Seq(Low), f.op = "reconcile",
             Raise(s) = Above([f EXCEPT !.clean = FALSE], below)
      PROVE  /\ Raise(s) \in Working /\ Head(Raise(s)).op = "reconcile"
             /\ Reconciling(Raise(s))
  <2> DEFINE g == [f EXCEPT !.clean = FALSE]
  <2>1. f \in Frames /\ f.op \in Loops /\ f.todo \in SUBSET f.todo /\ FALSE \in BOOLEAN
    BY <1>3 DEF Low, Loops
  <2>2. g \in Frames /\ g.op = "reconcile"
    BY <2>1, <1>3, LoopGoesOn
  <2> HIDE DEF g
  <2>3. Raise(s) = Above(g, below)
    BY <1>3 DEF g
  <2>4. QED
    BY <2>2, <2>3, AboveProperties, ReconcilingAbove DEF Working
<1>4. ASSUME NEW i \in IntentIds, NEW guard \in Guards, NEW below \in Seq(Low),
             Raise(s) = Interrupted(i, guard, below),
             Reconciling(s) => Reconciling(below)
      PROVE  /\ Raise(s) \in Working /\ Head(Raise(s)).op = "to_unknown"
             /\ Reconciling(s) => Reconciling(Raise(s))
  <2> DEFINE calls == AmbiguityCalls(guard) \o below
  <2>1. calls \in Seq(Low) /\ (Reconciling(below) => Reconciling(calls))
    BY <1>1, Ambiguity
  <2>2. CallOn("to_unknown", i) \in Frames /\ CallOn("to_unknown", i).op = "to_unknown"
    BY IntentFrames DEF IntentOps
  <2> HIDE DEF calls
  <2>3. Raise(s) = Above(CallOn("to_unknown", i), calls)
    BY <1>4 DEF Interrupted, calls
  <2>4. Raise(s) \in Working /\ Head(Raise(s)).op = "to_unknown"
    BY <2>1, <2>2, <2>3, AboveProperties DEF Working
  <2>5. Reconciling(calls) => Reconciling(Raise(s))
    BY <2>1, <2>3, ReconcilingAbove
  <2>6. QED
    BY <1>4, <2>1, <2>4, <2>5
<1>5. \/ Raise(s) = <<>> /\ ~Reconciling(s)
      \/ \E f \in Low, below \in Seq(Low) :
           f.op = "reconcile" /\ Raise(s) = Above([f EXCEPT !.clean = FALSE], below)
      \/ \E i \in IntentIds, guard \in Guards, below \in Seq(Low) :
           /\ Raise(s) = Interrupted(i, guard, below)
           /\ Reconciling(s) => Reconciling(below)
  BY Raises
<1>6. CASE \E f \in Low, below \in Seq(Low) :
             f.op = "reconcile" /\ Raise(s) = Above([f EXCEPT !.clean = FALSE], below)
  BY <1>3, <1>6
<1>7. CASE \E i \in IntentIds, guard \in Guards, below \in Seq(Low) :
             /\ Raise(s) = Interrupted(i, guard, below)
             /\ Reconciling(s) => Reconciling(below)
  BY <1>4, <1>7
<1>8. QED
  BY <1>2, <1>5, <1>6, <1>7

(* The topmost call of a working stack, and what is below it.              *)
LEMMA WorkingTop ==
  ASSUME NEW s \in Working, s # <<>>
  PROVE  Head(s) \in Frames /\ Tail(s) \in Seq(Low) /\ s = Above(Head(s), Tail(s))
<1>1. CASE s \in Seq(Low)
  BY <1>1, TopAndRest DEF Low
<1>2. ASSUME NEW f \in Frames, NEW below \in Seq(Low), s = Above(f, below)
      PROVE  Head(s) = f /\ Tail(s) = below
  BY <1>2, AboveProperties
<1>3. CASE s \in {Above(f, below) : f \in Frames, below \in Seq(Low)}
  <2>1. PICK f \in Frames, below \in Seq(Low) : s = Above(f, below)
    BY <1>3
  <2>2. Head(s) = f /\ Tail(s) = below
    BY <1>2, <2>1
  <2>3. QED
    BY <2>1, <2>2
<1>4. QED
  BY <1>1, <1>3 DEF Working

(* Starting stacks: their topmost call pauses or unreconciles.             *)
LEMMA StartingStacks ==
  ASSUME NEW s \in Starting
  PROVE  /\ s # <<>> /\ ~Reconciling(s) /\ Tail(s) # <<>>
         /\ \/ /\ Head(s).op = "pause" /\ Tail(s) \in Starting
               /\ Head(Tail(s)).op = "unreconciled"
            \/ /\ Head(s).op = "unreconciled" /\ Tail(s) \in Working
               /\ Head(Tail(s)).op = "recover"
<1>1. /\ Call("pause").op = "pause" /\ Call("unreconciled").op = "unreconciled"
      /\ Call("reconcile_all") \in Low /\ Call("reconcile_all").op = "reconcile_all"
  BY CallFrames DEF PlainOps
<1>2. ASSUME NEW todo \in SUBSET Entries
      PROVE  /\ Recovery(todo) \in Frames /\ Recovery(todo).op = "recover"
             /\ <<Recovery(todo), Call("reconcile_all")>> \in Working
  <2>1. Recovery(todo) \in Frames /\ Recovery(todo).op = "recover"
    BY LoopFrames DEF Recovery, Loops, LoopEntries
  <2>2. <<Recovery(todo), Call("reconcile_all")>> = Above(Recovery(todo), <<Call("reconcile_all")>>)
    BY Pair DEF Above
  <2>3. <<Call("reconcile_all")>> \in Seq(Low)
    BY <1>1
  <2>4. QED
    BY <2>1, <2>2, <2>3 DEF Working
<1>3. ASSUME NEW todo \in SUBSET Entries, s = Entered(todo)
      PROVE  /\ s # <<>> /\ ~Reconciling(s) /\ Tail(s) # <<>>
             /\ Head(s).op = "unreconciled" /\ Tail(s) \in Working
             /\ Head(Tail(s)).op = "recover"
  <2>1. /\ s # <<>> /\ Head(s) = Call("unreconciled") /\ Len(s) = 3
        /\ Tail(s) = <<Recovery(todo), Call("reconcile_all")>>
    BY <1>3 DEF Entered
  <2>2. s[1] = Call("unreconciled") /\ s[2] = Recovery(todo) /\ s[3] = Call("reconcile_all")
    BY <1>3 DEF Entered
  <2>3. ~Reconciling(s)
    <3>1. s[1].op # "reconcile" /\ s[2].op # "reconcile" /\ s[3].op # "reconcile"
      BY <2>2, <1>1, <1>2
    <3>2. \A k \in 1..Len(s) : k = 1 \/ k = 2 \/ k = 3
      BY <2>1
    <3>3. QED
      BY <3>1, <3>2 DEF Reconciling
  <2>4. Tail(s) # <<>> /\ Head(Tail(s)) = Recovery(todo)
    <3>1. ASSUME NEW f, NEW g PROVE <<f, g>> # <<>> /\ Head(<<f, g>>) = f
      OBVIOUS
    <3>2. QED
      BY <2>1, <3>1
  <2>5. QED
    BY <1>1, <1>2, <2>1, <2>3, <2>4
<1>4. ASSUME NEW todo \in SUBSET Entries, s = Entering(todo)
      PROVE  /\ s # <<>> /\ ~Reconciling(s) /\ Tail(s) # <<>>
             /\ Head(s).op = "pause" /\ Tail(s) \in Starting
             /\ Head(Tail(s)).op = "unreconciled"
  <2>1. s # <<>> /\ Head(s) = Call("pause") /\ Len(s) = 4 /\ Tail(s) = Entered(todo)
    BY <1>4 DEF Entering, Entered
  <2>2. /\ s[1] = Call("pause") /\ s[2] = Call("unreconciled") /\ s[3] = Recovery(todo)
        /\ s[4] = Call("reconcile_all")
    BY <1>4 DEF Entering
  <2>3. ~Reconciling(s)
    <3>1. /\ s[1].op # "reconcile" /\ s[2].op # "reconcile" /\ s[3].op # "reconcile"
          /\ s[4].op # "reconcile"
      BY <2>2, <1>1, <1>2
    <3>2. \A k \in 1..Len(s) : k = 1 \/ k = 2 \/ k = 3 \/ k = 4
      BY <2>1
    <3>3. QED
      BY <3>1, <3>2 DEF Reconciling
  <2>4. Entered(todo) # <<>> /\ Head(Entered(todo)) = Call("unreconciled")
    BY DEF Entered
  <2>5. QED
    BY <1>1, <2>1, <2>3, <2>4 DEF Starting
<1>5. QED
  BY <1>3, <1>4 DEF Starting

(* A call of a stack that is not starting: what is below it can be gone     *)
(* back to.                                                                *)
LEMMA Topmost ==
  ASSUME agenda \in Stacks, agenda # <<>>, Top.op \notin {"pause", "unreconciled"}
  PROVE  /\ agenda \in Working /\ Top \in Frames /\ Typed(Top) /\ Rest \in Seq(Low)
         /\ agenda = Above(Top, Rest)
<1>1. agenda \in Working
  BY StartingStacks DEF Stacks, Top
<1>2. Top \in Frames /\ Rest \in Seq(Low) /\ agenda = Above(Top, Rest)
  BY <1>1, WorkingTop DEF Top, Rest
<1>3. QED
  BY <1>1, <1>2, FrameFields

(* A call returns, or makes others.                                        *)
LEMMA Returns ==
  ASSUME NEW L, Rest \in Seq(L)
  PROVE  /\ Then(<<>>) \in Seq(L)
         /\ Reconciling(Rest) => Reconciling(Then(<<>>))
<1>1. CASE Rest # <<>> /\ Head(Rest).op \in Guards
  <2>1. Then(<<>>) = Tail(Rest)
    BY <1>1 DEF Then
  <2>2. /\ Head(Rest) \in L /\ Tail(Rest) \in Seq(L)
        /\ Rest = Above(Head(Rest), Tail(Rest))
    BY <1>1, TopAndRest
  <2>3. Reconciling(Rest) => Reconciling(Tail(Rest))
    BY <1>1, <2>2, ReconcilingAbove DEF Guards
  <2>4. QED
    BY <2>1, <2>2, <2>3
<1>2. CASE ~(Rest # <<>> /\ Head(Rest).op \in Guards)
  <2>1. Then(<<>>) = Rest
    BY <1>2 DEF Then
  <2>2. QED
    BY <2>1
<1>3. QED
  BY <1>1, <1>2

(* A call made in the middle of an operation runs before the rest of it.   *)
LEMMA Calls1 ==
  ASSUME NEW f
  PROVE  Then(<<f>>) = Above(f, Rest)
  BY DEF Then, Above

(* Two calls made in a row run in that order, before the rest.             *)
LEMMA Calls2 ==
  ASSUME NEW L, NEW f \in L, NEW g \in L, Rest \in Seq(L)
  PROVE  /\ Then(<<f, g>>) \in Seq(L)
         /\ Reconciling(Rest) => Reconciling(Then(<<f, g>>))
         /\ Then(<<f, g>>) = Above(f, Above(g, Rest))
<1>1. Then(<<f, g>>) = <<f, g>> \o Rest
  BY DEF Then
<1>2. Then(<<f, g>>) = Above(f, Above(g, Rest))
  <2>1. ASSUME NEW below \in Seq(L) PROVE <<f, g>> \o below = Above(f, Above(g, below))
    BY TwoAbove
  <2>2. QED
    BY <1>1, <2>1
<1>3. Above(g, Rest) \in Seq(L) /\ (Reconciling(Rest) => Reconciling(Above(g, Rest)))
  BY AboveProperties, ReconcilingAbove
<1> DEFINE lower == Above(g, Rest)
<1> HIDE DEF lower
<1>4. Above(f, lower) \in Seq(L) /\ (Reconciling(lower) => Reconciling(Above(f, lower)))
  BY <1>3, AboveProperties, ReconcilingAbove DEF lower
<1>5. QED
  BY <1>2, <1>3, <1>4 DEF lower

(* A concatenation keeps what is below.                                    *)
LEMMA ReconcilingBelow ==
  ASSUME NEW L, NEW s \in Seq(L), NEW below \in Seq(L), Reconciling(below)
  PROVE  Reconciling(s \o below)
<1>1. /\ Len(s) \in Nat /\ Len(below) \in Nat /\ Len(s \o below) = Len(s) + Len(below)
      /\ \A k \in 1..(Len(s) + Len(below)) :
           (s \o below)[k] = IF k <= Len(s) THEN s[k] ELSE below[k - Len(s)]
  BY ConcatProperties, LenProperties
<1>2. PICK k \in 1..Len(below) : below[k].op = "reconcile"
  BY DEF Reconciling
<1>3. /\ k + Len(s) \in 1..(Len(s) + Len(below)) /\ ~(k + Len(s) <= Len(s))
      /\ (k + Len(s)) - Len(s) = k
  BY <1>1
<1>4. (s \o below)[k + Len(s)] = below[k]
  BY <1>1, <1>3
<1>5. QED
  BY <1>1, <1>2, <1>3, <1>4 DEF Reconciling

(* The calls of an incident.                                               *)
LEMMA IncidentStack ==
  ASSUME NEW u \in Reports, Rest \in Seq(Low)
  PROVE  /\ Then(IncidentCalls(u)) \in Seq(Low)
         /\ Reconciling(Rest) => Reconciling(Then(IncidentCalls(u)))
<1>1. /\ Call("pause") \in Low /\ Call("cancel_all") \in Low /\ Call("end_incident") \in Low
  BY CallFrames DEF PlainOps
<1>2. CASE ~Incident(u)
  <2>1. IncidentCalls(u) = <<>>
    BY <1>2 DEF IncidentCalls
  <2>2. QED
    BY <2>1, Returns
<1>3. CASE Incident(u)
  <2>1. u.position_id \in PositionIds
    BY <1>3 DEF Incident, Reports, Report, BrokerOrder
  <2>2. CallOn("close", u.position_id) \in Low
    BY <2>1, PositionFrames
  <2>3. IncidentCalls(u) \in Seq(Low) /\ IncidentCalls(u) # <<>>
    <3>1. CASE InIncident
      BY <1>1, <1>3, <3>1 DEF IncidentCalls
    <3>2. CASE ~InIncident
      BY <1>1, <1>3, <2>2, <3>2 DEF IncidentCalls
    <3>3. QED
      BY <3>1, <3>2
  <2>4. Then(IncidentCalls(u)) = IncidentCalls(u) \o Rest
    BY <2>3 DEF Then
  <2>5. QED
    BY <2>3, <2>4, ConcatProperties, ReconcilingBelow
<1>4. QED
  BY <1>2, <1>3

-----------------------------------------------------------------------------
(* The inductive invariant: the store's own, the call stack, the broker's  *)
(* side, what the topmost call may rely on, and pending accounting.        *)
Unsent == {Nil, "CREATED", "APPROVED"}

(* Types of the broker's side, and how it relates to the store: a position *)
(* never holds more than its entry was filled, an order it accepted was    *)
(* dispatched, and an intent that was dispatched is past APPROVED.         *)
BrokerTyped ==
  /\ started \in BOOLEAN /\ moves \in 0..MaxMoves /\ crashes \in 0..MaxCrashes
  /\ orders \in [IntentIds -> Order] /\ held \in [PositionIds -> Units]
  /\ clock \in 0..MaxTime /\ dispatched \in [IntentIds -> {0, 1}]
  /\ moved \in SUBSET IntentIds /\ unseen \in SUBSET IntentIds

BrokerOrders ==
  \A i \in IntentIds :
    /\ Accepted(i) => orders[i].protected \in Protection
    /\ ~Accepted(i) => orders[i].filled_units = 0
    /\ Etoro /\ orders[i].filled_units > 0 => clock >= 1
    /\ dispatched[i] = 0 => ~Accepted(i)

BrokerHoldings == \A s \in Symbols : held[PositionOf[s]] <= orders[s].filled_units

SentOnce == \A i \in IntentIds : dispatched[i] = 1 => intents[i].state \notin Unsent

BrokerOK == BrokerTyped /\ BrokerOrders /\ BrokerHoldings /\ SentOnce

(* Who is about to submit an intent has it APPROVED; who is about to send   *)
(* it has it SUBMITTING, never sent, inside the try block of _send.        *)
ReadyCall(f, below) ==
  /\ f.op \in {"prepare", "submit"} => intents[f.id].state = "APPROVED"
  /\ f.op = "send" => /\ intents[f.id].state = "SUBMITTING" /\ dispatched[f.id] = 0
                     /\ below # <<>> /\ Head(below).op = "sending"

Ready(s) == s # <<>> => ReadyCall(Head(s), Tail(s))

(* Complete books are those of the last observation, if there was one.     *)
Complete ==
  \A p \in PositionIds :
    positions[p].accounting_complete => positions[p].observed_units \in {Nil, positions[p].units}

EInv == IInv /\ agenda \in Stacks /\ BrokerOK /\ Ready(agenda) /\ Complete

-----------------------------------------------------------------------------
(* What the store's own steps never do.                                    *)

(* An intent that was submitted is never unsent again, and Complete stays. *)
LEMMA StaysSent ==
  ASSUME IInv, [StoreNext]_storeVars, NEW i \in IntentIds, intents[i].state \notin Unsent
  PROVE  intents'[i].state \notin Unsent
<1> USE NilDistinct
<1>0. intents \in [IntentIds -> OrderIntent]
  BY DEF IInv, TypeOK
<1>1. CASE UNCHANGED intents
  BY <1>1
<1>2. ASSUME NEW s \in Symbols, NEW n \in Units, NEW stop \in StopPrices, CreateEntry(s, n, stop)
      PROVE  intents'[i].state \notin Unsent
  <2>1. s # i /\ intents' = [intents EXCEPT ![s] = NewIntent(n, stop)]
    BY <1>2 DEF CreateEntry, Row, Unsent
  <2>2. QED
    BY <2>1, <1>0
<1>3. ASSUME NEW p \in PositionIds, NEW n \in Units, CreateClose(p, n)
      PROVE  intents'[i].state \notin Unsent
  <2>1. p # i /\ intents' = [intents EXCEPT ![p] = NewIntent(n, Nil)]
    BY <1>3 DEF CreateClose, Row, Unsent
  <2>2. QED
    BY <2>1, <1>0
<1>4. ASSUME NEW j \in IntentIds, NEW state \in ExecutorStates, Transition(j, state)
      PROVE  intents'[i].state \notin Unsent
  <2>1. intents' = [intents EXCEPT ![j].state = state]
    BY <1>4 DEF Transition
  <2>2. state \in OrderState /\ state # "CREATED" /\ state # "APPROVED"
    BY DEF ExecutorStates, OrderState, ACTIVE_STATES, TERMINAL_STATES
  <2>3. state \notin Unsent
    BY <2>2 DEF Unsent
  <2>4. QED
    BY <2>1, <2>3, <1>0 DEF OrderIntent
<1>5. ASSUME NEW j \in IntentIds, NEW u \in ReportsOf[j], NEW now, ApplyBrokerOrder(u, now)
      PROVE  intents'[i].state \notin Unsent
  <2>1. /\ intents' = [intents EXCEPT ![j] = Updated(u)] /\ Updated(u).state = u.state
        /\ u.state \in BrokerStates
    BY <1>5, ReportFields DEF ApplyBrokerOrder, Updated
  <2>2. u.state \notin Unsent
    BY <2>1 DEF BrokerStates, Unsent
  <2>3. QED
    BY <2>1, <2>2, <1>0
<1>6. CASE \/ \E p \in PositionIds, stop \in StopPrices, protected \in Protection \cup {TRUE} :
                SetProtection(p, stop, protected)
           \/ \E paused \in BOOLEAN : Pause(paused)
           \/ \E ok \in BOOLEAN : SetReconciliation(ok)
  BY <1>1, <1>6 DEF SetProtection, Pause, SetReconciliation, orderVars
<1>7. CASE UNCHANGED storeVars
  BY <1>1, <1>7 DEF storeVars, orderVars
<1>8. QED
  BY <1>2, <1>3, <1>4, <1>5, <1>6, <1>7 DEF StoreNext, BookNext

(* No call of the store makes complete books differ from the observation. *)
LEMMA StaysComplete ==
  ASSUME IInv, Complete, [StoreNext]_storeVars
  PROVE  Complete'
<1> USE NilDistinct
<1>0. positions \in [PositionIds -> Position]
  BY DEF IInv, TypeOK
<1>1. CASE UNCHANGED positions
  BY <1>1 DEF Complete
<1>2. CASE \/ \E s \in Symbols, n \in Units, stop \in StopPrices : CreateEntry(s, n, stop)
           \/ \E p \in PositionIds, n \in Units : CreateClose(p, n)
           \/ \E i \in IntentIds, state \in ExecutorStates : Transition(i, state)
           \/ \E paused \in BOOLEAN : Pause(paused)
           \/ \E ok \in BOOLEAN : SetReconciliation(ok)
           \/ UNCHANGED storeVars
  BY <1>1, <1>2 DEF CreateEntry, CreateClose, Transition, Pause, SetReconciliation, bookVars,
     storeVars
<1>3. ASSUME NEW p \in PositionIds, NEW stop \in StopPrices, NEW protected,
             SetProtection(p, stop, protected)
      PROVE  Complete'
  <2>1. positions' = [positions EXCEPT ![p].stop_price = stop, ![p].protected = protected]
    BY <1>3 DEF SetProtection
  <2>2. ASSUME NEW q \in PositionIds
        PROVE  /\ positions'[q].accounting_complete = positions[q].accounting_complete
               /\ positions'[q].observed_units = positions[q].observed_units
               /\ positions'[q].units = positions[q].units
    BY <2>1, <1>0 DEF Position
  <2>3. QED
    BY <2>2 DEF Complete
<1>4. ASSUME NEW i \in IntentIds, NEW u \in ReportsOf[i], NEW now, ApplyBrokerOrder(u, now)
      PROVE  Complete'
  <2>1. Commits(u, now) /\ positions' = Observed(u)
    BY <1>4 DEF ApplyBrokerOrder
  <2>2. Booked(u) \in [PositionIds -> Position]
    BY <2>1, BookedPositions
  <2>3. ASSUME NEW p \in PositionIds, Booked(u)[p].accounting_complete
        PROVE  Booked(u)[p].observed_units \in {Nil, Booked(u)[p].units}
    <3>1. positions[p] \in Position /\ u.intent_id = i
      BY <1>0, ReportFields
    <3>2. CASE Delta(u) > 0 /\ p = u.position_id /\ Kind(i) = "entry"
      <4>1. Booked(u)[p] = EntryFill(u)
        BY <1>0, <3>1, <3>2 DEF Booked
      <4>2. QED
        BY <4>1 DEF EntryFill
    <3>3. CASE Delta(u) > 0 /\ p = u.position_id /\ Kind(i) # "entry"
      <4>1. Booked(u)[p] = CloseFill(u)
        BY <1>0, <3>1, <3>3 DEF Booked
      <4>2. /\ CloseFill(u).accounting_complete
                = (positions[p].observed_units \in {Nil, CloseFill(u).units})
            /\ CloseFill(u).observed_units = positions[p].observed_units
        BY <3>1, <3>3 DEF CloseFill, Position
      <4>3. QED
        BY <2>3, <4>1, <4>2
    <3>4. CASE ~(Delta(u) > 0 /\ p = u.position_id)
      <4>1. /\ Booked(u)[p].accounting_complete = positions[p].accounting_complete
            /\ Booked(u)[p].observed_units = positions[p].observed_units
            /\ Booked(u)[p].units = positions[p].units
        BY <1>0, <3>1, <3>4 DEF Booked, Position
      <4>2. QED
        BY <2>3, <4>1 DEF Complete
    <3>5. QED
      BY <3>2, <3>3, <3>4
  <2>4. CASE ~Observes(u)
    BY <2>1, <2>3, <2>4 DEF Observed, Complete
  <2>5. CASE Observes(u)
    <3> DEFINE q == u.position_id
    <3>1. q \in PositionIds
      BY <2>1, <2>5, ReportFields DEF Commits, ObservationAccepted
    <3>2. Observed(u) = [Booked(u) EXCEPT ![q].observed_units = u.remaining_units,
                                          ![q].observed_at = u.observed_at,
                                          ![q].accounting_complete = ~Incomplete(u)]
      BY <2>5 DEF Observed
    <3>3. /\ Observed(u)[q].observed_units = u.remaining_units
          /\ Observed(u)[q].accounting_complete = ~Incomplete(u)
          /\ Observed(u)[q].units = Booked(u)[q].units
      BY <3>1, <3>2, <2>2 DEF Position
    <3>4. ASSUME NEW p \in PositionIds, p # q PROVE Observed(u)[p] = Booked(u)[p]
      BY <3>1, <3>2, <3>4, <2>2
    <3>5. ~Incomplete(u) => Booked(u)[q].units = u.remaining_units
      BY <2>5 DEF Incomplete
    <3> HIDE DEF q
    <3>6. QED
      BY <2>1, <2>3, <3>1, <3>3, <3>4, <3>5 DEF Complete
  <2>6. QED
    BY <2>4, <2>5
<1>5. QED
  BY <1>2, <1>3, <1>4 DEF StoreNext, BookNext

-----------------------------------------------------------------------------
(* The reports the broker publishes are reports.                           *)

(* What the broker answers about an order it has is a report.              *)
LEMMA ReportsAreReports ==
  ASSUME NEW i \in IntentIds, NEW o \in Order, o.state # Nil, o.protected \in Protection,
         NEW holding \in [PositionIds -> Units], NEW at \in 0..MaxTime,
         Etoro /\ Kind(i) = "entry" /\ o.filled_units > 0 => at >= 1
  PROVE  /\ ReportAt(i, o, holding, at) \in Reports
         /\ ReportAt(i, o, holding, at).intent_id = i
         /\ ReportAt(i, o, holding, at).state = o.state
         /\ ReportAt(i, o, holding, at).filled_units = o.filled_units
<1> USE StoreAssumption, ExecutorAssumption
<1> DEFINE filled == o.filled_units > 0
           snapshot == filled /\ Kind(i) = "entry" /\ Etoro
           price == IF filled THEN OnlyPrice ELSE Nil
           position == IF filled THEN PositionOfIntent(i) ELSE Nil
           remaining == IF snapshot THEN holding[PositionOfIntent(i)] ELSE Nil
           observed == IF snapshot THEN at ELSE Nil
           u == ReportAt(i, o, holding, at)
<1>1. u = [broker_order_id |-> i, intent_id |-> i, state |-> o.state,
           filled_units |-> o.filled_units, average_price |-> price, position_id |-> position,
           protected |-> o.protected, cumulative_cost |-> 0, remaining_units |-> remaining,
           observed_at |-> observed]
  BY DEF ReportAt
<1>2. OnlyPrice \in Prices /\ PositionOfIntent(i) \in PositionIds
  BY DEF OnlyPrice, PositionOfIntent, Kind, IntentIds
<1>3. o.state \in BrokerStates /\ o.filled_units \in Units
  BY DEF Order
<1>4. price \in Prices \cup {Nil} /\ position \in PositionIds \cup {Nil}
  BY <1>2
<1>5. remaining \in Units \cup {Nil} /\ observed \in Times \cup {Nil}
  BY <1>2 DEF Times
<1>6. /\ filled <=> price # Nil
      /\ filled <=> position # Nil
      /\ remaining # Nil <=> observed # Nil
      /\ remaining # Nil => filled
  BY <1>2, NilDistinct DEF Units
<1>7. 0 \in 0..MaxCost /\ i \in BrokerIds
  OBVIOUS
<1> HIDE DEF filled, snapshot, price, position, remaining, observed, u
<1>8. u \in BrokerOrder
  BY <1>1, <1>3, <1>4, <1>5, <1>7 DEF BrokerOrder
<1>9. Report(u)
  BY <1>1, <1>6 DEF Report, filled
<1>10. u \in Reports /\ u.intent_id = i /\ u.state = o.state /\ u.filled_units = o.filled_units
  BY <1>1, <1>8, <1>9 DEF Reports
<1>11. QED
  BY <1>10 DEF u

(* Changing the state of a report, or dropping its snapshot, keeps it a    *)
(* report on the same intent.                                              *)
LEMMA ReportEdits ==
  ASSUME NEW u \in Reports, NEW state \in BrokerStates
  PROVE  /\ [u EXCEPT !.state = state] \in Reports /\ WithoutSnapshot(u) \in Reports
         /\ [u EXCEPT !.state = state].intent_id = u.intent_id
         /\ [u EXCEPT !.state = state].state = state
         /\ [u EXCEPT !.state = state].filled_units = u.filled_units
         /\ WithoutSnapshot(u).intent_id = u.intent_id /\ WithoutSnapshot(u).state = u.state
         /\ WithoutSnapshot(u).filled_units = u.filled_units
  BY DEF Reports, BrokerOrder, Report, WithoutSnapshot

(* What the broker answers about an order it accepted.                     *)
LEMMA OrderReports ==
  ASSUME IInv, BrokerOK, NEW i \in IntentIds, Accepted(i)
  PROVE  /\ ReportOn(i, orders[i]) \in Reports
         /\ ReportOn(i, orders[i]).intent_id = i
         /\ ReportOn(i, orders[i]).state = orders[i].state
         /\ ReportOn(i, orders[i]).filled_units = orders[i].filled_units
<1>1. /\ orders[i] \in Order /\ orders[i].state # Nil /\ orders[i].protected \in Protection
      /\ held \in [PositionIds -> Units] /\ clock \in 0..MaxTime
      /\ Etoro /\ orders[i].filled_units > 0 => clock >= 1
  BY DEF BrokerOK, BrokerTyped, BrokerOrders, Accepted
<1>2. QED
  BY <1>1, ReportsAreReports DEF ReportOn

(* What the broker answers about an order it has is a report on that order:*)
(* its state or UNKNOWN, and what it has filled (nothing new on an eToro   *)
(* close).                                                                 *)
LEMMA AnswersAreReports ==
  ASSUME IInv, BrokerOK, NEW i \in IntentIds, Accepted(i), NEW u \in Answers(i)
  PROVE  /\ u \in Reports /\ u.intent_id = i
         /\ IF Etoro /\ Kind(i) = "close"
            THEN u.state = "UNKNOWN" /\ u.filled_units = intents[i].filled_units
            ELSE /\ u.state = orders[i].state \/ u.state = "UNKNOWN"
                 /\ u.filled_units = orders[i].filled_units
<1> DEFINE report == ReportOn(i, orders[i])
           booked == [orders[i] EXCEPT !.filled_units = intents[i].filled_units]
<1>0. "UNKNOWN" \in BrokerStates
  BY DEF BrokerStates, OrderState, ACTIVE_STATES
<1>1. /\ report \in Reports /\ report.intent_id = i
      /\ report.state = orders[i].state /\ report.filled_units = orders[i].filled_units
  BY OrderReports
<1>2. CASE Etoro /\ Kind(i) = "close"
  <2>1. /\ orders[i] \in Order /\ orders[i].state # Nil /\ orders[i].protected \in Protection
        /\ held \in [PositionIds -> Units] /\ clock \in 0..MaxTime
        /\ intents[i].filled_units \in Units
    BY DEF BrokerOK, BrokerTyped, BrokerOrders, Accepted, IInv, TypeOK, OrderIntent
  <2>2. /\ booked \in Order /\ booked.state = orders[i].state
        /\ booked.protected = orders[i].protected
        /\ booked.filled_units = intents[i].filled_units
    BY <2>1 DEF Order
  <2>3. ~(Etoro /\ Kind(i) = "entry" /\ booked.filled_units > 0)
    BY <1>2
  <2> HIDE DEF booked
  <2>4. /\ ReportOn(i, booked) \in Reports /\ ReportOn(i, booked).intent_id = i
        /\ ReportOn(i, booked).filled_units = intents[i].filled_units
    BY <2>1, <2>2, <2>3, ReportsAreReports DEF ReportOn
  <2>5. u = [ReportOn(i, booked) EXCEPT !.state = "UNKNOWN"]
    BY <1>2 DEF Answers, booked
  <2>6. QED
    BY <1>0, <1>2, <2>4, <2>5, ReportEdits
<1>3. CASE ~(Etoro /\ Kind(i) = "close")
  <2>1. u \in {report, WithoutSnapshot(report), [report EXCEPT !.state = "UNKNOWN"]}
    BY <1>3 DEF Answers
  <2> HIDE DEF report
  <2>2. CASE u = report
    BY <1>1, <1>3, <2>2
  <2>3. CASE u = WithoutSnapshot(report)
    BY <1>0, <1>1, <1>3, <2>3, ReportEdits
  <2>4. CASE u = [report EXCEPT !.state = "UNKNOWN"]
    BY <1>0, <1>1, <1>3, <2>4, ReportEdits
  <2>5. QED
    BY <2>1, <2>2, <2>3, <2>4
<1>4. QED
  BY <1>2, <1>3

-----------------------------------------------------------------------------
(* Stacks whose topmost call is not about to submit or to send: nothing in *)
(* the invariant depends on them beyond their type.                        *)
Making == {"prepare", "submit", "send"}
Calm(s) == s \in Stacks /\ (s # <<>> => Head(s).op \notin Making)

(* A stack of waiting calls is calm.                                       *)
LEMMA CalmLow ==
  ASSUME NEW s \in Seq(Low)
  PROVE  Calm(s)
<1>1. s # <<>> => Head(s) \in Low
  BY HeadTailProperties
<1>2. QED
  BY <1>1 DEF Calm, Low, Making, TopOnly, Stacks, Working

(* So is one with a call on top that neither submits nor sends.            *)
LEMMA CalmAbove ==
  ASSUME NEW f \in Frames, f.op \notin Making, NEW below \in Seq(Low)
  PROVE  Calm(Above(f, below))
  BY AboveProperties DEF Calm, Stacks, Working

(* An exception leaves a calm stack.                                       *)
LEMMA CalmRaise ==
  ASSUME NEW s \in Seq(Low)
  PROVE  Calm(Raise(s))
  BY RaiseWorks DEF Calm, Making, Stacks

(* So are the stacks of a start.                                           *)
LEMMA CalmStarting ==
  ASSUME NEW s \in Starting
  PROVE  Calm(s)
  BY StartingStacks DEF Calm, Making, Stacks

(* A call that returns, or makes calls that neither submit nor send, leaves*)
(* a calm stack.                                                           *)
LEMMA CalmThen ==
  ASSUME Rest \in Seq(Low)
  PROVE  /\ Calm(Then(<<>>))
         /\ \A f \in Frames : f.op \notin Making => Calm(Then(<<f>>))
         /\ \A f, g \in Low : Calm(Then(<<f, g>>))
<1>1. Calm(Then(<<>>))
  BY Returns, CalmLow
<1>2. ASSUME NEW f \in Frames, f.op \notin Making PROVE Calm(Then(<<f>>))
  BY <1>2, Calls1, CalmAbove
<1>3. ASSUME NEW f \in Low, NEW g \in Low PROVE Calm(Then(<<f, g>>))
  BY <1>3, Calls2, CalmLow
<1>4. QED
  BY <1>1, <1>2, <1>3

(* The rows a loop reads from the store.                                   *)
LEMMA SnapshotRows ==
  ASSUME IInv
  PROVE  /\ Snapshot \subseteq Entries
         /\ \A e \in Snapshot : e.state = intents[e.id].state
<1>1. ASSUME NEW e \in Snapshot
      PROVE  e \in Entries /\ e.state = intents[e.id].state
  <2>1. PICK i \in IntentIds : Row(i) /\ e = [id |-> i, state |-> intents[i].state]
    BY <1>1 DEF Snapshot
  <2>2. intents[i].state \in OrderState
    BY <2>1 DEF Row, IInv, TypeOK, OrderIntent
  <2>3. QED
    BY <2>1, <2>2 DEF Entries
<1>2. QED
  BY <1>1

(* A step of the store, or none, with a calm stack, while the broker rests. *)
LEMMA CalmStep ==
  ASSUME EInv, [StoreNext]_storeVars, UNCHANGED <<orders, held, clock, dispatched, moves>>,
         moved' \in SUBSET IntentIds, unseen' \in SUBSET IntentIds, started' \in BOOLEAN,
         crashes' \in 0..MaxCrashes,
         Calm(agenda')
  PROVE  EInv'
<1>1. IInv' /\ Complete'
  BY IInvNext, StaysComplete DEF EInv
<1>2. agenda' \in Stacks /\ Ready(agenda)'
  BY DEF Calm, Ready, ReadyCall, Making
<1>3. SentOnce'
  <2>1. ASSUME NEW i \in IntentIds, dispatched'[i] = 1 PROVE intents'[i].state \notin Unsent
    BY <2>1, StaysSent DEF EInv, BrokerOK, SentOnce
  <2>2. QED
    BY <2>1 DEF SentOnce
<1>4. BrokerTyped' /\ BrokerOrders' /\ BrokerHoldings'
  BY DEF EInv, BrokerOK, BrokerTyped, BrokerOrders, BrokerHoldings, Accepted
<1>5. QED
  BY <1>1, <1>2, <1>3, <1>4 DEF EInv, BrokerOK

-----------------------------------------------------------------------------
(* Most steps of the executor are of that kind.                            *)
CalmMove ==
  /\ [StoreNext]_storeVars /\ Calm(agenda')
  /\ UNCHANGED <<orders, held, clock, dispatched, moves>>
  /\ moved' \in SUBSET IntentIds /\ unseen' \in SUBSET IntentIds
  /\ started' \in BOOLEAN /\ crashes' \in 0..MaxCrashes

(* Such a step preserves the invariant.                                    *)
LEMMA CalmMoves == EInv /\ CalmMove => EInv'
  BY CalmStep DEF CalmMove

(* A step that leaves the broker alone is of that kind.                    *)
LEMMA LocalMove ==
  ASSUME EInv, Local, [StoreNext]_storeVars, Calm(agenda')
  PROVE  CalmMove
  BY DEF Local, brokerVars, CalmMove, EInv, BrokerOK, BrokerTyped

(* So is one that changes the stack only.                                  *)
LEMMA InternalMove ==
  ASSUME EInv, Internal, Calm(agenda')
  PROVE  CalmMove
  BY LocalMove DEF Internal

(* The store calls of the executor are steps of the store.                 *)
LEMMA StoreCalls ==
  /\ \A paused \in BOOLEAN : Pause(paused) => StoreNext
  /\ \A ok \in BOOLEAN : SetReconciliation(ok) => StoreNext
  /\ \A i \in IntentIds, state \in ExecutorStates : Transition(i, state) => StoreNext
  /\ \A p \in PositionIds, stop \in StopPrices : SetProtection(p, stop, TRUE) => StoreNext
  /\ \A s \in Symbols, n \in Units, stop \in StopPrices : CreateEntry(s, n, stop) => StoreNext
  /\ \A p \in PositionIds, n \in Units : CreateClose(p, n) => StoreNext
<1>1. ASSUME NEW p \in PositionIds, NEW stop \in StopPrices, SetProtection(p, stop, TRUE)
      PROVE  StoreNext
  <2>1. TRUE \in Protection \cup {TRUE}
    OBVIOUS
  <2>2. QED
    BY <1>1, <2>1 DEF StoreNext, BookNext
<1>2. QED
  BY <1>1 DEF StoreNext, BookNext

(* Booking a report is a step of the store, with a report the store may be *)
(* given.                                                                  *)
LEMMA ReportCalls ==
  ASSUME EInv, NEW u \in Reports, ApplyBrokerOrder(u, clock)
  PROVE  StoreNext /\ u.intent_id \in IntentIds /\ u \in ReportsOf[u.intent_id] /\ clock \in 0..MaxTime
<1>1. u.intent_id \in IntentIds
  BY DEF Reports, BrokerOrder
<1>2. u \in ReportsOf[u.intent_id] /\ Row(u.intent_id) /\ clock \in 0..MaxTime
  BY <1>1 DEF ReportsOf, ApplyBrokerOrder, Commits, ReportAccepted, EInv, BrokerOK, BrokerTyped
<1>3. QED
  BY <1>1, <1>2 DEF StoreNext, BookNext

(* Calls of the owner, and the death of the process.                       *)
LEMMA OwnerMoves ==
  ASSUME EInv,
         \/ Enter \/ ArmOffline \/ FlattenOwned \/ Exit \/ Crash
         \/ Operation(<<Call("pause")>>) \/ Operation(<<Call("reconcile_all")>>)
         \/ Operation(<<Call("cancel_all")>>)
         \/ \E p \in PositionIds : Operation(<<CallOn("close", p)>>)
  PROVE  CalmMove
<1>1. /\ Call("pause") \in Low /\ Call("cancel_all") \in Low /\ Call("flatten_all") \in Low
      /\ Call("reconcile_all") \in Low /\ Call("confirm_flat") \in Low /\ Call("release") \in Low
  BY CallFrames DEF PlainOps
<1>2. \A p \in PositionIds : CallOn("close", p) \in Low
  BY PositionFrames
<1>3. /\ started \in BOOLEAN /\ moved \in SUBSET IntentIds /\ unseen \in SUBSET IntentIds
      /\ crashes \in 0..MaxCrashes
  BY DEF EInv, BrokerOK, BrokerTyped
<1>4. Calm(<<>>)
  BY DEF Calm, Stacks, Working
<1>5. ASSUME Enter PROVE CalmMove
  <2> DEFINE todo == {e \in Snapshot : e.state \in {"SUBMITTING", "CREATED", "APPROVED"}}
  <2>1. todo \in SUBSET Entries
    BY SnapshotRows DEF EInv
  <2>2. agenda' = Entering(todo)
    BY <1>5 DEF Enter, Entering, Recovery, LoopFrame, Loop
  <2>3. Calm(agenda')
    BY <2>1, <2>2, CalmStarting DEF Starting
  <2>4. QED
    BY <1>3, <1>5, <2>3 DEF Enter, brokerVars, CalmMove
<1>6. ASSUME ArmOffline PROVE CalmMove
  <2>1. Local /\ StoreNext /\ agenda' = <<>>
    BY <1>6, StoreCalls DEF ArmOffline
  <2>2. QED
    BY <1>4, <2>1, LocalMove
<1>7. ASSUME NEW calls \in Seq(Low), Operation(calls) PROVE CalmMove
  BY <1>7, CalmLow, InternalMove DEF Operation
<1>8. ASSUME FlattenOwned PROVE CalmMove
  <2>1. <<Call("pause"), Call("cancel_all"), Call("flatten_all"), Call("reconcile_all"),
          Call("confirm_flat")>> \in Seq(Low)
    BY <1>1
  <2>2. QED
    BY <1>7, <1>8, <2>1 DEF FlattenOwned
<1>9. ASSUME Exit PROVE CalmMove
  <2>1. <<Call("pause"), Call("release")>> \in Seq(Low)
    BY <1>1
  <2>2. QED
    BY <1>7, <1>9, <2>1 DEF Exit
<1>10. ASSUME NEW f \in Low, Operation(<<f>>) PROVE CalmMove
  <2>1. <<f>> \in Seq(Low)
    OBVIOUS
  <2>2. QED
    BY <1>7, <1>10, <2>1
<1>11. ASSUME Crash PROVE CalmMove
  <2>1. /\ UNCHANGED <<storeVars, brokerVars>> /\ started' = FALSE /\ agenda' = <<>>
        /\ crashes < MaxCrashes /\ crashes' = crashes + 1
    BY <1>11 DEF Crash
  <2>2. crashes' \in 0..MaxCrashes
    BY <1>3, <2>1, ExecutorAssumption
  <2>3. QED
    BY <1>3, <1>4, <2>1, <2>2 DEF brokerVars, CalmMove
<1>12. QED
  BY <1>1, <1>2, <1>5, <1>6, <1>8, <1>9, <1>10, <1>11

(* Calls that return, or make calls of the plain kind.                     *)
LEMMA ReturningMoves ==
  ASSUME EInv,
         \/ PauseCall \/ UnreconciledCall \/ ToUnknown \/ SetProtectionCall \/ Release
         \/ EndIncident \/ LoopEnds("recover") \/ LoopEnds("cancel") \/ LoopEnds("flatten")
         \/ Reject \/ ReconcileEnds \/ CloseNothing \/ CloseBlocked \/ CloseAfterCancel
         \/ CloseStillPending \/ ConfirmFlat
  PROVE  CalmMove
<1>0. /\ agenda \in Stacks /\ started \in BOOLEAN /\ moved \in SUBSET IntentIds /\ unseen \in SUBSET IntentIds
      /\ crashes \in 0..MaxCrashes
  BY DEF EInv, BrokerOK, BrokerTyped
<1>1. /\ Call("pause") \in Low /\ Call("pause") \in Frames /\ Call("pause").op \notin Making
      /\ Call("cancel_all") \in Low
  BY CallFrames DEF PlainOps, Making, Low
<1>2. ASSUME NEW op, Running(op), op \notin {"pause", "unreconciled"}
      PROVE  Top \in Frames /\ Typed(Top) /\ Top.op = op /\ Rest \in Seq(Low)
  BY <1>0, <1>2, Topmost DEF Running
<1>3. ASSUME NEW op, Running(op), op \notin {"pause", "unreconciled"}
      PROVE  Calm(Then(<<>>)) /\ Calm(Then(<<Call("pause")>>))
  BY <1>1, <1>2, <1>3, CalmThen
<1>4. ASSUME Running("pause") \/ Running("unreconciled") PROVE Calm(Then(<<>>))
  <2>1. CASE agenda \in Working
    <3>1. Rest \in Seq(Low)
      BY <1>4, <2>1, WorkingTop DEF Running, Rest
    <3>2. QED
      BY <3>1, CalmThen
  <2>2. CASE agenda \in Starting
    <3>1. /\ Rest # <<>> /\ Head(Rest).op \in {"unreconciled", "recover"}
          /\ Rest \in Starting \/ Rest \in Working
      BY <2>2, StartingStacks DEF Rest
    <3>2. Then(<<>>) = Rest
      BY <3>1 DEF Then, Guards
    <3>3. QED
      BY <3>1, <3>2 DEF Calm, Stacks, Making
  <2>3. QED
    BY <1>0, <2>1, <2>2 DEF Stacks
<1>5. CASE PauseCall
  <2>1. Calm(agenda') /\ Local /\ StoreNext
    BY <1>4, <1>5, StoreCalls DEF PauseCall
  <2>2. QED
    BY <2>1, LocalMove
<1>6. CASE UnreconciledCall
  <2>1. Calm(agenda') /\ Local /\ StoreNext
    BY <1>4, <1>6, StoreCalls DEF UnreconciledCall
  <2>2. QED
    BY <2>1, LocalMove
<1>7. CASE ToUnknown
  <2>1. Top.id \in IntentIds
    BY <1>2, <1>7 DEF ToUnknown, Typed, IntentOps
  <2>2. "UNKNOWN" \in ExecutorStates
    BY DEF ExecutorStates
  <2>3. Calm(agenda') /\ Local /\ [StoreNext]_storeVars
    BY <1>3, <1>7, <2>1, <2>2, StoreCalls DEF ToUnknown
  <2>4. QED
    BY <2>3, LocalMove
<1>8. CASE SetProtectionCall
  <2>1. Top.id \in PositionIds /\ Top.report \in StopPrices
    BY <1>2, <1>8 DEF SetProtectionCall, Typed
  <2>2. Calm(agenda') /\ Local /\ StoreNext
    BY <1>3, <1>8, <2>1, StoreCalls DEF SetProtectionCall
  <2>3. QED
    BY <2>2, LocalMove
<1>9. CASE Release
  <2>1. Calm(<<>>)
    BY DEF Calm, Stacks, Working
  <2>2. QED
    BY <1>0, <1>9, <2>1 DEF Release, CalmMove, brokerVars
<1>10. CASE EndIncident \/ LoopEnds("recover") \/ LoopEnds("cancel") \/ LoopEnds("flatten")
              \/ CloseNothing \/ CloseStillPending \/ ConfirmFlat
  <2>1. Calm(agenda') /\ Internal
    BY <1>3, <1>10 DEF EndIncident, LoopEnds, CloseNothing, CloseStillPending, ConfirmFlat
  <2>2. QED
    BY <2>1, InternalMove
<1>11. CASE Reject
  <2>1. Top.id \in IntentIds
    BY <1>2, <1>11 DEF Reject, Typed, IntentOps
  <2>2. "REJECTED" \in ExecutorStates
    BY DEF ExecutorStates
  <2>3. Calm(agenda') /\ Local /\ StoreNext
    BY <1>3, <1>11, <2>1, <2>2, StoreCalls DEF Reject
  <2>4. QED
    BY <2>3, LocalMove
<1>12. CASE ReconcileEnds
  <2>1. Calm(agenda')
    BY <1>3, <1>12 DEF ReconcileEnds
  <2>2. Local /\ StoreNext
    <3>1. \E ok \in BOOLEAN : SetReconciliation(ok)
      <4>1. ReconciledCleanly \in BOOLEAN
        BY DEF ReconciledCleanly
      <4>2. QED
        BY <1>12, <4>1 DEF ReconcileEnds
    <3>2. QED
      BY <1>12, <3>1, StoreCalls DEF ReconcileEnds
  <2>3. QED
    BY <2>1, <2>2, LocalMove
<1>13. CASE CloseBlocked
  <2>1. Calm(agenda') /\ Internal
    BY <1>3, <1>13 DEF CloseBlocked
  <2>2. QED
    BY <2>1, InternalMove
<1>14. CASE CloseAfterCancel
  <2>1. Top.id \in PositionIds /\ Rest \in Seq(Low)
    BY <1>2, <1>14 DEF CloseAfterCancel, Typed
  <2>2. CallOn("close_recheck", Top.id) \in Low
    BY <2>1, PositionFrames
  <2>3. Calm(agenda') /\ Internal
    BY <1>1, <1>14, <2>1, <2>2, CalmThen DEF CloseAfterCancel
  <2>4. QED
    BY <2>3, InternalMove
<1>15. QED
  BY <1>5, <1>6, <1>7, <1>8, <1>9, <1>10, <1>11, <1>12, <1>13, <1>14

(* Loops, and the calls that begin one.                                    *)
LEMMA LoopMoves ==
  ASSUME EInv,
         \/ Recover \/ ReconcileAll \/ QueryUnseen \/ QueryFailed \/ CancelAll
         \/ CancelUnsent \/ FlattenAll \/ FlattenNext
  PROVE  CalmMove
<1>0. agenda \in Stacks
  BY DEF EInv
<1>1. ASSUME NEW op, Running(op), op \notin {"pause", "unreconciled"}
      PROVE  Top \in Frames /\ Typed(Top) /\ Top.op = op /\ Rest \in Seq(Low)
  BY <1>0, <1>1, Topmost DEF Running
<1>2. ASSUME NEW f \in Frames, f.op \notin Making, Rest \in Seq(Low)
      PROVE  Calm(<<f>> \o Rest)
  BY <1>2, CalmAbove DEF Above
<1>3. ASSUME NEW op \in Loops, Running(op), NEW e
      PROVE  /\ Without(e) \in Frames /\ Without(e).op = op /\ Without(e).op \in Loops
             /\ Calm(<<Without(e)>> \o Rest)
             /\ \A clean \in BOOLEAN : Calm(<<[Without(e) EXCEPT !.clean = clean]>> \o Rest)
  <2>1. Top \in Frames /\ Top.op = op /\ Top.clean \in BOOLEAN /\ Rest \in Seq(Low)
    BY <1>1, <1>3 DEF Loops, Typed
  <2>2. Top.todo \ {e} \in SUBSET Top.todo /\ FALSE \in BOOLEAN
    OBVIOUS
  <2>3. Without(e) \in Frames /\ Without(e).op = op
    BY <1>3, <2>1, <2>2, LoopGoesOn DEF Without
  <2>4. ASSUME NEW f \in Frames, f.op = op PROVE Calm(<<f>> \o Rest)
    BY <1>2, <2>1, <2>4 DEF Loops, Making
  <2>5. ASSUME NEW clean \in BOOLEAN
        PROVE  Calm(<<[Without(e) EXCEPT !.clean = clean]>> \o Rest)
    <3>1. Without(e).op \in Loops /\ Without(e).todo \in SUBSET Without(e).todo
      BY <1>3, <2>3
    <3>2. /\ [Without(e) EXCEPT !.clean = clean] \in Frames
          /\ [Without(e) EXCEPT !.clean = clean].op = op
      BY <2>3, <3>1, LoopGoesOn
    <3>3. QED
      BY <2>4, <3>2
  <2>6. QED
    BY <1>3, <2>3, <2>4, <2>5
<1>4. \A state \in {"UNKNOWN", "EXPIRED"} : state \in ExecutorStates
  BY DEF ExecutorStates
<1>5. CASE Recover
  <2>1. Running("recover") /\ Local
    BY <1>5 DEF Recover
  <2>2. PICK e \in Top.todo : /\ Transition(e.id, RecoveredState(e.state))
                              /\ agenda' = <<Without(e)>> \o Rest
    BY <1>5 DEF Recover
  <2>3. e \in Entries
    BY <1>1, <2>1 DEF Typed
  <2>4. e.id \in IntentIds /\ RecoveredState(e.state) \in ExecutorStates
    BY <1>4, <2>3 DEF Entries, RecoveredState
  <2>5. StoreNext
    BY <2>2, <2>4, StoreCalls
  <2>6. Calm(agenda')
    BY <1>3, <2>1, <2>2 DEF Loops
  <2>7. QED
    BY <2>1, <2>5, <2>6, LocalMove
<1>6. CASE ReconcileAll
  <2> DEFINE todo == {e \in Snapshot : e.state \notin {"CREATED", "APPROVED", "REJECTED"}}
  <2>1. todo \in SUBSET Entries
    BY SnapshotRows DEF EInv
  <2>2. Rest \in Seq(Low) /\ agenda' = <<LoopFrame("reconcile", todo, TRUE)>> \o Rest
    BY <1>1, <1>6 DEF ReconcileAll, Loop, LoopFrame
  <2>3. LoopFrame("reconcile", todo, TRUE) \in Frames
        /\ LoopFrame("reconcile", todo, TRUE).op = "reconcile"
    BY <2>1, LoopFrames DEF Loops, LoopEntries
  <2>4. Calm(agenda')
    BY <1>2, <2>2, <2>3 DEF Making
  <2>5. QED
    BY <1>6, <2>4 DEF ReconcileAll, CalmMove, EInv, BrokerOK, BrokerTyped
<1>7. CASE QueryUnseen
  <2>1. /\ Running("reconcile")
        /\ UNCHANGED <<orders, held, clock, dispatched, moved, moves, started, crashes>>
    BY <1>7 DEF QueryUnseen
  <2>2. PICK e \in Top.todo :
          /\ Transition(e.id, "UNKNOWN") \/ UNCHANGED storeVars
          /\ agenda' = <<[Without(e) EXCEPT !.clean = @ /\ e.state \notin ACTIVE_STATES]>> \o Rest
          /\ unseen' \in {unseen, unseen \cup {e.id}}
    BY <1>7 DEF QueryUnseen
  <2>3. e \in Entries
    BY <1>1, <2>1 DEF Typed
  <2>4. e.id \in IntentIds
    BY <2>3 DEF Entries
  <2>5. [StoreNext]_storeVars
    BY <1>4, <2>2, <2>4, StoreCalls
  <2>6. (Without(e).clean /\ e.state \notin ACTIVE_STATES) \in BOOLEAN
    OBVIOUS
  <2>7. Calm(agenda')
    BY <1>3, <2>1, <2>2, <2>6 DEF Loops
  <2>8. unseen' \in SUBSET IntentIds
    BY <2>2, <2>4 DEF EInv, BrokerOK, BrokerTyped
  <2>9. QED
    BY <2>1, <2>5, <2>7, <2>8 DEF CalmMove, EInv, BrokerOK, BrokerTyped
<1>8. CASE QueryFailed
  <2>1. Running("reconcile") /\ Internal
    BY <1>8 DEF QueryFailed
  <2>2. PICK e \in Top.todo : agenda' = <<[Without(e) EXCEPT !.clean = FALSE]>> \o Rest
    BY <1>8 DEF QueryFailed
  <2>3. Calm(agenda')
    BY <1>3, <2>1, <2>2 DEF Loops
  <2>4. QED
    BY <2>1, <2>3, InternalMove
<1>9. CASE CancelAll
  <2> DEFINE todo == {e \in Snapshot : e.id \in Symbols /\ e.state \in ACTIVE_STATES}
  <2>1. todo \in SUBSET PendingEntries
    <3>1. ASSUME NEW e \in Entries, e.id \in Symbols, e.state \in ACTIVE_STATES
          PROVE  e \in PendingEntries
      BY <3>1 DEF Entries, PendingEntries
    <3>2. QED
      BY <3>1, SnapshotRows DEF EInv
  <2>2. Rest \in Seq(Low) /\ agenda' = <<LoopFrame("cancel", todo, TRUE)>> \o Rest
    BY <1>1, <1>9 DEF CancelAll, Loop, LoopFrame
  <2>3. LoopFrame("cancel", todo, TRUE) \in Frames
        /\ LoopFrame("cancel", todo, TRUE).op = "cancel"
    BY <2>1, LoopFrames DEF Loops, LoopEntries
  <2>4. Calm(agenda') /\ Internal
    BY <1>2, <1>9, <2>2, <2>3 DEF Making, CancelAll
  <2>5. QED
    BY <2>4, InternalMove
<1>10. CASE CancelUnsent
  <2>1. Running("cancel") /\ Local
    BY <1>10 DEF CancelUnsent
  <2>2. PICK e \in Top.todo : Transition(e.id, "EXPIRED") /\ agenda' = <<Without(e)>> \o Rest
    BY <1>10 DEF CancelUnsent
  <2>3. e \in PendingEntries
    BY <1>1, <2>1 DEF Typed
  <2>4. e.id \in IntentIds
    BY <2>3 DEF PendingEntries, IntentIds
  <2>5. StoreNext
    BY <1>4, <2>2, <2>4, StoreCalls
  <2>6. Calm(agenda')
    BY <1>3, <2>1, <2>2 DEF Loops
  <2>7. QED
    BY <2>1, <2>5, <2>6, LocalMove
<1>11. CASE FlattenAll
  <2> DEFINE todo == {[id |-> p, state |-> Nil] : p \in OpenPositions}
  <2>1. todo \in SUBSET HeldEntries
    BY DEF HeldEntries, OpenPositions
  <2>2. Rest \in Seq(Low) /\ agenda' = <<LoopFrame("flatten", todo, TRUE)>> \o Rest
    BY <1>1, <1>11 DEF FlattenAll, Loop, LoopFrame
  <2>3. LoopFrame("flatten", todo, TRUE) \in Frames
        /\ LoopFrame("flatten", todo, TRUE).op = "flatten"
    BY <2>1, LoopFrames DEF Loops, LoopEntries
  <2>4. Calm(agenda') /\ Internal
    BY <1>2, <1>11, <2>2, <2>3 DEF Making, FlattenAll
  <2>5. QED
    BY <2>4, InternalMove
<1>12. CASE FlattenNext
  <2>1. Running("flatten") /\ Internal
    BY <1>12 DEF FlattenNext
  <2>2. PICK e \in Top.todo : agenda' = <<CallOn("close", e.id), Without(e)>> \o Rest
    BY <1>12 DEF FlattenNext
  <2>3. e \in HeldEntries /\ Rest \in Seq(Low) /\ Top \in Frames /\ Top.op = "flatten"
    BY <1>1, <2>1 DEF Typed
  <2>4. CallOn("close", e.id) \in Low
    BY <2>3, PositionFrames DEF HeldEntries
  <2>5. Without(e) \in Low
    <3>1. Without(e) \in Frames /\ Without(e).op = "flatten"
      BY <1>3, <2>1 DEF Loops
    <3>2. QED
      BY <3>1 DEF Low, TopOnly
  <2>6. <<CallOn("close", e.id), Without(e)>> \in Seq(Low)
    BY <2>4, <2>5
  <2>7. agenda' \in Seq(Low)
    BY <2>2, <2>3, <2>6, ConcatProperties
  <2>8. QED
    BY <2>1, <2>7, CalmLow, InternalMove
<1>13. QED
  BY <1>5, <1>6, <1>7, <1>8, <1>9, <1>10, <1>11, <1>12

(* Answers, exceptions and reports.                                        *)
LEMMA AnswerMoves ==
  ASSUME EInv,
         \/ SendRefused \/ ApplyReport \/ ApplyRefused \/ QueryAnswered \/ CancelSent
         \/ AskCancelFailed \/ CloseRefused
  PROVE  CalmMove
<1>0. agenda \in Stacks /\ BrokerOK /\ IInv
  BY DEF EInv
<1>1. ASSUME NEW op, Running(op), op \notin {"pause", "unreconciled"}
      PROVE  Top \in Frames /\ Typed(Top) /\ Top.op = op /\ Rest \in Seq(Low)
  BY <1>0, <1>1, Topmost DEF Running
<1>2. CASE ApplyRefused \/ AskCancelFailed \/ CloseRefused
  <2>1. Rest \in Seq(Low) /\ agenda' = Raise(Rest) /\ Internal
    BY <1>1, <1>2 DEF ApplyRefused, AskCancelFailed, CloseRefused
  <2>2. QED
    BY <2>1, CalmRaise, InternalMove
<1>3. CASE SendRefused
  <2>1. /\ Running("send") /\ Internal /\ agenda' = <<CallOn("reject", Top.id)>> \o Tail(Rest)
    BY <1>3 DEF SendRefused
  <2>2. Rest # <<>> /\ Rest \in Seq(Low) /\ Top.id \in IntentIds
    BY <1>1, <2>1 DEF Running, EInv, Ready, ReadyCall, Top, Rest, Typed, IntentOps
  <2>3. Tail(Rest) \in Seq(Low)
    BY <2>2, TopAndRest
  <2>4. CallOn("reject", Top.id) \in Frames /\ CallOn("reject", Top.id).op = "reject"
    BY <2>2, IntentFrames DEF IntentOps
  <2>5. Calm(agenda')
    BY <2>1, <2>3, <2>4, CalmAbove DEF Above, Making
  <2>6. QED
    BY <2>1, <2>5, InternalMove
<1>4. CASE ApplyReport
  <2>1. /\ Running("apply") /\ Local /\ ApplyBrokerOrder(Top.report, clock)
        /\ agenda' = Then(IncidentCalls(Top.report))
    BY <1>4 DEF ApplyReport
  <2>2. Top.report \in Reports /\ Rest \in Seq(Low)
    BY <1>1, <2>1 DEF Typed
  <2>3. StoreNext
    BY <2>1, <2>2, ReportCalls
  <2>4. Calm(agenda')
    BY <2>1, <2>2, IncidentStack, CalmLow
  <2>5. QED
    BY <2>1, <2>3, <2>4, LocalMove
<1>5. CASE QueryAnswered
  <2>1. Running("reconcile") /\ Internal
    BY <1>5 DEF QueryAnswered
  <2>2. PICK e \in Top.todo :
          /\ Accepted(e.id)
          /\ \E u \in Answers(e.id) :
               agenda' = <<Apply(u), [Without(e) EXCEPT !.clean = @ /\ u.state # "UNKNOWN"]>> \o Rest
    BY <1>5 DEF QueryAnswered
  <2>3. PICK u \in Answers(e.id) :
          agenda' = <<Apply(u), [Without(e) EXCEPT !.clean = @ /\ u.state # "UNKNOWN"]>> \o Rest
    BY <2>2
  <2>4. e \in Entries /\ Rest \in Seq(Low) /\ Top \in Frames /\ Top.op = "reconcile"
    BY <1>1, <2>1 DEF Typed
  <2>5. u \in Reports
    BY <1>0, <2>2, <2>4, AnswersAreReports DEF Entries
  <2>6. Apply(u) \in Frames /\ Apply(u).op = "apply"
    BY <2>5, ApplyFrames
  <2> DEFINE loop == [Without(e) EXCEPT !.clean = @ /\ u.state # "UNKNOWN"]
  <2>7. loop \in Low
    <3>1. /\ Top.op \in Loops /\ Top.todo \ {e} \in SUBSET Top.todo /\ FALSE \in BOOLEAN
          /\ (Without(e).clean /\ u.state # "UNKNOWN") \in BOOLEAN
      BY <2>4 DEF Loops
    <3>2. Without(e) \in Frames /\ Without(e).op = "reconcile"
      BY <2>4, <3>1, LoopGoesOn DEF Without
    <3>3. Without(e).op \in Loops /\ Without(e).todo \in SUBSET Without(e).todo
      BY <3>2 DEF Loops
    <3>4. QED
      BY <3>1, <3>2, <3>3, LoopGoesOn
  <2> HIDE DEF loop
  <2>8. agenda' = Above(Apply(u), Above(loop, Rest))
    <3>1. ASSUME NEW below \in Seq(Low)
          PROVE  <<Apply(u), loop>> \o below = Above(Apply(u), Above(loop, below))
      BY TwoAbove
    <3>2. QED
      BY <2>3, <2>4, <3>1 DEF loop
  <2>9. Above(loop, Rest) \in Seq(Low)
    BY <2>4, <2>7, AboveProperties
  <2>10. Calm(agenda')
    BY <2>6, <2>8, <2>9, CalmAbove DEF Making
  <2>11. QED
    BY <2>1, <2>10, InternalMove
<1>6. CASE CancelSent
  <2>1. Running("cancel") /\ Local
    BY <1>6 DEF CancelSent
  <2>2. PICK e \in Top.todo :
          \/ /\ Transition(e.id, "CANCEL_PENDING")
             /\ agenda' = <<CallOn("ask_cancel", e.id), CallOn("cancelling", e.id),
                           Without(e)>> \o Rest
          \/ /\ UNCHANGED storeVars
             /\ agenda' = Raise(<<CallOn("cancelling", e.id), Without(e)>> \o Rest)
    BY <1>6 DEF CancelSent
  <2>3. e \in PendingEntries /\ Rest \in Seq(Low) /\ Top \in Frames /\ Top.op = "cancel"
    BY <1>1, <2>1 DEF Typed
  <2>4. e.id \in Symbols /\ e.id \in IntentIds
    BY <2>3 DEF PendingEntries, IntentIds
  <2>5. Without(e) \in Low
    <3>1. Top.op \in Loops /\ Top.todo \ {e} \in SUBSET Top.todo /\ FALSE \in BOOLEAN
      BY <2>3 DEF Loops
    <3>2. QED
      BY <2>3, <3>1, LoopGoesOn DEF Without
  <2>6. CallOn("cancelling", e.id) \in Low
    BY <2>4, IntentFrames DEF IntentOps, TopOnly
  <2>7. CallOn("ask_cancel", e.id) \in Frames /\ CallOn("ask_cancel", e.id).op = "ask_cancel"
    BY <2>4, AskFrames
  <2> DEFINE g == CallOn("cancelling", e.id)
             h == Without(e)
             ask == CallOn("ask_cancel", e.id)
  <2> HIDE DEF g, h, ask
  <2>8. ASSUME NEW below \in Seq(Low)
        PROVE  /\ <<g, h>> \o below \in Seq(Low)
               /\ <<ask, g, h>> \o below = Above(ask, <<g, h>> \o below)
    <3>1. <<g, h>> \in Seq(Low)
      BY <2>5, <2>6 DEF g, h
    <3>2. <<g, h>> \o below \in Seq(Low)
      BY <3>1, ConcatProperties
    <3>3. <<g, h>> \o below = Above(g, Above(h, below))
      BY TwoAbove
    <3>4. <<ask, g, h>> \o below = Above(ask, Above(g, Above(h, below)))
      BY ThreeAbove
    <3>5. QED
      BY <3>2, <3>3, <3>4
  <2>9. Calm(agenda')
    <3>1. CASE agenda' = <<ask, g, h>> \o Rest
      BY <2>3, <2>7, <2>8, <3>1, CalmAbove DEF Making, ask
    <3>2. CASE agenda' = Raise(<<g, h>> \o Rest)
      BY <2>3, <2>8, <3>2, CalmRaise
    <3>3. QED
      BY <2>2, <3>1, <3>2 DEF ask, g, h
  <2>10. [StoreNext]_storeVars
    <3>1. "CANCEL_PENDING" \in ExecutorStates
      BY DEF ExecutorStates
    <3>2. QED
      BY <2>2, <2>4, <3>1, StoreCalls
  <2>11. QED
    BY <2>1, <2>9, <2>10, LocalMove
<1>7. QED
  BY <1>2, <1>3, <1>4, <1>5, <1>6

-----------------------------------------------------------------------------
(* The steps that create, submit and send.                                 *)

(* A step of the store, or none, that puts a ready call on the stack.      *)
LEMMA MakingStep ==
  ASSUME EInv, [StoreNext]_storeVars, Local, NEW f \in Frames, NEW below \in Seq(Low),
         agenda' = Above(f, below), ReadyCall(f, below)'
  PROVE  EInv'
<1>1. IInv' /\ Complete'
  BY IInvNext, StaysComplete DEF EInv
<1>2. agenda' \in Stacks
  BY DEF Stacks, Working
<1>3. Head(agenda') = f /\ Tail(agenda') = below
  BY AboveProperties
<1>4. Ready(agenda)'
  BY <1>3 DEF Ready
<1>5. SentOnce'
  <2>1. ASSUME NEW i \in IntentIds, dispatched'[i] = 1 PROVE intents'[i].state \notin Unsent
    BY <2>1, StaysSent DEF EInv, BrokerOK, SentOnce, Local, brokerVars
  <2>2. QED
    BY <2>1 DEF SentOnce
<1>6. BrokerTyped' /\ BrokerOrders' /\ BrokerHoldings'
  BY DEF EInv, BrokerOK, BrokerTyped, BrokerOrders, BrokerHoldings, Accepted, Local, brokerVars
<1>7. QED
  BY <1>1, <1>2, <1>4, <1>5, <1>6 DEF EInv, BrokerOK

(* submit_entry creates a row that nobody has sent and goes on to prepare  *)
(* it (engine.py submit_entry).                                            *)
LEMMA SubmitEntryStep ==
  ASSUME EInv, NEW s \in Symbols, NEW n \in Units, NEW stop \in StopPrices, SubmitEntry(s, n, stop)
  PROVE  EInv' /\ StoreNext
<1>1. StoreNext /\ Local /\ agenda' = <<CallOn("prepare", s)>> /\ CreateEntry(s, n, stop)
  BY StoreCalls DEF SubmitEntry
<1>2. /\ CallOn("prepare", s) \in Frames /\ CallOn("prepare", s).op = "prepare"
      /\ CallOn("prepare", s).id = s
  BY IntentFrames DEF IntentOps, IntentIds
<1>3. intents'[s].state = "APPROVED"
  BY <1>1 DEF CreateEntry, NewIntent, EInv, IInv, TypeOK, IntentIds
<1>4. <<>> \in Seq(Low) /\ agenda' = Above(CallOn("prepare", s), <<>>)
  <2>1. <<CallOn("prepare", s)>> \in Seq(Frames)
    BY <1>2
  <2>2. QED
    BY <1>1, <2>1, ConcatEmptySeq DEF Above
<1>5. ReadyCall(CallOn("prepare", s), <<>>)'
  BY <1>2, <1>3 DEF ReadyCall
<1>6. QED
  BY <1>1, <1>2, <1>4, <1>5, MakingStep

(* An approved entry stays approved and unsent until it is submitted or    *)
(* rejected (engine.py submit_entry).                                      *)
LEMMA PrepareStep ==
  ASSUME EInv, Prepare
  PROVE  EInv' /\ UNCHANGED storeVars
<1>1. /\ Running("prepare") /\ Internal
      /\ \/ agenda' = Then(<<CallOn("submit", Top.id)>>)
         \/ agenda' = Then(<<CallOn("reject", Top.id)>>)
         \/ agenda' = Raise(Rest)
  BY DEF Prepare
<1>2. Rest \in Seq(Low) /\ Top.id \in IntentIds
  BY <1>1, Topmost DEF Running, EInv, Typed, IntentOps
<1>3. CASE agenda' = Then(<<CallOn("submit", Top.id)>>)
  <2>1. /\ CallOn("submit", Top.id) \in Frames /\ CallOn("submit", Top.id).op = "submit"
        /\ CallOn("submit", Top.id).id = Top.id
    BY <1>2, IntentFrames DEF IntentOps
  <2>2. intents[Top.id].state = "APPROVED"
    BY <1>1 DEF Running, Top, EInv, Ready, ReadyCall
  <2> DEFINE f == CallOn("submit", Top.id)
             i == Top.id
             below == Rest
  <2>3. /\ f \in Frames /\ f.op = "submit" /\ f.id = i /\ below \in Seq(Low)
        /\ intents[i].state = "APPROVED" /\ agenda' = Above(f, below)
    BY <1>2, <1>3, <2>1, <2>2, Calls1
  <2>4. intents' = intents
    BY <1>1 DEF Internal, storeVars, orderVars
  <2> SUFFICES EInv'
    BY <1>1 DEF Internal
  <2>5. ASSUME NEW g \in Frames, NEW j, NEW lower \in Seq(Low), g.op = "submit", g.id = j,
               intents[j].state = "APPROVED", agenda' = Above(g, lower)
        PROVE  EInv'
    <3>1. ReadyCall(g, lower)'
      BY <2>4, <2>5 DEF ReadyCall
    <3>2. Local /\ [StoreNext]_storeVars
      BY <1>1 DEF Internal
    <3>3. QED
      BY <2>5, <3>1, <3>2, MakingStep
  <2> HIDE DEF f, i, below
  <2>6. QED
    BY <2>3, <2>5
<1>4. CASE agenda' = Then(<<CallOn("reject", Top.id)>>)
  <2>1. /\ CallOn("reject", Top.id) \in Frames /\ CallOn("reject", Top.id).op = "reject"
    BY <1>2, IntentFrames DEF IntentOps
  <2>2. Calm(agenda')
    BY <1>2, <1>4, <2>1, CalmThen DEF Making
  <2>3. QED
    BY <1>1, <2>2, InternalMove, CalmMoves DEF Internal
<1>5. CASE agenda' = Raise(Rest)
  <2>1. Calm(agenda')
    BY <1>2, <1>5, CalmRaise
  <2>2. QED
    BY <1>1, <2>1, InternalMove, CalmMoves DEF Internal
<1>6. QED
  BY <1>1, <1>3, <1>4, <1>5

(* SUBMITTING is written before the order is sent, and only once (engine.py*)
(* _submit).                                                               *)
LEMMA SubmitStep ==
  ASSUME EInv, Submit
  PROVE  EInv' /\ StoreNext
<1>1. /\ Running("submit") /\ Local /\ Transition(Top.id, "SUBMITTING")
      /\ agenda' = <<CallOn("send", Top.id), CallOn("sending", Top.id)>> \o Rest
  BY DEF Submit
<1>2. Rest \in Seq(Low) /\ Top.id \in IntentIds /\ intents[Top.id].state = "APPROVED"
  BY <1>1, Topmost DEF Running, EInv, Typed, IntentOps, Ready, ReadyCall, Top
<1>3. ASSUME NEW i \in IntentIds, NEW below \in Seq(Low), Transition(i, "SUBMITTING"),
             intents[i].state = "APPROVED",
             agenda' = <<CallOn("send", i), CallOn("sending", i)>> \o below
      PROVE  EInv' /\ StoreNext
  <2>1. "SUBMITTING" \in ExecutorStates
    BY DEF ExecutorStates
  <2>2. StoreNext
    BY <1>3, <2>1, StoreCalls
  <2>3. /\ CallOn("send", i) \in Frames /\ CallOn("send", i).op = "send" /\ CallOn("send", i).id = i
        /\ CallOn("sending", i) \in Low /\ CallOn("sending", i).op = "sending"
    BY IntentFrames DEF IntentOps, TopOnly
  <2>4. agenda' = Above(CallOn("send", i), Above(CallOn("sending", i), below))
    BY <1>3, TwoAbove
  <2>5. /\ Above(CallOn("sending", i), below) \in Seq(Low)
        /\ Above(CallOn("sending", i), below) # <<>>
        /\ Head(Above(CallOn("sending", i), below)).op = "sending"
    BY <2>3, AboveProperties
  <2>6. dispatched'[i] = 0
    BY <1>1, <1>3 DEF EInv, BrokerOK, BrokerTyped, SentOnce, Unsent, Local, brokerVars
  <2>7. intents'[i].state = "SUBMITTING"
    BY <1>3 DEF Transition, EInv, IInv, TypeOK, OrderIntent
  <2>8. ReadyCall(CallOn("send", i), Above(CallOn("sending", i), below))'
    BY <2>3, <2>5, <2>6, <2>7 DEF ReadyCall
  <2>9. QED
    BY <1>1, <2>2, <2>3, <2>4, <2>5, <2>8, MakingStep
<1>4. QED
  BY <1>1, <1>2, <1>3

(* close_owned creates a row that nobody has sent (engine.py close_owned). *)
LEMMA CloseCreateStep ==
  ASSUME EInv, Running("close") \/ Running("close_recheck"), CreateCloseOf(Top.id)
  PROVE  /\ EInv' /\ StoreNext
         /\ Top.id \in PositionIds /\ CreateClose(Top.id, positions[Top.id].units)
<1>1. /\ Local /\ CreateClose(Top.id, positions[Top.id].units)
      /\ agenda' = Then(<<CallOn("submit", Top.id)>>)
  BY DEF CreateCloseOf
<1>2. Rest \in Seq(Low) /\ Top.id \in PositionIds
  BY Topmost DEF Running, EInv, Typed
<1>3. agenda' = Above(CallOn("submit", Top.id), Rest)
  BY <1>1, Calls1
<1>4. ASSUME NEW p \in PositionIds, NEW below \in Seq(Low), CreateClose(p, positions[p].units),
             agenda' = Above(CallOn("submit", p), below)
      PROVE  EInv' /\ StoreNext
  <2>1. positions[p].units \in Units
    BY DEF EInv, IInv, TypeOK, Position
  <2>2. StoreNext
    BY <1>4, <2>1, StoreCalls
  <2>3. /\ CallOn("submit", p) \in Frames /\ CallOn("submit", p).op = "submit"
        /\ CallOn("submit", p).id = p
    BY IntentFrames DEF IntentOps, IntentIds
  <2>4. intents'[p].state = "APPROVED"
    BY <1>4 DEF CreateClose, NewIntent, EInv, IInv, TypeOK, IntentIds
  <2>5. ReadyCall(CallOn("submit", p), below)'
    BY <2>3, <2>4 DEF ReadyCall
  <2>6. QED
    BY <1>1, <1>4, <2>2, <2>3, <2>5, MakingStep
<1>5. QED
  BY <1>1, <1>2, <1>3, <1>4

(* So it does after it has looked at the position again.                   *)
LEMMA CloseCreateSteps ==
  ASSUME EInv, CloseCreate \/ CloseRecheck
  PROVE  EInv' /\ [StoreNext]_storeVars
<1>1. CASE CloseCreate
  BY <1>1, CloseCreateStep DEF CloseCreate
<1>2. CASE CloseRecheck
  <2>1. Running("close_recheck")
    BY <1>2 DEF CloseRecheck
  <2>2. CASE CreateCloseOf(Top.id)
    BY <2>1, <2>2, CloseCreateStep
  <2>3. CASE agenda' = Then(<<>>) /\ Internal
    <3>1. Rest \in Seq(Low)
      BY <2>1, Topmost DEF Running, EInv
    <3>2. Calm(agenda')
      BY <2>3, <3>1, CalmThen
    <3>3. QED
      BY <2>3, <3>2, InternalMove, CalmMoves DEF Internal
  <2>4. QED
    BY <1>2, <2>2, <2>3 DEF CloseRecheck
<1>3. QED
  BY <1>1, <1>2

-----------------------------------------------------------------------------
(* The steps at the broker.                                                *)

(* A step that leaves the store alone.                                     *)
LEMMA BrokerStep ==
  ASSUME EInv, UNCHANGED storeVars, BrokerOK',
         Calm(agenda') \/ (agenda' = agenda /\ dispatched' = dispatched)
  PROVE  EInv'
<1>1. IInv' /\ Complete'
  BY IInvNext, StaysComplete DEF EInv
<1>2. agenda' \in Stacks /\ Ready(agenda)'
  <2>1. CASE Calm(agenda')
    BY <2>1 DEF Calm, Ready, ReadyCall, Making
  <2>2. CASE agenda' = agenda /\ dispatched' = dispatched
    <3>1. intents' = intents
      BY DEF storeVars, orderVars
    <3>2. QED
      BY <2>2, <3>1 DEF EInv, Ready, ReadyCall
  <2>3. QED
    BY <2>1, <2>2
<1>3. QED
  BY <1>1, <1>2 DEF EInv

(* More of an order fills, at once or later.                               *)
LEMMA FillStep ==
  ASSUME IInv, BrokerOK, NEW i \in IntentIds, NEW o \in Order, o.state # Nil,
         o.protected \in Protection, o.filled_units >= orders[i].filled_units,
         CanFill(i, o.filled_units - orders[i].filled_units),
         orders' = [orders EXCEPT ![i] = o],
         held' = HeldAfter(i, o.filled_units - orders[i].filled_units),
         clock' = ClockAfter(o.filled_units - orders[i].filled_units),
         dispatched' \in [IntentIds -> {0, 1}], dispatched'[i] = 1,
         \A j \in IntentIds : j # i => dispatched'[j] = dispatched[j]
  PROVE  /\ orders' \in [IntentIds -> Order] /\ held' \in [PositionIds -> Units]
         /\ clock' \in 0..MaxTime /\ clock' >= clock
         /\ BrokerOrders' /\ BrokerHoldings'
         /\ Etoro /\ o.filled_units > 0 => clock' >= 1
<1> USE StoreAssumption, ExecutorAssumption
<1> DEFINE delta == o.filled_units - orders[i].filled_units
           P == PositionOfIntent(i)
<1>1. /\ orders \in [IntentIds -> Order] /\ held \in [PositionIds -> Units] /\ clock \in 0..MaxTime
      /\ orders[i].filled_units \in Units /\ o.filled_units \in Units /\ MaxTime \in Nat
  BY DEF BrokerOK, BrokerTyped, Order
<1>2. delta \in Nat
  BY <1>1 DEF Units
<1>3. P \in PositionIds /\ (Kind(i) = "entry" <=> i \in Symbols)
  BY DEF PositionOfIntent, Kind, IntentIds
<1>4. /\ Etoro /\ delta > 0 => clock < MaxTime
      /\ Kind(i) = "close" => delta <= held[i]
      /\ clock' = IF Etoro /\ delta > 0 THEN clock + 1 ELSE clock
      /\ held' = [held EXCEPT ![P] = IF Kind(i) = "entry" THEN held[P] + delta ELSE held[P] - delta]
  BY DEF CanFill, ClockAfter, HeldAfter
<1>5. orders' \in [IntentIds -> Order]
  BY <1>1
<1>6. orders'[i] = o /\ \A j \in IntentIds : j # i => orders'[j] = orders[j]
  BY <1>1
<1> HIDE DEF delta, P
<1>7. clock' \in 0..MaxTime /\ clock' >= clock
  BY <1>1, <1>2, <1>4
<1>8. ASSUME i \in Symbols
      PROVE  held[P] \in Nat /\ held[P] <= orders[i].filled_units /\ P = PositionOf[i]
  BY <1>1, <1>3, <1>8 DEF BrokerOK, BrokerHoldings, P, PositionOfIntent, Units
<1>9. held' \in [PositionIds -> Units]
  <2>1. CASE i \in Symbols
    <3>1. held[P] + delta \in Units
      BY <1>1, <1>2, <1>8, <2>1 DEF delta, Units
    <3>2. QED
      BY <1>1, <1>3, <1>4, <2>1, <3>1
  <2>2. CASE i \notin Symbols
    <3>1. P = i /\ Kind(i) = "close"
      BY <1>3, <2>2 DEF P, PositionOfIntent, Kind
    <3>2. held[P] \in Units /\ held[P] - delta \in Units
      BY <1>1, <1>2, <1>3, <1>4, <3>1 DEF Units
    <3>3. QED
      BY <1>1, <1>3, <1>4, <3>1, <3>2
  <2>3. QED
    BY <2>1, <2>2
<1>10. Etoro /\ o.filled_units > 0 => clock' >= 1
  <2>1. CASE delta > 0
    BY <1>1, <1>4, <2>1
  <2>2. CASE delta = 0
    <3>1. o.filled_units = orders[i].filled_units
      BY <1>1, <2>2 DEF delta, Units
    <3>2. QED
      BY <1>1, <1>7, <3>1 DEF BrokerOK, BrokerOrders
  <2>3. QED
    BY <1>2, <2>1, <2>2
<1>11. BrokerOrders'
  <2>1. ASSUME NEW j \in IntentIds
        PROVE  /\ orders'[j].state # Nil => orders'[j].protected \in Protection
               /\ orders'[j].state = Nil => orders'[j].filled_units = 0
               /\ Etoro /\ orders'[j].filled_units > 0 => clock' >= 1
               /\ dispatched'[j] = 0 => orders'[j].state = Nil
    <3>1. CASE j = i
      BY <1>6, <1>10, <3>1
    <3>2. CASE j # i
      BY <1>1, <1>6, <1>7, <3>2 DEF BrokerOK, BrokerOrders, Accepted
    <3>3. QED
      BY <3>1, <3>2
  <2>2. QED
    BY <2>1 DEF BrokerOrders, Accepted
<1>12. BrokerHoldings'
  <2>1. ASSUME NEW s \in Symbols PROVE held'[PositionOf[s]] <= orders'[s].filled_units
    <3>1. /\ PositionOf[s] \in PositionIds /\ held[PositionOf[s]] \in Nat /\ s \in IntentIds
          /\ orders[s].filled_units \in Nat /\ held[PositionOf[s]] <= orders[s].filled_units
      BY <1>1 DEF BrokerOK, BrokerHoldings, IntentIds, Order, Units
    <3>2. CASE s = i
      <4>1. held'[P] = held[P] + delta
        BY <1>1, <1>3, <1>4, <3>2
      <4>2. held[P] + delta <= o.filled_units
        BY <1>1, <1>2, <1>8, <3>2 DEF delta, Units
      <4>3. QED
        BY <1>6, <1>8, <3>2, <4>1, <4>2
    <3>3. CASE s # i /\ i \in Symbols
      <4>1. PositionOf[s] # P
        BY <1>8, <3>3
      <4>2. held'[PositionOf[s]] = held[PositionOf[s]]
        BY <1>1, <1>4, <3>1, <4>1
      <4>3. QED
        BY <1>6, <3>1, <3>3, <4>2
    <3>4. CASE i \notin Symbols
      <4>1. orders'[s] = orders[s] /\ Kind(i) # "entry"
        BY <1>3, <1>6, <3>1, <3>4
      <4>2. held'[PositionOf[s]] = held[PositionOf[s]]
              \/ (held'[PositionOf[s]] = held[PositionOf[s]] - delta)
        BY <1>1, <1>4, <3>1, <4>1
      <4>3. QED
        BY <1>2, <3>1, <4>1, <4>2
    <3>5. QED
      BY <3>2, <3>3, <3>4
  <2>2. QED
    BY <2>1 DEF BrokerHoldings
<1>13. QED
  BY <1>5, <1>7, <1>9, <1>10, <1>11, <1>12

(* The request leaves once: the intent was SUBMITTING and never sent, and  *)
(* whatever the answer the call does not come back (engine.py _send).    *)
LEMMA SendStep ==
  ASSUME EInv, SendAccepted \/ SendFailed
  PROVE  EInv' /\ UNCHANGED storeVars
<1> USE StoreAssumption, ExecutorAssumption
<1>1. /\ Running("send") /\ UNCHANGED <<storeVars, moved, unseen, moves, started, crashes>>
  BY DEF SendAccepted, SendFailed
<1>2. PICK i : i = Top.id
  OBVIOUS
<1>3. /\ i \in IntentIds /\ Rest \in Seq(Low) /\ intents[i].state = "SUBMITTING"
      /\ dispatched[i] = 0
  BY <1>1, <1>2, Topmost DEF Running, EInv, Typed, IntentOps, Ready, ReadyCall, Top
<1>4. /\ IInv /\ BrokerOK /\ BrokerTyped /\ orders[i].filled_units = 0
      /\ intents[i].units \in Units
  BY <1>3 DEF EInv, BrokerOK, BrokerOrders, IInv, TypeOK, OrderIntent
<1>5. dispatched' = [dispatched EXCEPT ![i] = @ + 1]
  BY <1>2 DEF SendAccepted, SendFailed
<1>6. /\ dispatched' \in [IntentIds -> {0, 1}] /\ dispatched'[i] = 1
      /\ \A j \in IntentIds : j # i => dispatched'[j] = dispatched[j]
  BY <1>3, <1>4, <1>5 DEF BrokerTyped
<1>7. intents' = intents
  BY <1>1 DEF storeVars, orderVars
<1>8. SentOnce'
  <2>1. "SUBMITTING" \notin Unsent
    BY NilDistinct DEF Unsent, OrderState, ACTIVE_STATES
  <2>2. ASSUME NEW j \in IntentIds, dispatched'[j] = 1 PROVE intents'[j].state \notin Unsent
    BY <1>3, <1>4, <1>6, <1>7, <2>1, <2>2 DEF BrokerOK, SentOnce
  <2>3. QED
    BY <2>2 DEF SentOnce
<1>9. Calm(Raise(Rest))
  BY <1>3, CalmRaise
<1>10. CASE SendFailed
  <2>1. UNCHANGED <<orders, held, clock>> /\ agenda' = Raise(Rest)
    BY <1>10 DEF SendFailed
  <2>2. BrokerTyped'
    BY <1>1, <1>4, <1>6, <2>1 DEF BrokerTyped
  <2>3. BrokerOrders' /\ BrokerHoldings'
    <3>1. ASSUME NEW j \in IntentIds, dispatched'[j] = 0 PROVE dispatched[j] = 0
      BY <1>3, <1>6, <3>1
    <3>2. BrokerOrders'
      BY <1>4, <2>1, <3>1 DEF BrokerOK, BrokerOrders, Accepted
    <3>3. BrokerHoldings'
      BY <1>4, <2>1 DEF BrokerOK, BrokerHoldings
    <3>4. QED
      BY <3>2, <3>3
  <2>4. QED
    BY <1>1, <1>8, <1>9, <2>1, <2>2, <2>3, BrokerStep DEF BrokerOK
<1>11. CASE SendAccepted
  <2>1. PICK n \in IF Etoro THEN {0} ELSE 0..intents[i].units, protected \in Protection,
             lost \in BOOLEAN :
          LET o == [state |-> FillState(intents[i].units, n), filled_units |-> n,
                    protected |-> protected]
          IN /\ CanFill(i, n)
             /\ orders' = [orders EXCEPT ![i] = o]
             /\ held' = HeldAfter(i, n)
             /\ clock' = ClockAfter(n)
             /\ agenda' = IF lost THEN Raise(Rest)
                          ELSE <<Apply(ReportAt(i, o, held', clock'))>> \o Rest
    BY <1>2, <1>11 DEF SendAccepted
  <2>2. PICK o : o = [state |-> FillState(intents[i].units, n), filled_units |-> n,
                      protected |-> protected]
    OBVIOUS
  <2>3. n \in Units
    BY <1>4 DEF Units
  <2>4. FillState(intents[i].units, n) \in {"FILLED", "PARTIALLY_FILLED", "ACKNOWLEDGED"}
    BY DEF FillState
  <2>5. FillState(intents[i].units, n) \in BrokerStates /\ FillState(intents[i].units, n) # Nil
    BY <2>4, NilDistinct DEF BrokerStates, OrderState, ACTIVE_STATES, TERMINAL_STATES
  <2>6. /\ o \in Order /\ o.state # Nil /\ o.protected \in Protection /\ o.filled_units = n
        /\ o.filled_units - orders[i].filled_units = n /\ n >= 0
    BY <1>4, <2>2, <2>3, <2>5 DEF Order, Units
  <2>7. /\ CanFill(i, n) /\ orders' = [orders EXCEPT ![i] = o] /\ held' = HeldAfter(i, n)
        /\ clock' = ClockAfter(n)
    BY <2>1, <2>2
  <2>8. /\ orders' \in [IntentIds -> Order] /\ held' \in [PositionIds -> Units]
        /\ clock' \in 0..MaxTime /\ BrokerOrders' /\ BrokerHoldings'
        /\ Etoro /\ o.filled_units > 0 => clock' >= 1
    <3>1. o.filled_units >= orders[i].filled_units
      BY <1>4, <2>6
    <3>2. /\ CanFill(i, o.filled_units - orders[i].filled_units)
          /\ held' = HeldAfter(i, o.filled_units - orders[i].filled_units)
          /\ clock' = ClockAfter(o.filled_units - orders[i].filled_units)
      BY <2>6, <2>7
    <3>3. QED
      BY <1>3, <1>4, <1>6, <2>6, <2>7, <3>1, <3>2, FillStep
  <2>9. BrokerTyped'
    BY <1>1, <1>4, <1>6, <2>8 DEF BrokerTyped
  <2>10. Calm(agenda')
    <3>1. CASE lost
      BY <1>9, <2>1, <3>1
    <3>2. CASE ~lost
      <4>1. agenda' = <<Apply(ReportAt(i, o, held', clock'))>> \o Rest
        BY <2>1, <2>2, <3>2
      <4>2. PICK holding, at : holding = held' /\ at = clock'
        OBVIOUS
      <4>3. ReportAt(i, o, holding, at) \in Reports
        BY <1>3, <2>6, <2>8, <4>2, ReportsAreReports
      <4>4. /\ Apply(ReportAt(i, o, holding, at)) \in Frames
            /\ Apply(ReportAt(i, o, holding, at)).op = "apply"
        BY <4>3, ApplyFrames
      <4>5. QED
        BY <1>3, <4>1, <4>2, <4>4, CalmAbove DEF Above, Making
    <3>3. QED
      BY <3>1, <3>2
  <2>11. QED
    BY <1>1, <1>8, <2>8, <2>9, <2>10, BrokerStep DEF BrokerOK
<1>12. QED
  BY <1>10, <1>11

(* Edits of an order that fill nothing: a protection, a cancel, an end.     *)
LEMMA EditStep ==
  ASSUME EInv, UNCHANGED storeVars, UNCHANGED <<held, clock, dispatched>>,
         NEW i \in IntentIds, NEW o \in Order,
         orders' = [orders EXCEPT ![i] = o],
         o.filled_units = orders[i].filled_units, o.state = Nil <=> orders[i].state = Nil,
         o.protected = orders[i].protected \/ o.protected \in Protection,
         moves' \in 0..MaxMoves, moved' \in SUBSET IntentIds, unseen' \in SUBSET IntentIds,
         UNCHANGED <<started, crashes>>,
         Calm(agenda') \/ agenda' = agenda
  PROVE  EInv'
<1>1. BrokerTyped /\ orders \in [IntentIds -> Order] /\ intents' = intents
  BY DEF EInv, BrokerOK, BrokerTyped, storeVars, orderVars
<1>2. orders'[i] = o /\ \A j \in IntentIds : j # i => orders'[j] = orders[j]
  BY <1>1
<1>3. BrokerTyped'
  BY <1>1 DEF BrokerTyped
<1>4. BrokerOrders'
  <2>1. ASSUME NEW j \in IntentIds
        PROVE  /\ orders'[j].filled_units = orders[j].filled_units
               /\ orders'[j].state = Nil <=> orders[j].state = Nil
               /\ orders'[j].protected = orders[j].protected \/ orders'[j].protected \in Protection
    BY <1>2
  <2>2. QED
    BY <2>1 DEF EInv, BrokerOK, BrokerOrders, Accepted
<1>5. BrokerHoldings'
  <2>1. ASSUME NEW s \in Symbols PROVE orders'[s].filled_units = orders[s].filled_units
    BY <1>2 DEF IntentIds
  <2>2. QED
    BY <2>1 DEF EInv, BrokerOK, BrokerHoldings
<1>6. SentOnce'
  BY <1>1 DEF EInv, BrokerOK, SentOnce
<1>7. QED
  BY <1>3, <1>4, <1>5, <1>6, BrokerStep DEF BrokerOK

(* Tightening a stop edits the protection of an order and nothing else of  *)
(* the broker (engine.py tighten_stop).                                   *)
LEMMA TightenStep ==
  ASSUME EInv, NEW p \in OpenPositions, NEW stop \in StopPrices, TightenStop(p, stop)
  PROVE  EInv' /\ UNCHANGED storeVars
<1>1. /\ UNCHANGED <<storeVars, held, clock, dispatched, moved, unseen, moves, started, crashes>>
      /\ positions[p].owner_intent_id \in Symbols
      /\ orders' \in {orders, [orders EXCEPT ![positions[p].owner_intent_id].protected = TRUE]}
      /\ agenda' \in {<<Frame("set_protection", p, {}, TRUE, stop)>>,
                      <<Call("pause"), Call("cancel_all"), CallOn("close", p)>>}
  BY DEF TightenStop, OwnershipProven
<1>2. p \in PositionIds
  BY DEF OpenPositions
<1>3. Calm(agenda')
  <2>1. StopFrame(p, stop) \in Low /\ Call("pause") \in Low /\ Call("cancel_all") \in Low
        /\ CallOn("close", p) \in Low
    BY <1>2, StopFrames, CallFrames, PositionFrames DEF PlainOps
  <2>2. <<StopFrame(p, stop)>> \in Seq(Low)
        /\ <<Call("pause"), Call("cancel_all"), CallOn("close", p)>> \in Seq(Low)
    BY <2>1
  <2>3. agenda' \in Seq(Low)
    BY <1>1, <2>2 DEF StopFrame
  <2>4. QED
    BY <2>3, CalmLow
<1>4. PICK s \in Symbols : s = positions[p].owner_intent_id
  BY <1>1
<1>5. /\ s \in IntentIds /\ orders[s] \in Order /\ moves \in 0..MaxMoves
      /\ moved \in SUBSET IntentIds /\ unseen \in SUBSET IntentIds
      /\ orders \in [IntentIds -> Order]
  BY DEF EInv, BrokerOK, BrokerTyped, IntentIds
<1>6. ASSUME NEW o \in Order, orders' = [orders EXCEPT ![s] = o],
             o.filled_units = orders[s].filled_units, o.state = orders[s].state,
             o.protected = orders[s].protected \/ o.protected \in Protection
      PROVE  EInv'
  BY <1>1, <1>3, <1>5, <1>6, EditStep
<1>7. CASE orders' = orders
  <2>1. orders' = [orders EXCEPT ![s] = orders[s]]
    BY <1>5, <1>7
  <2>2. QED
    BY <1>1, <1>5, <1>6, <2>1
<1>8. CASE orders' = [orders EXCEPT ![s].protected = TRUE]
  <2> DEFINE o == [orders[s] EXCEPT !.protected = TRUE]
  <2>1. /\ o \in Order /\ o.filled_units = orders[s].filled_units /\ o.state = orders[s].state
        /\ o.protected = TRUE
    BY <1>5 DEF Order
  <2>2. orders' = [orders EXCEPT ![s] = o]
    BY <1>5, <1>8
  <2> HIDE DEF o
  <2>3. QED
    BY <1>1, <1>6, <2>1, <2>2, ExecutorAssumption
<1>9. QED
  BY <1>1, <1>4, <1>7, <1>8

(* What the broker makes of a cancel request.                              *)
LEMMA CancelOutcome ==
  ASSUME NEW o \in Order, o.state # Nil, NEW outcome \in CancelOutcomes(o)
  PROVE  /\ outcome.order \in Order /\ outcome.order.state # Nil
         /\ outcome.order.filled_units = o.filled_units
         /\ outcome.order.protected = o.protected
         /\ outcome.reported \in BrokerStates
         /\ \/ outcome.reported = "CANCEL_PENDING"
            \/ outcome.reported = outcome.order.state /\ outcome.reported \in {"FILLED", "CANCELLED"}
         /\ outcome.order.state \in {o.state, "CANCEL_PENDING", "CANCELLED"}
<1>1. /\ "CANCEL_PENDING" \in BrokerStates /\ "CANCELLED" \in BrokerStates
      /\ "FILLED" \in BrokerStates /\ "CANCEL_PENDING" # Nil /\ "CANCELLED" # Nil
  BY NilDistinct DEF BrokerStates, OrderState, ACTIVE_STATES, TERMINAL_STATES
<1>2. ASSUME NEW state \in BrokerStates, state # Nil
      PROVE  LET edited == [o EXCEPT !.state = state]
             IN /\ edited \in Order /\ edited.state = state
                /\ edited.filled_units = o.filled_units /\ edited.protected = o.protected
  BY DEF Order
<1>3. /\ CancelRequested(o) \in Order /\ CancelRequested(o).state \in {o.state, "CANCEL_PENDING"}
      /\ CancelRequested(o).filled_units = o.filled_units
      /\ CancelRequested(o).protected = o.protected
  BY <1>1, <1>2 DEF CancelRequested
<1>4. /\ CancelledOrder(o) \in Order /\ CancelledOrder(o).state \in {"FILLED", "CANCELLED"}
      /\ CancelledOrder(o).state \in {o.state, "CANCELLED"}
      /\ CancelledOrder(o).filled_units = o.filled_units
      /\ CancelledOrder(o).protected = o.protected
  BY <1>1, <1>2 DEF CancelledOrder
<1>5. CASE outcome = [order |-> CancelRequested(o), reported |-> "CANCEL_PENDING"]
  BY <1>1, <1>3, <1>5
<1>6. CASE outcome = [order |-> CancelledOrder(o), reported |-> CancelledOrder(o).state]
  BY <1>1, <1>4, <1>6
<1>7. QED
  BY <1>5, <1>6 DEF CancelOutcomes

(* A cancellation the broker receives only ends orders, and what it answers*)
(* is a report (engine.py cancel_pending_entries).                         *)
LEMMA AskCancelStep ==
  ASSUME EInv, AskCancel
  PROVE  EInv' /\ UNCHANGED storeVars
<1>1. /\ Running("ask_cancel") /\ Accepted(Top.id)
      /\ UNCHANGED <<storeVars, held, clock, dispatched, moved, unseen, moves, started, crashes>>
  BY DEF AskCancel
<1>2. PICK i : i = Top.id
  OBVIOUS
<1>3. /\ i \in Symbols /\ Rest \in Seq(Low)
  BY <1>1, <1>2, Topmost DEF Running, EInv, Typed
<1>4. PICK outcome \in CancelOutcomes(orders[i]), lost \in BOOLEAN :
        /\ orders' = [orders EXCEPT ![i] = outcome.order]
        /\ agenda' = IF lost THEN Raise(Rest)
                     ELSE <<Apply([ReportOn(i, outcome.order) EXCEPT
                                        !.state = outcome.reported])>> \o Rest
  BY <1>2 DEF AskCancel
<1>5. /\ i \in IntentIds /\ orders[i] \in Order /\ orders[i].state # Nil
      /\ orders[i].protected \in Protection /\ moves \in 0..MaxMoves
      /\ moved \in SUBSET IntentIds /\ unseen \in SUBSET IntentIds
      /\ held \in [PositionIds -> Units] /\ clock \in 0..MaxTime
      /\ Etoro /\ orders[i].filled_units > 0 => clock >= 1
  BY <1>1, <1>2, <1>3 DEF EInv, BrokerOK, BrokerTyped, BrokerOrders, Accepted, IntentIds
<1>6. PICK o : o = outcome.order
  OBVIOUS
<1>7. /\ o \in Order /\ o.state # Nil /\ o.filled_units = orders[i].filled_units
      /\ o.protected = orders[i].protected /\ outcome.reported \in BrokerStates
  BY <1>5, <1>6, CancelOutcome
<1>8. Calm(agenda')
  <2>1. CASE lost
    BY <1>3, <1>4, <2>1, CalmRaise
  <2>2. CASE ~lost
    <3>1. ReportOn(i, o) \in Reports
      BY <1>5, <1>7, ReportsAreReports DEF ReportOn
    <3>2. PICK u : u = [ReportOn(i, o) EXCEPT !.state = outcome.reported]
      OBVIOUS
    <3>3. u \in Reports
      BY <1>7, <3>1, <3>2, ReportEdits
    <3>4. Apply(u) \in Frames /\ Apply(u).op = "apply"
      BY <3>3, ApplyFrames
    <3>5. agenda' = Above(Apply(u), Rest)
      BY <1>4, <1>6, <2>2, <3>2 DEF Above
    <3>6. QED
      BY <1>3, <3>4, <3>5, CalmAbove DEF Making
  <2>3. QED
    BY <2>1, <2>2
<1>9. orders' = [orders EXCEPT ![i] = o]
  BY <1>4, <1>6
<1>10. EInv'
  BY <1>1, <1>5, <1>7, <1>8, <1>9, EditStep
<1>11. QED
  BY <1>1, <1>10

(* The broker on its own.                                                  *)
LEMMA BrokerMoveStep ==
  ASSUME EInv, BrokerMoves
  PROVE  EInv' /\ UNCHANGED storeVars
<1> USE StoreAssumption, ExecutorAssumption
<1>0. /\ IInv /\ BrokerOK /\ BrokerTyped
      /\ moved \in SUBSET IntentIds /\ unseen \in SUBSET IntentIds /\ moves \in 0..MaxMoves
  BY DEF EInv, BrokerOK, BrokerTyped
<1>1. ASSUME NEW i \in IntentIds, MoveOf(i)
      PROVE  /\ moves' \in 0..MaxMoves /\ moved' \in SUBSET IntentIds /\ unseen' \in SUBSET IntentIds
             /\ UNCHANGED <<storeVars, dispatched, started, agenda, crashes>>
  <2>1. PositionOfIntent(i) \in IntentIds
    BY DEF PositionOfIntent, Kind, IntentIds
  <2>2. QED
    BY <1>0, <1>1, <2>1 DEF MoveOf
<1>2. ASSUME NEW i \in IntentIds, NEW n \in Units, NEW protected \in Protection,
             BrokerFills(i, n, protected)
      PROVE  EInv' /\ UNCHANGED storeVars
  <2>1. PICK o : o = [state |-> FillState(intents[i].units, n), filled_units |-> n,
                      protected |-> protected]
    OBVIOUS
  <2>2. /\ orders[i].state # Nil /\ n > orders[i].filled_units
        /\ CanFill(i, n - orders[i].filled_units)
        /\ orders' = [orders EXCEPT ![i] = o]
        /\ held' = HeldAfter(i, n - orders[i].filled_units)
        /\ clock' = ClockAfter(n - orders[i].filled_units)
        /\ MoveOf(i)
    <3>1. orders[i].state # Nil
      BY <1>2, NilDistinct DEF BrokerFills, Live, OrderState, ACTIVE_STATES, TERMINAL_STATES
    <3>2. orders[i].filled_units \in Nat /\ intents[i].units \in Nat
      BY <1>0 DEF BrokerTyped, Order, Units, IInv, TypeOK, OrderIntent
    <3>3. n > orders[i].filled_units
      BY <1>2, <3>2 DEF BrokerFills
    <3>4. QED
      BY <1>2, <2>1, <3>1, <3>3 DEF BrokerFills
  <2>3. FillState(intents[i].units, n) \in {"FILLED", "PARTIALLY_FILLED", "ACKNOWLEDGED"}
    BY DEF FillState
  <2>4. FillState(intents[i].units, n) \in BrokerStates /\ FillState(intents[i].units, n) # Nil
    BY <2>3, NilDistinct DEF BrokerStates, OrderState, ACTIVE_STATES, TERMINAL_STATES
  <2>5. /\ o \in Order /\ o.state # Nil /\ o.protected \in Protection /\ o.filled_units = n
    BY <2>1, <2>4 DEF Order
  <2>6. /\ dispatched' = dispatched /\ dispatched[i] = 1 /\ dispatched \in [IntentIds -> {0, 1}]
    BY <1>0, <1>1, <2>2 DEF BrokerOK, BrokerTyped, BrokerOrders, Accepted
  <2>7. /\ o.filled_units >= orders[i].filled_units
        /\ CanFill(i, o.filled_units - orders[i].filled_units)
        /\ held' = HeldAfter(i, o.filled_units - orders[i].filled_units)
        /\ clock' = ClockAfter(o.filled_units - orders[i].filled_units)
    <3>1. orders[i].filled_units \in Nat /\ n \in Nat
      BY <1>0 DEF BrokerTyped, Order, Units
    <3>2. QED
      BY <2>2, <2>5, <3>1
  <2>8. /\ orders' \in [IntentIds -> Order] /\ held' \in [PositionIds -> Units]
        /\ clock' \in 0..MaxTime /\ BrokerOrders' /\ BrokerHoldings'
    <3>1. dispatched' \in [IntentIds -> {0, 1}] /\ dispatched'[i] = 1
          /\ \A j \in IntentIds : j # i => dispatched'[j] = dispatched[j]
      BY <2>6
    <3>2. QED
      BY <1>0, <2>2, <2>5, <2>7, <3>1, FillStep
  <2>9. BrokerTyped' /\ SentOnce'
    BY <1>0, <1>1, <2>2, <2>8 DEF BrokerOK, BrokerTyped, SentOnce, storeVars, orderVars
  <2>10. QED
    BY <1>1, <2>2, <2>6, <2>8, <2>9, BrokerStep DEF BrokerOK
<1>3. ASSUME NEW i \in IntentIds, NEW state \in {"CANCELLED", "EXPIRED", "REJECTED"},
             BrokerEnds(i, state)
      PROVE  EInv' /\ UNCHANGED storeVars
  <2>1. /\ orders' = [orders EXCEPT ![i].state = state] /\ MoveOf(i) /\ UNCHANGED <<held, clock>>
        /\ Live(i)
    BY <1>3 DEF BrokerEnds
  <2>2. orders[i] \in Order /\ orders \in [IntentIds -> Order] /\ orders[i].state # Nil
    BY <1>0, <2>1, NilDistinct DEF BrokerTyped, Live, OrderState, ACTIVE_STATES
  <2>3. state \in BrokerStates /\ state # Nil
    BY NilDistinct DEF BrokerStates, OrderState, ACTIVE_STATES, TERMINAL_STATES
  <2> DEFINE o == [orders[i] EXCEPT !.state = state]
  <2>4. /\ o \in Order /\ o.filled_units = orders[i].filled_units /\ o.state # Nil
        /\ o.protected = orders[i].protected
    BY <2>2, <2>3 DEF Order
  <2>5. orders' = [orders EXCEPT ![i] = o]
    BY <2>1, <2>2
  <2>6. /\ moves' \in 0..MaxMoves /\ moved' \in SUBSET IntentIds /\ unseen' \in SUBSET IntentIds
        /\ UNCHANGED <<storeVars, dispatched, started, agenda, crashes>>
    BY <1>1, <2>1
  <2> HIDE DEF o
  <2>7. EInv'
    BY <2>1, <2>2, <2>4, <2>5, <2>6, EditStep
  <2>8. QED
    BY <2>6, <2>7
<1>4. ASSUME NEW s \in Symbols, StopOut(s)
      PROVE  EInv' /\ UNCHANGED storeVars
  <2>1. /\ held' = [held EXCEPT ![PositionOf[s]] = 0] /\ clock' = clock + 1 /\ clock < MaxTime
        /\ MoveOf(s) /\ orders' = orders /\ s \in IntentIds
    BY <1>4 DEF StopOut, IntentIds
  <2>2. /\ moves' \in 0..MaxMoves /\ moved' \in SUBSET IntentIds /\ unseen' \in SUBSET IntentIds
        /\ UNCHANGED <<storeVars, dispatched, started, agenda, crashes>>
    BY <1>1, <2>1
  <2>3. /\ held \in [PositionIds -> Units] /\ clock \in 0..MaxTime /\ 0 \in Units
    BY <1>0 DEF BrokerTyped, Units
  <2>4. held' \in [PositionIds -> Units] /\ clock' \in 0..MaxTime /\ clock' >= clock
    BY <2>1, <2>3
  <2>5. BrokerTyped' /\ SentOnce'
    BY <1>0, <2>1, <2>2, <2>4 DEF BrokerOK, BrokerTyped, SentOnce, storeVars, orderVars
  <2>6. BrokerOrders'
    <3>1. ASSUME NEW j \in IntentIds, Etoro, orders[j].filled_units > 0 PROVE clock' >= 1
      BY <1>0, <2>1, <2>3, <3>1 DEF BrokerOK, BrokerOrders
    <3>2. QED
      BY <1>0, <2>1, <2>2, <3>1 DEF BrokerOK, BrokerOrders, Accepted
  <2>7. BrokerHoldings'
    <3>1. ASSUME NEW t \in Symbols PROVE held'[PositionOf[t]] <= orders[t].filled_units
      <4>1. /\ PositionOf[t] \in PositionIds /\ held[PositionOf[t]] <= orders[t].filled_units
            /\ orders[t].filled_units \in Nat
        BY <1>0 DEF BrokerOK, BrokerHoldings, BrokerTyped, Order, Units, IntentIds
      <4>2. held'[PositionOf[t]] = 0 \/ held'[PositionOf[t]] = held[PositionOf[t]]
        BY <2>1, <2>3, <4>1
      <4>3. QED
        BY <4>1, <4>2
    <3>2. QED
      BY <2>1, <3>1 DEF BrokerHoldings
  <2>8. QED
    BY <2>2, <2>5, <2>6, <2>7, BrokerStep DEF BrokerOK
<1>5. QED
  BY <1>2, <1>3, <1>4 DEF BrokerMoves

-----------------------------------------------------------------------------
(* The invariant, and that every step of the executor, of its broker and of *)
(* a crash is a step of the store or leaves it alone.                      *)
LEMMA EInvInit == Init => EInv
<1> SUFFICES ASSUME Init PROVE EInv
  OBVIOUS
<1> USE StoreAssumption, ExecutorAssumption
<1>1. IInv
  BY IInvInit DEF Init
<1>2. Complete
  BY DEF Init, StoreInit, Complete, NoPosition
<1>3. agenda = <<>> /\ agenda \in Stacks
  BY DEF Init, Stacks, Working
<1>4. NoOrder \in Order /\ 0 \in Units
  BY DEF NoOrder, Order, Units
<1>5. BrokerTyped
  <2>1. 0 \in 0..MaxMoves /\ 0 \in 0..MaxCrashes /\ 0 \in 0..MaxTime /\ {} \in SUBSET IntentIds
    OBVIOUS
  <2>2. QED
    BY <1>4, <2>1 DEF Init, BrokerTyped
<1>6. BrokerOrders /\ SentOnce
  BY DEF Init, NoOrder, BrokerOrders, Accepted, SentOnce
<1>7. BrokerHoldings
  BY DEF Init, NoOrder, BrokerHoldings, IntentIds
<1>8. QED
  BY <1>1, <1>2, <1>3, <1>5, <1>6, <1>7 DEF EInv, BrokerOK, Ready

(* Every step keeps the invariant and is a step of the store, or none.     *)
LEMMA EInvNext ==
  ASSUME EInv, [Next]_vars
  PROVE  EInv' /\ [StoreNext]_storeVars
<1>1. ASSUME CalmMove PROVE EInv' /\ [StoreNext]_storeVars
  BY <1>1, CalmMoves DEF CalmMove
<1>2. CASE Operations
  <2>1. CASE \E s \in Symbols, n \in Units, stop \in StopPrices : SubmitEntry(s, n, stop)
    BY <2>1, SubmitEntryStep
  <2>2. CASE \E p \in OpenPositions, stop \in StopPrices : TightenStop(p, stop)
    BY <2>2, TightenStep
  <2>3. CASE \/ Enter \/ ArmOffline \/ FlattenOwned \/ Exit \/ Crash
             \/ Operation(<<Call("pause")>>) \/ Operation(<<Call("reconcile_all")>>)
             \/ Operation(<<Call("cancel_all")>>)
             \/ \E p \in PositionIds : Operation(<<CallOn("close", p)>>)
    BY <1>1, <2>3, OwnerMoves
  <2>4. QED
    BY <1>2, <2>1, <2>2, <2>3 DEF Operations
<1>3. CASE ExecutorSteps
  <2>1. CASE \/ PauseCall \/ UnreconciledCall \/ ToUnknown \/ SetProtectionCall \/ Release
             \/ EndIncident \/ LoopEnds("recover") \/ LoopEnds("cancel") \/ LoopEnds("flatten")
             \/ Reject \/ ReconcileEnds \/ CloseNothing \/ CloseBlocked \/ CloseAfterCancel
             \/ CloseStillPending \/ ConfirmFlat
    BY <1>1, <2>1, ReturningMoves
  <2>2. CASE \/ Recover \/ ReconcileAll \/ QueryUnseen \/ QueryFailed \/ CancelAll
             \/ CancelUnsent \/ FlattenAll \/ FlattenNext
    BY <1>1, <2>2, LoopMoves
  <2>3. CASE \/ SendRefused \/ ApplyReport \/ ApplyRefused \/ QueryAnswered \/ CancelSent
             \/ AskCancelFailed \/ CloseRefused
    BY <1>1, <2>3, AnswerMoves
  <2>4. CASE \/ Prepare \/ Submit \/ SendAccepted \/ SendFailed \/ AskCancel
             \/ CloseCreate \/ CloseRecheck
    BY <2>4, PrepareStep, SubmitStep, SendStep, AskCancelStep, CloseCreateSteps
  <2>5. QED
    BY <1>3, <2>1, <2>2, <2>3, <2>4 DEF ExecutorSteps
<1>4. CASE BrokerMoves
  BY <1>4, BrokerMoveStep
<1>5. CASE Crash
  BY <1>1, <1>5, OwnerMoves
<1>6. CASE UNCHANGED vars
  <2>1. UNCHANGED storeVars /\ dispatched' = dispatched /\ agenda' = agenda
    BY <1>6 DEF vars, brokerVars
  <2>2. BrokerOK'
    BY <1>6, <2>1 DEF EInv, BrokerOK, BrokerTyped, BrokerOrders, BrokerHoldings, SentOnce, Accepted,
       vars, brokerVars, storeVars, orderVars
  <2>3. QED
    BY <2>1, <2>2, BrokerStep
<1>7. QED
  BY <1>2, <1>3, <1>4, <1>5, <1>6 DEF Next

(* The inductive invariant holds: the store is in a state of its own, the  *)
(* call stack is one the code can build, the broker holds what its orders  *)
(* filled, and nothing is about to be sent that was sent before.           *)
THEOREM ExecutorInvariant == Spec => []EInv
<1>1. EInv /\ [Next]_vars => EInv'
  BY EInvNext
<1>2. QED
  BY <1>1, EInvInit, PTL DEF Spec

(* The executor uses the store only as the store allows: every behaviour of *)
(* the executor, its broker and its crashes is one of the store, so what is *)
(* proved of the store holds under the executor (engine.py over store.py). *)
THEOREM ExecutorImplementsStore == Spec => StoreSpec
<1>1. Init => StoreInit
  BY DEF Init
<1>2. EInv /\ [Next]_vars => [StoreNext]_storeVars
  BY EInvNext
<1>3. QED
  BY <1>1, <1>2, ExecutorInvariant, PTL DEF Spec, StoreSpec

(* No intent is sent to the broker twice, whatever is lost, refused or      *)
(* crashes (engine.py _send, __enter__, submit_entry, close_owned).        *)
THEOREM SentAtMostOnce == Spec => []NeverSentTwice
<1>1. EInv => NeverSentTwice
  BY DEF EInv, BrokerOK, BrokerTyped, NeverSentTwice
<1>2. QED
  BY <1>1, ExecutorInvariant, PTL

(* Every stack the code can build is a sequence of frames.                 *)
LEMMA StacksOfFrames ==
  ASSUME NEW s \in Stacks
  PROVE  s \in Seq(Frames)
<1>1. CASE s \in Seq(Low)
  BY <1>1, SeqMonotonic DEF Low
<1>2. ASSUME NEW f \in Frames, NEW below \in Seq(Low), s = Above(f, below)
      PROVE  s \in Seq(Frames)
  <2>1. <<f>> \in Seq(Frames) /\ below \in Seq(Frames)
    BY SeqMonotonic DEF Low
  <2>2. QED
    BY <1>2, <2>1, ConcatProperties DEF Above
<1>3. ASSUME NEW todo \in SUBSET Entries
      PROVE  Entering(todo) \in Seq(Frames) /\ Entered(todo) \in Seq(Frames)
  <2>1. /\ Call("pause") \in Frames /\ Call("unreconciled") \in Frames
        /\ Call("reconcile_all") \in Frames
    BY CallFrames DEF PlainOps, Low
  <2>2. Recovery(todo) \in Frames
    BY LoopFrames DEF Recovery, Loops, LoopEntries
  <2>3. QED
    BY <2>1, <2>2 DEF Entering, Entered
<1>4. CASE s \in Starting
  BY <1>3, <1>4 DEF Starting
<1>5. CASE s \in {Above(f, below) : f \in Frames, below \in Seq(Low)}
  BY <1>2, <1>5
<1>6. QED
  BY <1>1, <1>4, <1>5 DEF Stacks, Working

(* Every frame has the fields ExecutorTypeOK asks for.                     *)
LEMMA FramesAreOK ==
  ASSUME NEW f \in Frames
  PROVE  FrameOK(f)
<1>1. Typed(f)
  BY FrameFields
<1>2. \A e \in f.todo : e.id \in IntentIds /\ e.state \in OrderState \cup {Nil}
  <2>1. /\ \A e \in Entries : e.id \in IntentIds /\ e.state \in OrderState
        /\ \A e \in PendingEntries : e.id \in IntentIds /\ e.state \in OrderState
        /\ \A e \in HeldEntries : e.id \in IntentIds /\ e.state = Nil
    BY DEF Entries, PendingEntries, HeldEntries, IntentIds, OrderState
  <2>2. CASE f.op \in {"recover", "reconcile"}
    BY <1>1, <2>1, <2>2 DEF Typed
  <2>3. CASE f.op = "cancel"
    BY <1>1, <2>1, <2>3 DEF Typed
  <2>4. CASE f.op = "flatten"
    BY <1>1, <2>1, <2>4 DEF Typed
  <2>5. CASE f.op \notin {"recover", "reconcile", "cancel", "flatten"}
    BY <1>1, <2>5 DEF Typed
  <2>6. QED
    BY <2>2, <2>3, <2>4, <2>5
<1>3. CASE f.op = "apply"
  BY <1>1, <1>2, <1>3 DEF Typed, FrameOK
<1>4. CASE f.op = "set_protection"
  BY <1>1, <1>2, <1>4 DEF Typed, FrameOK
<1>5. CASE f.op \in {"close", "close_recheck"}
  BY <1>1, <1>2, <1>5 DEF Typed, FrameOK
<1>6. CASE f.op \notin {"apply", "set_protection", "close", "close_recheck"}
  <2>1. f.report = Nil /\ f.op \in Calls /\ f.clean \in BOOLEAN
    BY <1>1, <1>6 DEF Typed
  <2>2. f.id \in IntentIds \cup {Nil}
    <3>1. CASE f.op \in IntentOps
      BY <1>1, <3>1 DEF Typed
    <3>2. CASE f.op = "ask_cancel"
      BY <1>1, <3>2 DEF Typed, IntentIds
    <3>3. CASE f.op \notin IntentOps \cup {"ask_cancel"}
      BY <1>1, <1>6, <3>3 DEF Typed
    <3>4. QED
      BY <3>1, <3>2, <3>3
  <2>3. QED
    BY <1>2, <1>6, <2>1, <2>2 DEF FrameOK
<1>7. QED
  BY <1>3, <1>4, <1>5, <1>6

(* The call stack and the broker stay well typed: every call is made with  *)
(* an intent, a position or a report of the right kind (engine.py).        *)
THEOREM ExecutorTypes == Spec => []ExecutorTypeOK
<1>1. ASSUME EInv PROVE ExecutorTypeOK
  <2>1. agenda \in Seq(Frames)
    BY <1>1, StacksOfFrames DEF EInv
  <2>2. DOMAIN agenda = 1..Len(agenda) /\ \A k \in 1..Len(agenda) : FrameOK(agenda[k])
    BY <2>1, LenProperties, ElementOfSeq, FramesAreOK
  <2>3. dispatched \in [IntentIds -> Nat]
    BY <1>1 DEF EInv, BrokerOK, BrokerTyped
  <2>4. QED
    BY <1>1, <2>2, <2>3 DEF EInv, BrokerOK, BrokerTyped, ExecutorTypeOK
<1>2. QED
  BY <1>1, ExecutorInvariant, PTL

(* A row of a close appears only when the store creates the close.         *)
LEMMA RowsOfCloses ==
  ASSUME EInv, [Next]_vars, NEW p \in PositionIds, ~Row(p), Row(p)'
  PROVE  CreateClose(p, positions[p].units)
<1>1. intents \in [IntentIds -> OrderIntent] /\ p \in IntentIds /\ p \notin Symbols
  BY NilDistinct DEF EInv, IInv, TypeOK, IntentIds
<1>2. ASSUME NEW q \in PositionIds, NEW n, CreateClose(q, n) PROVE q = p
  <2>1. intents' = [intents EXCEPT ![q] = NewIntent(n, Nil)]
    BY <1>2 DEF CreateClose
  <2>2. q # p => intents'[p] = intents[p]
    BY <1>1, <2>1
  <2>3. QED
    BY <2>2 DEF Row
<1>3. ASSUME UNCHANGED intents PROVE FALSE
  BY <1>3 DEF Row
<1>4. ASSUME NEW s \in Symbols, NEW n, NEW stop, CreateEntry(s, n, stop) PROVE FALSE
  BY <1>1, <1>4 DEF CreateEntry, Row
<1>5. ASSUME NEW i, NEW state, Transition(i, state) PROVE FALSE
  <2>1. i # p /\ intents' = [intents EXCEPT ![i].state = state]
    BY <1>5 DEF Transition, Row
  <2>2. QED
    BY <1>1, <2>1 DEF Row
<1>6. ASSUME NEW u, ApplyBrokerOrder(u, clock) PROVE FALSE
  <2>1. u.intent_id # p /\ intents' = [intents EXCEPT ![u.intent_id] = Updated(u)]
    BY <1>6 DEF ApplyBrokerOrder, Commits, ReportAccepted, Row
  <2>2. QED
    BY <1>1, <2>1 DEF Row
<1>7. CASE Operations
  BY <1>3, <1>4, <1>7 DEF Operations, Enter, SubmitEntry, ArmOffline, Operation, FlattenOwned,
     TightenStop, Exit, Pause, Internal, storeVars, orderVars
<1>8. CASE BrokerMoves \/ Crash \/ UNCHANGED vars
  BY <1>3, <1>8 DEF BrokerMoves, BrokerFills, BrokerEnds, StopOut, MoveOf, Crash, vars, storeVars,
     orderVars
<1>9. CASE \/ PauseCall \/ UnreconciledCall \/ SetProtectionCall \/ Release
           \/ EndIncident \/ LoopEnds("recover") \/ LoopEnds("cancel") \/ LoopEnds("flatten")
           \/ ReconcileEnds \/ CloseNothing \/ CloseBlocked \/ CloseAfterCancel
           \/ CloseStillPending \/ ConfirmFlat \/ ReconcileAll \/ QueryFailed \/ CancelAll
           \/ FlattenAll \/ FlattenNext
  BY <1>3, <1>9 DEF PauseCall, UnreconciledCall, SetProtectionCall, Release, EndIncident, LoopEnds,
     ReconcileEnds, CloseNothing, CloseBlocked, CloseAfterCancel, CloseStillPending, ConfirmFlat,
     ReconcileAll, QueryFailed, CancelAll, FlattenAll, FlattenNext, Pause, SetReconciliation,
     SetProtection, Internal, storeVars, orderVars
<1>10. CASE \/ SendRefused \/ ApplyRefused \/ QueryAnswered \/ AskCancelFailed \/ CloseRefused
            \/ Prepare \/ SendAccepted \/ SendFailed \/ AskCancel
  BY <1>3, <1>10 DEF SendRefused, ApplyRefused, QueryAnswered, AskCancelFailed, CloseRefused,
     Prepare, SendAccepted, SendFailed, AskCancel, Internal, storeVars, orderVars
<1>11. CASE \/ ToUnknown \/ Reject \/ Recover \/ QueryUnseen \/ CancelUnsent \/ CancelSent \/ Submit
  BY <1>3, <1>5, <1>11 DEF ToUnknown, Reject, Recover, QueryUnseen, CancelUnsent, CancelSent,
     Submit, storeVars, orderVars
<1>12. CASE ApplyReport
  BY <1>6, <1>12 DEF ApplyReport
<1>13. CASE CloseCreate \/ CloseRecheck
  <2>1. CASE CreateCloseOf(Top.id)
    <3>1. Top.id \in PositionIds /\ CreateClose(Top.id, positions[Top.id].units)
      BY <1>13, <2>1, CloseCreateStep DEF CloseCreate, CloseRecheck
    <3>2. QED
      BY <1>2, <3>1
  <2>2. CASE Internal
    BY <1>3, <2>2 DEF Internal, storeVars, orderVars
  <2>3. QED
    BY <1>13, <2>1, <2>2 DEF CloseCreate, CloseRecheck
<1>14. QED
  BY <1>7, <1>8, <1>9, <1>10, <1>11, <1>12, <1>13 DEF Next, ExecutorSteps

(* The books of a position forget what the broker was seen to hold only when *)
(* more fills of its entry are booked (store.py _apply_fill): no other call *)
(* of the store drops an observation.                                      *)
LEMMA ForgottenByFills ==
  ASSUME EInv, [StoreNext]_storeVars, NEW p \in PositionIds,
         positions[p].observed_units # Nil, positions'[p].observed_units = Nil
  PROVE  LET s == positions'[p].owner_intent_id
         IN s \in Symbols /\ intents'[s].filled_units > intents[s].filled_units
<1>1. /\ positions \in [PositionIds -> Position] /\ intents \in [IntentIds -> OrderIntent]
      /\ p \in IntentIds
  BY DEF EInv, IInv, TypeOK, IntentIds
<1>2. positions # positions'
  OBVIOUS
<1>3. ASSUME NEW q \in PositionIds, NEW stop, NEW protected, SetProtection(q, stop, protected)
      PROVE  FALSE
  <2>1. positions' = [positions EXCEPT ![q] =
                        [@ EXCEPT !.stop_price = stop, !.protected = protected]]
    BY <1>3 DEF SetProtection
  <2>2. positions'[p].observed_units = positions[p].observed_units
    BY <1>1, <2>1 DEF Position
  <2>3. QED
    BY <2>2
<1>4. PICK i \in IntentIds : \E u \in ReportsOf[i], now \in 0..MaxTime : ApplyBrokerOrder(u, now)
  <2>1. BookNext
    BY <1>2 DEF StoreNext, Pause, SetReconciliation, storeVars, orderVars, bookVars
  <2>2. ~\E q \in PositionIds, stop \in StopPrices, protected \in Protection \cup {TRUE} :
          SetProtection(q, stop, protected)
    BY <1>3
  <2>3. QED
    BY <1>2, <2>1, <2>2 DEF BookNext, CreateEntry, CreateClose, Transition, bookVars
<1>5. PICK u \in ReportsOf[i], now \in 0..MaxTime : ApplyBrokerOrder(u, now)
  BY <1>4
<1>6. /\ IInv /\ Commits(u, now) /\ positions' = Observed(u) /\ u.intent_id = i
      /\ intents' = [intents EXCEPT ![i] = Updated(u)]
      /\ Booked(u) \in [PositionIds -> Position]
  BY <1>5, ReportFields, BookedPositions DEF EInv, ApplyBrokerOrder
<1>7. Booked(u)[p].observed_units = Nil
  <2>1. CASE ~Observes(u)
    BY <1>6, <2>1 DEF Observed
  <2>2. CASE Observes(u)
    <3>1. Observed(u)[u.position_id].observed_units = u.remaining_units \/ p # u.position_id
      BY <1>1, <1>6, <2>2 DEF Observed, Position
    <3>2. p # u.position_id
      BY <1>6, <2>2, <3>1 DEF Observes
    <3>3. QED
      BY <1>6, <2>2, <3>2 DEF Observed
  <2>3. QED
    BY <2>1, <2>2
<1>8. Delta(u) > 0 /\ p = u.position_id /\ i \in Symbols
  <2>1. CASE Delta(u) > 0 /\ i \notin Symbols
    <3>1. CloseFill(u).observed_units = positions[u.position_id].observed_units
          \/ p # u.position_id
      BY <1>1 DEF CloseFill, Position
    <3>2. Booked(u) = [positions EXCEPT ![u.position_id] = CloseFill(u)]
      BY <1>6, <2>1 DEF Booked, Kind
    <3>3. QED
      BY <1>1, <1>7, <3>1, <3>2
  <2>2. CASE ~(Delta(u) > 0)
    <3>1. \/ Booked(u) = [positions EXCEPT ![u.intent_id].realized_pnl = @ - CostDelta(u)]
          \/ Booked(u) = positions
      BY <2>2 DEF Booked
    <3>2. Booked(u)[p].observed_units = positions[p].observed_units
      BY <1>1, <3>1 DEF Position
    <3>3. QED
      BY <1>7, <3>2
  <2>3. CASE Delta(u) > 0 /\ i \in Symbols
    <3>1. Booked(u) = [positions EXCEPT ![u.position_id] = EntryFill(u)]
      BY <1>6, <2>3 DEF Booked, Kind
    <3>2. p = u.position_id
      BY <1>1, <1>7, <3>1
    <3>3. QED
      BY <2>3, <3>2
  <2>4. QED
    BY <2>1, <2>2, <2>3
<1>9. positions'[p].owner_intent_id = i
  <2>1. Booked(u)[p].owner_intent_id = i
    BY <1>1, <1>6, <1>8 DEF Booked, Kind, EntryFill
  <2>2. Observed(u)[p].owner_intent_id = Booked(u)[p].owner_intent_id
    BY <1>6, ObservedPositions
  <2>3. QED
    BY <1>6, <2>1, <2>2
<1>10. intents'[i].filled_units > intents[i].filled_units
  <2>1. intents'[i].filled_units = u.filled_units
    BY <1>1, <1>6 DEF Updated
  <2>2. intents[i].filled_units \in Nat /\ u.filled_units \in Nat
    BY <1>1, ReportFields DEF OrderIntent, Units
  <2>3. QED
    BY <1>6, <1>8, <2>1, <2>2 DEF Delta
<1>11. QED
  BY <1>8, <1>9, <1>10

(* A close is created only for what the broker was last seen to hold, or,   *)
(* since the last fills of the entry showed nothing, for what the books     *)
(* hold; and only such fills make the books forget what was seen (store.py *)
(* create_intent, _observe_remaining and _apply_fill, engine.py            *)
(* close_owned).                                                           *)
THEOREM ClosesMatchObservations == Spec => CloseMatchesObservation
<1>1. ASSUME EInv, [Next]_vars
      PROVE  [\A p \in PositionIds : CloseAsObserved(p) /\ ForgetsForFills(p)]_vars
  <2>1. ASSUME NEW p \in PositionIds, ~Row(p), Row(p)'
        PROVE  positions[p].observed_units \in {Nil, intents'[p].units}
    <3>1. CreateClose(p, positions[p].units)
      BY <1>1, <2>1, RowsOfCloses
    <3>2. intents' = [intents EXCEPT ![p] = NewIntent(positions[p].units, Nil)]
          /\ positions[p].accounting_complete
      BY <3>1 DEF CreateClose
    <3>3. intents'[p].units = positions[p].units
      BY <1>1, <3>2 DEF EInv, IInv, TypeOK, IntentIds, NewIntent
    <3>4. QED
      BY <1>1, <3>2, <3>3 DEF EInv, Complete
  <2>2. ASSUME NEW p \in PositionIds PROVE CloseAsObserved(p)
    BY <2>1, <2>2 DEF CloseAsObserved
  <2>3. [StoreNext]_storeVars
    BY <1>1, EInvNext
  <2>4. ASSUME NEW p \in PositionIds PROVE ForgetsForFills(p)
    BY <1>1, <2>3, <2>4, ForgottenByFills DEF ForgetsForFills
  <2>5. QED
    BY <2>2, <2>4
<1>2. QED
  BY <1>1, ExecutorInvariant, PTL DEF Spec, CloseMatchesObservation
=============================================================================
