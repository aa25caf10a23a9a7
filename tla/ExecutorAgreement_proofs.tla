----------------------- MODULE ExecutorAgreement_proofs ----------------------
(***************************************************************************)
(* What the reconciliation of the executor is worth, built on the          *)
(* invariants of Executor_proofs and ExecutorExposure_proofs: while        *)
(* reconciliation_ok stands, the store and the broker agree about every    *)
(* order the broker did not change since, and an answer that everything is *)
(* flat is true of the broker, up to what it did since.  The last part     *)
(* follows one incident from the report that shows it to the close.        *)
(***************************************************************************)
EXTENDS ExecutorExposure_proofs

-----------------------------------------------------------------------------
(* The store and the broker agree about an order: same fills, and no order *)
(* that may still fill is taken for finished.                              *)
Agreed(i) == intents[i].filled_units = orders[i].filled_units /\ (Live(i) => Active(i))

(* The orders they do not agree about, although the broker did not change  *)
(* them since the last reconcile() began, and showed them to it.           *)
Off == {i \in IntentIds \ (moved \cup unseen) : ~Agreed(i)}

(* Calls about one order that end with its books put right, or with the    *)
(* reconciliation in doubt.                                                *)
Answering == {"apply", "ask_cancel", "to_unknown"}

(* The topmost call is of that kind, and its failure would be noticed.     *)
Underway(s, i) ==
  /\ s # <<>> /\ Head(s).op \in Answering /\ Head(s).id = i
  /\ Active(i) \/ (Tail(s) # <<>> /\ Head(Tail(s)).op = "reconcile")

(* A handler of an ambiguous call is under way: entries will be blocked.   *)
Doubted(s) ==
  s # <<>> /\ \/ Head(s).op \in {"to_unknown", "unreconciled"}
              \/ Head(s).op = "pause" /\ Tail(s) # <<>> /\ Head(Tail(s)).op = "unreconciled"

(* The orders a reconcile() that may still end cleanly has to query: an     *)
(* UNKNOWN row is one it will find in the store when it ends.              *)
Due == {i \in Off : intents[i].state # "UNKNOWN" /\ ~Underway(agenda, i)}

(* Finished rows whose order a query finds, or which have none.            *)
Known ==
  {i \in IntentIds :
     /\ Row(i)
     /\ intents[i].broker_order_id # Nil
          \/ (~Accepted(i) /\ intents[i].state \in TERMINAL_STATES)}

(* The loop of a clean reconcile() has all that is due ahead of it.        *)
Covering(f, due, known) ==
  f.op = "reconcile" =>
    /\ f.clean => \A i \in due : \E e \in f.todo : e.id = i
    /\ \A e \in f.todo : e.state \in TERMINAL_STATES => e.id \in known

Covers(due, known) == {f \in Frames : Covering(f, due, known)}

CoverLow(due, known) == Low \cap Covers(due, known)

(* reconcile() is called by the owner's operations alone, never inside     *)
(* another one.                                                            *)
Settlers == {"reconcile_all", "reconcile", "confirm_flat"}

Once(s) ==
  \A k, l \in 1..Len(s) : k < l /\ s[k].op \in Settlers => s[l].op # "reconcile"

(* What a report about to be booked says of the order is what it is.       *)
Current(u, i) == u.filled_units = orders[i].filled_units /\ (Live(i) => u.state \in ACTIVE_STATES)

(* Calls to the broker and bookings of its answer are made inside a try     *)
(* block about the same order, or by the loop of reconcile(), which is not *)
(* clean any more when it books an answer that says nothing.               *)
Urgent == {"send", "apply", "ask_cancel"}

Tried(f, below) ==
  /\ below # <<>> /\ Head(below).op \in Guards /\ Head(below).id = f.id
  /\ intents[f.id].state \in {"SUBMITTING", "CANCEL_PENDING"}

Queried(below) == below # <<>> /\ Head(below).op = "reconcile"

Told(u, i) ==
  /\ Accepted(i) /\ u.filled_units <= orders[i].filled_units
  /\ u.state = "REJECTED" => orders[i].state = "REJECTED"
  /\ u.filled_units > 0 => u.position_id = PositionOfIntent(i)

AheadCall(f, below) ==
  /\ f.op \in Urgent => Tried(f, below) \/ (f.op = "apply" /\ Queried(below))
  /\ f.op = "apply" =>
       /\ Told(f.report, f.id)
       /\ \/ Current(f.report, f.id) \/ f.id \in moved
          \/ Queried(below) /\ ~Head(below).clean

Ahead(s) == s # <<>> => AheadCall(Head(s), Tail(s))

(* The books lag behind the broker, but a row that was rejected, or ended   *)
(* without an order, has none that may fill.                               *)
BooksOf(i) ==
  /\ intents[i].filled_units <= orders[i].filled_units
  /\ orders[i].state = "REJECTED" => orders[i].filled_units = 0
  /\ intents[i].state = "REJECTED" => orders[i].state \in {Nil, "REJECTED"}
  /\ intents[i].state \in TERMINAL_STATES /\ intents[i].broker_order_id = Nil => ~Accepted(i)

Books == \A i \in IntentIds : BooksOf(i)

(* Outside reconcile() nothing is off, but what will block entries.        *)
Outside ==
  started /\ reconciliation_ok /\ ~Reconciling(agenda) =>
    Doubted(agenda) \/ \A i \in Off : Underway(agenda, i)

AgreeInv ==
  /\ agenda \in Seq(Covers(Due, Known)) /\ Once(agenda) /\ Ahead(agenda)
  /\ Books /\ Outside

-----------------------------------------------------------------------------
(* One reconcile() at a time.                                              *)

(* A call above others, and what is left when it returns.                  *)
LEMMA OnceAbove ==
  ASSUME NEW L, NEW f, NEW below \in Seq(L)
  PROVE  Once(Above(f, below)) <=> Once(below) /\ (f.op \in Settlers => ~Reconciling(below))
<1> DEFINE K == L \cup {f}
           s == Above(f, below)
<1>1. <<f>> \in Seq(K) /\ below \in Seq(K) /\ Len(<<f>>) = 1 /\ <<f>>[1] = f
  OBVIOUS
<1>2. /\ Len(s) = Len(below) + 1 /\ Len(below) \in Nat
      /\ \A k \in 1..(Len(below) + 1) : s[k] = IF k <= 1 THEN f ELSE below[k - 1]
  BY <1>1, ConcatProperties, LenProperties DEF Above
<1> HIDE DEF s
<1>3. s[1] = f /\ 1 \in 1..Len(s) /\ \A k \in 1..Len(below) : k + 1 \in 1..Len(s) /\ s[k + 1] = below[k]
  BY <1>2
<1>4. \A k \in 1..Len(s) : k # 1 => k - 1 \in 1..Len(below) /\ s[k] = below[k - 1]
  BY <1>2
<1>5. ASSUME Once(s) PROVE Once(below) /\ (f.op \in Settlers => ~Reconciling(below))
  <2>1. ASSUME NEW k \in 1..Len(below), NEW l \in 1..Len(below), k < l, below[k].op \in Settlers
        PROVE  below[l].op # "reconcile"
    <3>1. k + 1 < l + 1
      BY <1>2, <2>1
    <3>2. QED
      BY <1>3, <1>5, <2>1, <3>1 DEF Once
  <2>2. ASSUME f.op \in Settlers, NEW l \in 1..Len(below) PROVE below[l].op # "reconcile"
    <3>1. 1 < l + 1
      BY <1>2
    <3>2. QED
      BY <1>3, <1>5, <2>2, <3>1 DEF Once
  <2>3. QED
    BY <2>1, <2>2 DEF Once, Reconciling
<1>6. ASSUME Once(below), f.op \in Settlers => ~Reconciling(below) PROVE Once(s)
  <2>1. ASSUME NEW k \in 1..Len(s), NEW l \in 1..Len(s), k < l, s[k].op \in Settlers
        PROVE  s[l].op # "reconcile"
    <3>1. l # 1 /\ l - 1 \in 1..Len(below) /\ s[l] = below[l - 1]
      <4>1. l # 1
        BY <1>2, <2>1
      <4>2. QED
        BY <1>4, <4>1
    <3>2. CASE k = 1
      BY <1>3, <1>6, <2>1, <3>1, <3>2 DEF Reconciling
    <3>3. CASE k # 1
      <4>1. k - 1 \in 1..Len(below) /\ s[k] = below[k - 1]
        BY <1>4, <3>3
      <4>2. k - 1 < l - 1
        BY <1>2, <2>1
      <4>3. QED
        BY <1>6, <2>1, <3>1, <4>1, <4>2 DEF Once
    <3>4. QED
      BY <3>2, <3>3
  <2>2. QED
    BY <2>1 DEF Once
<1>7. QED
  BY <1>5, <1>6 DEF s

(* No reconcile() at all.                                                  *)
LEMMA OnceNone ==
  ASSUME NEW s, ~Reconciling(s)
  PROVE  Once(s)
BY DEF Once, Reconciling

(* What waits below the topmost call.                                      *)
LEMMA OnceBelow ==
  ASSUME NEW L, NEW s \in Seq(L), s # <<>>, Once(s)
  PROVE  /\ Tail(s) \in Seq(L) /\ Once(Tail(s))
         /\ Head(s).op \in Settlers => ~Reconciling(Tail(s))
<1>1. Tail(s) \in Seq(L) /\ s = Above(Head(s), Tail(s))
  BY TopAndRest
<1>2. QED
  BY <1>1, OnceAbove

(* Calls that do not reconcile, above others.                              *)
LEMMA OncePrefix ==
  ASSUME NEW L, NEW s \in Seq(L), NEW below \in Seq(L), Once(below),
         \A k \in 1..Len(s) : s[k].op \notin Settlers
  PROVE  Once(s \o below)
<1>1. /\ Len(s \o below) = Len(s) + Len(below) /\ Len(s) \in Nat /\ Len(below) \in Nat
      /\ \A k \in 1..(Len(s) + Len(below)) :
           (s \o below)[k] = IF k <= Len(s) THEN s[k] ELSE below[k - Len(s)]
  BY ConcatProperties, LenProperties
<1>2. ASSUME NEW k \in 1..Len(s \o below), NEW l \in 1..Len(s \o below), k < l,
             (s \o below)[k].op \in Settlers
      PROVE  (s \o below)[l].op # "reconcile"
  <2>1. ~(k <= Len(s))
    <3>1. k <= Len(s) => k \in 1..Len(s) /\ (s \o below)[k] = s[k]
      BY <1>1
    <3>2. QED
      BY <1>2, <3>1
  <2>2. /\ k - Len(s) \in 1..Len(below) /\ l - Len(s) \in 1..Len(below)
        /\ k - Len(s) < l - Len(s) /\ ~(l <= Len(s))
        /\ k \in 1..(Len(s) + Len(below)) /\ l \in 1..(Len(s) + Len(below))
    BY <1>1, <1>2, <2>1
  <2>3. (s \o below)[k] = below[k - Len(s)] /\ (s \o below)[l] = below[l - Len(s)]
    BY <1>1, <2>1, <2>2
  <2>4. QED
    BY <1>2, <2>2, <2>3 DEF Once
<1>3. QED
  BY <1>2 DEF Once

(* An exception passes calls over, and restarts none.                      *)
LEMMA OnceRaise ==
  ASSUME NEW s \in Seq(Low), Once(s)
  PROVE  Once(Raise(s))
<1> DEFINE found == {k \in 1..Len(s) : s[k].op \in Handlers}
           least == CHOOSE k \in found : \A l \in found : k <= l
           handler == s[least]
           below == SubSeq(s, least + 1, Len(s))
<1>1. Len(s) \in Nat /\ \A k \in 1..Len(s) : s[k] \in Low
  BY LenProperties, ElementOfSeq
<1>2. CASE found = {}
  <2>1. Raise(s) = <<>>
    BY <1>2 DEF Raise
  <2>2. QED
    BY <2>1 DEF Once
<1>3. CASE found # {}
  <2>1. \E k \in found : \A l \in found : k <= l
    <3>1. found \in SUBSET Nat
      BY <1>1
    <3> HIDE DEF found
    <3>2. QED
      BY <3>1, <1>3, LeastElement
  <2>2. least \in found
    <3> HIDE DEF found
    <3>1. QED
      BY <2>1
  <2>3. least \in 1..Len(s) /\ handler \in Low /\ handler.op \in Handlers
    BY <2>2, <1>1
  <2>4. Raise(s) = IF handler.op = "reconcile" THEN <<[handler EXCEPT !.clean = FALSE]>> \o below
                   ELSE <<CallOn("to_unknown", handler.id)>> \o AmbiguityCalls(handler.op) \o below
    BY <1>3 DEF Raise
  <2>5. handler = s[least]
    OBVIOUS
  <2> HIDE DEF handler, below, least
  <2>6. /\ below \in Seq(Low)
        /\ Len(below) = IF least + 1 <= Len(s) THEN Len(s) - (least + 1) + 1 ELSE 0
        /\ \A k \in 1..(Len(s) - (least + 1) + 1) : below[k] = s[(least + 1) + k - 1]
    <3>1. least + 1 \in Int /\ Len(s) \in Int /\ \A k \in (least + 1)..Len(s) : s[k] \in Low
      BY <1>1, <2>3
    <3>2. QED
      BY <3>1, SubSeqProperties DEF below
  <2>7. ASSUME NEW k \in 1..Len(below)
        PROVE  least + k \in 1..Len(s) /\ below[k] = s[least + k] /\ least < least + k
    <3>1. k \in 1..(Len(s) - (least + 1) + 1) /\ (least + 1) + k - 1 = least + k
      BY <1>1, <2>3, <2>6, <2>7
    <3>2. least + k \in 1..Len(s) /\ least < least + k
      BY <1>1, <2>3, <3>1
    <3>3. QED
      BY <2>6, <3>1, <3>2
  <2>8. Once(below)
    <3>1. ASSUME NEW k \in 1..Len(below), NEW l \in 1..Len(below), k < l, below[k].op \in Settlers
          PROVE  below[l].op # "reconcile"
      <4>1. least + k < least + l
        BY <1>1, <2>3, <3>1
      <4>2. QED
        BY <2>7, <3>1, <4>1 DEF Once
    <3>2. QED
      BY <3>1 DEF Once
  <2>9. handler.op \in Settlers => ~Reconciling(below)
    BY <2>3, <2>5, <2>7 DEF Once, Reconciling
  <2>10. CASE handler.op = "reconcile"
    <3> DEFINE left == [handler EXCEPT !.clean = FALSE]
    <3>1. left.op = "reconcile"
      BY <2>3, <2>10, LoopGoesOn DEF Low, Loops
    <3> HIDE DEF left
    <3>2. Raise(s) = Above(left, below) /\ ~Reconciling(below)
      BY <2>4, <2>9, <2>10 DEF Above, left, Settlers
    <3>3. QED
      BY <2>6, <2>8, <3>2, OnceAbove
  <2>11. CASE handler.op # "reconcile"
    <3>1. handler.id \in IntentIds
      BY <2>3, <2>11, FrameFields DEF Typed, IntentOps, Guards, Handlers, Low
    <3>2. CallOn("to_unknown", handler.id).op = "to_unknown" /\ CallOn("to_unknown", handler.id) \in Frames
      BY <3>1, IntentFrames DEF IntentOps
    <3>3. /\ Call("pause") \in Low /\ Call("unreconciled") \in Low
          /\ Call("pause").op = "pause" /\ Call("unreconciled").op = "unreconciled"
      BY CallFrames DEF PlainOps
    <3> DEFINE calls == <<CallOn("to_unknown", handler.id)>> \o AmbiguityCalls(handler.op)
    <3>4. /\ AmbiguityCalls(handler.op) \in Seq(Low)
          /\ \A k \in 1..Len(AmbiguityCalls(handler.op)) :
               AmbiguityCalls(handler.op)[k].op \notin Settlers
      BY <3>3 DEF AmbiguityCalls, Settlers
    <3>5. Once(AmbiguityCalls(handler.op) \o below) /\ AmbiguityCalls(handler.op) \o below \in Seq(Low)
      BY <2>6, <2>8, <3>4, OncePrefix, ConcatProperties
    <3> DEFINE lower == AmbiguityCalls(handler.op) \o below
    <3>6. Raise(s) = Above(CallOn("to_unknown", handler.id), lower)
      <4>1. Raise(s) = <<CallOn("to_unknown", handler.id)>> \o AmbiguityCalls(handler.op) \o below
        BY <2>4, <2>11
      <4>2. /\ <<CallOn("to_unknown", handler.id)>> \in Seq(Frames)
            /\ AmbiguityCalls(handler.op) \in Seq(Frames) /\ below \in Seq(Frames)
        <5>1. Low \subseteq Frames
          BY DEF Low
        <5>2. ASSUME NEW K, NEW L, K \subseteq L, NEW t \in Seq(K) PROVE t \in Seq(L)
          BY <5>2
        <5>3. QED
          BY <2>6, <3>2, <3>4, <5>1, <5>2
      <4>3. QED
        BY <4>1, <4>2, ConcatAssociative DEF Above
    <3> HIDE DEF lower
    <3>7. lower \in Seq(Low) /\ Once(lower)
      BY <3>5 DEF lower
    <3>8. QED
      BY <3>2, <3>6, <3>7, OnceAbove DEF Settlers
  <2>12. QED
    BY <2>10, <2>11
<1>4. QED
  BY <1>2, <1>3

-----------------------------------------------------------------------------
(* Stacks that cover what is due, with no urgent call on top.              *)
Orderly(s, due, known) ==
  s \in Seq(Covers(due, known)) /\ Once(s) /\ (s # <<>> => Head(s).op \notin Urgent)

(* Calls other than the loop of reconcile() have nothing to cover.         *)
LEMMA CoverFrames ==
  ASSUME NEW due, NEW known, NEW f \in Frames, f.op # "reconcile"
  PROVE  /\ f \in Covers(due, known)
         /\ f \in Low => f \in CoverLow(due, known)
BY DEF Covers, Covering, CoverLow

(* Less is due and more is known.                                          *)
LEMMA CoverMore ==
  ASSUME NEW due, NEW known, NEW less, NEW more, less \subseteq due, known \subseteq more
  PROVE  Covers(due, known) \subseteq Covers(less, more)
BY DEF Covers, Covering

(* Less is due and more is known, for a whole stack.                       *)
LEMMA CoverStackMore ==
  ASSUME NEW due, NEW known, NEW less, NEW more, less \subseteq due, known \subseteq more,
         NEW s \in Seq(Covers(due, known))
  PROVE  s \in Seq(Covers(less, more))
<1>1. Covers(due, known) \subseteq Covers(less, more)
  BY CoverMore
<1>2. QED
  BY <1>1, SeqMonotonic

(* Less is due and more is known to the calls that wait.                   *)
LEMMA CoverLowMore ==
  ASSUME NEW due, NEW known, NEW less, NEW more, less \subseteq due, known \subseteq more,
         NEW s \in Seq(CoverLow(due, known))
  PROVE  s \in Seq(CoverLow(less, more))
<1>1. CoverLow(due, known) \subseteq CoverLow(less, more)
  BY CoverMore DEF CoverLow
<1>2. QED
  BY <1>1, SeqMonotonic

(* Nothing reconciles, nothing to cover.                                   *)
LEMMA CoverNone ==
  ASSUME NEW due, NEW known, NEW s \in Seq(Low), ~Reconciling(s)
  PROVE  s \in Seq(CoverLow(due, known))
<1>1. Len(s) \in Nat /\ \A k \in 1..Len(s) : s[k] \in Low /\ s[k].op # "reconcile"
  BY LenProperties, ElementOfSeq DEF Reconciling
<1>2. \A k \in 1..Len(s) : s[k] \in CoverLow(due, known)
  BY <1>1, CoverFrames DEF Low
<1>3. ASSUME NEW K, NEW L, NEW t \in Seq(K), \A k \in 1..Len(t) : t[k] \in L PROVE t \in Seq(L)
  BY <1>3
<1>4. QED
  BY <1>2, <1>3

(* Waiting calls, and a call above them.                                   *)
LEMMA OrderlyLow ==
  ASSUME NEW due, NEW known, NEW s \in Seq(CoverLow(due, known)), Once(s)
  PROVE  Orderly(s, due, known)
<1>1. s \in Seq(Covers(due, known))
  BY SeqMonotonic DEF CoverLow
<1>2. s # <<>> => Head(s) \in CoverLow(due, known)
  BY TopAndRest
<1>3. QED
  BY <1>1, <1>2 DEF Orderly, CoverLow, Low, TopOnly, Urgent

(* A call above such a stack.                                              *)
LEMMA OrderlyAbove ==
  ASSUME NEW due, NEW known, NEW f \in Covers(due, known), NEW below \in Seq(CoverLow(due, known)),
         Once(below), f.op \in Settlers => ~Reconciling(below)
  PROVE  /\ Above(f, below) \in Seq(Covers(due, known)) /\ Once(Above(f, below))
         /\ f.op \notin Urgent => Orderly(Above(f, below), due, known)
         /\ f \in Low => Above(f, below) \in Seq(CoverLow(due, known))
<1>1. below \in Seq(Covers(due, known))
  BY OrderlyLow DEF Orderly
<1>2. Above(f, below) \in Seq(Covers(due, known)) /\ Head(Above(f, below)) = f
  BY <1>1, AboveProperties
<1>3. Once(Above(f, below))
  BY OnceAbove
<1>4. f \in Low => Above(f, below) \in Seq(CoverLow(due, known))
  <2>1. f \in Low => f \in CoverLow(due, known)
    BY DEF CoverLow
  <2>2. QED
    BY <2>1, AboveProperties
<1>5. QED
  BY <1>2, <1>3, <1>4 DEF Orderly

(* A loop that lost its cleanness.                                         *)
LEMMA CoverUnclean ==
  ASSUME NEW due, NEW known, NEW less, NEW more, known \subseteq more,
         NEW f \in Covers(due, known), f.op = "reconcile"
  PROVE  LET unclean == [f EXCEPT !.clean = FALSE]
         IN unclean \in Covers(less, more) /\ unclean.op = "reconcile"
            /\ unclean \in CoverLow(less, more)
<1> DEFINE unclean == [f EXCEPT !.clean = FALSE]
<1>1. f \in Frames /\ f.op \in Loops /\ f.todo \in SUBSET f.todo /\ FALSE \in BOOLEAN
  BY DEF Covers, Loops
<1>2. /\ unclean \in Frames /\ unclean.op = "reconcile" /\ unclean.todo = f.todo
      /\ unclean.clean = FALSE /\ unclean \in Low
  BY <1>1, LoopGoesOn
<1> HIDE DEF unclean
<1>3. unclean \in Covers(less, more) /\ unclean \in CoverLow(less, more)
  BY <1>2 DEF Covers, Covering, CoverLow
<1>4. QED
  BY <1>2, <1>3 DEF unclean

(* An exception leaves such a stack.                                       *)
LEMMA OrderlyRaise ==
  ASSUME NEW due, NEW known, NEW s \in Seq(CoverLow(due, known)), Once(s)
  PROVE  Orderly(Raise(s), due, known)
<1> DEFINE L == CoverLow(due, known)
<1>0. L \in SUBSET Low
  BY DEF CoverLow
<1>1. Call("pause") \in L /\ Call("unreconciled") \in L
  <2>1. /\ Call("pause") \in Low /\ Call("pause").op = "pause"
        /\ Call("unreconciled") \in Low /\ Call("unreconciled").op = "unreconciled"
    BY CallFrames DEF PlainOps
  <2>2. QED
    BY <2>1, CoverFrames DEF Low
<1> HIDE DEF L
<1>2. s \in Seq(L) /\ s \in Seq(Low)
  BY <1>0, SeqMonotonic DEF L
<1>3. Once(Raise(s))
  BY <1>2, OnceRaise
<1>4. CASE Raise(s) = <<>>
  BY <1>3, <1>4 DEF Orderly
<1>5. ASSUME NEW f \in L, NEW below \in Seq(L), f.op = "reconcile",
             Raise(s) = Above([f EXCEPT !.clean = FALSE], below)
      PROVE  Orderly(Raise(s), due, known)
  <2> DEFINE g == [f EXCEPT !.clean = FALSE]
  <2>1. g \in Covers(due, known) /\ g.op = "reconcile"
    BY <1>5, CoverUnclean DEF L, CoverLow
  <2> HIDE DEF g
  <2>2. Raise(s) = Above(g, below) /\ below \in Seq(Covers(due, known))
    BY <1>5, OrderlyLow, SeqMonotonic DEF g, L, CoverLow
  <2>3. Raise(s) \in Seq(Covers(due, known)) /\ Raise(s) # <<>> /\ Head(Raise(s)) = g
    BY <2>1, <2>2, AboveProperties
  <2>4. QED
    BY <1>3, <2>1, <2>3 DEF Orderly, Urgent
<1>6. ASSUME NEW i \in IntentIds, NEW guard \in Guards, NEW below \in Seq(L),
             Raise(s) = Interrupted(i, guard, below)
      PROVE  Orderly(Raise(s), due, known)
  <2>1. AmbiguityCalls(guard) \o below \in Seq(L)
    BY <1>0, <1>1, Ambiguity
  <2>2. CallOn("to_unknown", i) \in Frames /\ CallOn("to_unknown", i).op = "to_unknown"
    BY IntentFrames DEF IntentOps
  <2>3. CallOn("to_unknown", i) \in Covers(due, known)
    BY <2>2, CoverFrames
  <2> DEFINE calls == AmbiguityCalls(guard) \o below
  <2> HIDE DEF calls
  <2>4. Raise(s) = Above(CallOn("to_unknown", i), calls) /\ calls \in Seq(Covers(due, known))
    BY <1>6, <2>1, SeqMonotonic DEF Interrupted, calls, L, CoverLow
  <2>5. /\ Raise(s) \in Seq(Covers(due, known)) /\ Raise(s) # <<>>
        /\ Head(Raise(s)) = CallOn("to_unknown", i)
    BY <2>3, <2>4, AboveProperties
  <2>6. QED
    BY <1>3, <2>2, <2>5 DEF Orderly, Urgent
<1>7. \/ Raise(s) = <<>> /\ ~Reconciling(s)
      \/ \E f \in L, below \in Seq(L) :
           f.op = "reconcile" /\ Raise(s) = Above([f EXCEPT !.clean = FALSE], below)
      \/ \E i \in IntentIds, guard \in Guards, below \in Seq(L) :
           /\ Raise(s) = Interrupted(i, guard, below)
           /\ Reconciling(s) => Reconciling(below)
  BY <1>0, <1>2, Raises
<1>8. QED
  BY <1>4, <1>5, <1>6, <1>7

(* The topmost call and what waits below it.                               *)
LEMMA CoverRest ==
  ASSUME agenda \in Stacks, NEW due, NEW known, agenda \in Seq(Covers(due, known)), Once(agenda),
         NEW op, Running(op), op \notin {"pause", "unreconciled"}
  PROVE  /\ Top \in Covers(due, known) /\ Rest \in Seq(CoverLow(due, known)) /\ Once(Rest)
         /\ op \in Settlers => ~Reconciling(Rest)
<1>1. agenda # <<>> /\ Rest \in Seq(Low)
  BY Topmost DEF Running
<1>2. /\ Top \in Covers(due, known) /\ Rest \in Seq(Covers(due, known)) /\ Once(Rest)
      /\ op \in Settlers => ~Reconciling(Rest)
  BY <1>1, TopAndRest, OnceBelow DEF Top, Rest, Running
<1>3. ASSUME NEW K, NEW L, NEW s \in Seq(K), s \in Seq(L) PROVE s \in Seq(K \cap L)
  BY <1>3
<1>4. QED
  BY <1>1, <1>2, <1>3 DEF CoverLow

(* Returning to what waits.                                                *)
LEMMA OrderlyThen ==
  ASSUME NEW due, NEW known, Rest \in Seq(CoverLow(due, known)), Once(Rest)
  PROVE  Then(<<>>) \in Seq(CoverLow(due, known)) /\ Once(Then(<<>>))
<1>1. Then(<<>>) = Rest \/ (Rest # <<>> /\ Then(<<>>) = Tail(Rest))
  BY DEF Then
<1>2. Rest # <<>> => Tail(Rest) \in Seq(CoverLow(due, known)) /\ Once(Tail(Rest))
  BY OnceBelow
<1>3. QED
  BY <1>1, <1>2

(* What the calls of an operation leave behind.                            *)
LEMMA OrderlyRest ==
  ASSUME agenda \in Stacks, NEW due, NEW known, agenda \in Seq(Covers(due, known)), Once(agenda),
         NEW op, Running(op), op \notin {"pause", "unreconciled"}
  PROVE  /\ Orderly(Then(<<>>), due, known) /\ Orderly(Raise(Rest), due, known)
         /\ \A f \in Covers(due, known) : f.op \notin Urgent /\ (f.op \in Settlers => op \in Settlers) =>
              Orderly(Then(<<f>>), due, known) /\ Orderly(<<f>> \o Rest, due, known)
         /\ \A f, g \in CoverLow(due, known) :
              f.op \notin Settlers /\ (g.op \in Settlers => op \in Settlers) =>
                /\ Orderly(Then(<<f, g>>), due, known) /\ Orderly(<<f, g>> \o Rest, due, known)
                /\ Orderly(Raise(<<f, g>> \o Rest), due, known)
                /\ <<f, g>> \o Rest = Above(f, Above(g, Rest))
<1> DEFINE L == CoverLow(due, known)
<1>1. Rest \in Seq(L) /\ Once(Rest) /\ (op \in Settlers => ~Reconciling(Rest))
  BY CoverRest
<1> HIDE DEF L
<1>2. Then(<<>>) \in Seq(L) /\ Once(Then(<<>>))
  BY <1>1, OrderlyThen DEF L
<1>3. ASSUME NEW f \in Covers(due, known), f.op \notin Urgent, f.op \in Settlers => op \in Settlers
      PROVE  Orderly(Then(<<f>>), due, known) /\ Orderly(<<f>> \o Rest, due, known)
  <2>1. Orderly(Above(f, Rest), due, known)
    BY <1>1, <1>3, OrderlyAbove DEF L
  <2>2. QED
    BY <2>1, Calls1 DEF Above
<1>4. ASSUME NEW f \in L, NEW g \in L, f.op \notin Settlers, g.op \in Settlers => op \in Settlers
      PROVE  /\ Orderly(Then(<<f, g>>), due, known) /\ Orderly(<<f, g>> \o Rest, due, known)
             /\ Orderly(Raise(<<f, g>> \o Rest), due, known)
             /\ <<f, g>> \o Rest = Above(f, Above(g, Rest))
  <2>1. Then(<<f, g>>) = <<f, g>> \o Rest
    BY DEF Then
  <2>2. ASSUME NEW below \in Seq(L) PROVE <<f, g>> \o below = Above(f, Above(g, below))
    BY TwoAbove
  <2>3. /\ f \in Low /\ f \in Covers(due, known) /\ g \in Low /\ g \in Covers(due, known)
    BY <1>4 DEF L, CoverLow
  <2>4. Above(g, Rest) \in Seq(L) /\ Once(Above(g, Rest))
    BY <1>1, <1>4, <2>3, OrderlyAbove DEF L
  <2> DEFINE lower == Above(g, Rest)
  <2> HIDE DEF lower
  <2>5. Above(f, lower) \in Seq(L) /\ Once(Above(f, lower))
    BY <1>4, <2>3, <2>4, OrderlyAbove DEF L, lower
  <2>6. <<f, g>> \o Rest = Above(f, lower)
    BY <1>1, <2>2 DEF lower
  <2>7. QED
    BY <2>1, <2>5, <2>6, OrderlyLow, OrderlyRaise DEF L, lower
<1>5. QED
  BY <1>1, <1>2, <1>3, <1>4, OrderlyLow, OrderlyRaise DEF L

(* The calls that block entries return to what waited for them.            *)
LEMMA OrderlyBlocked ==
  ASSUME agenda \in Stacks, NEW due, NEW known, agenda \in Seq(Covers(due, known)), Once(agenda),
         Running("pause") \/ Running("unreconciled")
  PROVE  /\ Orderly(Then(<<>>), due, known)
         /\ Rest # <<>> /\ Head(Rest).op = "unreconciled" => Then(<<>>) = Rest
<1>0. agenda # <<>> /\ Rest \in Seq(Covers(due, known)) /\ Once(Rest)
  BY TopAndRest, OnceBelow DEF Running, Rest
<1>1. Rest # <<>> /\ Head(Rest).op \in {"unreconciled", "recover"} => Then(<<>>) = Rest
  BY DEF Then, Guards
<1>2. CASE agenda \in Working
  <2>1. Rest \in Seq(Low)
    BY <1>0, <1>2, WorkingTop DEF Rest
  <2>2. ASSUME NEW K, NEW L, NEW t \in Seq(K), t \in Seq(L) PROVE t \in Seq(K \cap L)
    BY <2>2
  <2>3. Rest \in Seq(CoverLow(due, known))
    BY <1>0, <2>1, <2>2 DEF CoverLow
  <2>4. QED
    BY <1>0, <1>1, <2>3, OrderlyThen, OrderlyLow
<1>3. CASE agenda \in Starting
  <2>1. Rest # <<>> /\ Head(Rest).op \in {"unreconciled", "recover"}
    BY <1>3, StartingStacks DEF Rest
  <2>2. QED
    BY <1>0, <1>1, <2>1 DEF Orderly, Urgent
<1>4. QED
  BY <1>2, <1>3 DEF Stacks

-----------------------------------------------------------------------------
(* Steps after which the books are as good as before: nothing else is off,  *)
(* and what is stays marked.                                               *)
Kept == Books' /\ Known \subseteq Known' /\ Off' \subseteq Off

Marked == \A i \in Off' : intents[i].state = "UNKNOWN" => intents'[i].state = "UNKNOWN"

(* The broker's orders fill no more, and none comes or goes.               *)
Aside ==
  /\ moved' = moved /\ unseen \subseteq unseen'
  /\ \A i \in IntentIds : /\ orders'[i].state = orders[i].state
                          /\ orders'[i].filled_units = orders[i].filled_units

(* An order that was never sent does not exist.                            *)
LEMMA NeverAccepted ==
  ASSUME EInv, Books, NEW i \in IntentIds, dispatched[i] = 0 \/ intents[i].state \in Unsent
  PROVE  /\ ~Accepted(i) /\ ~Live(i) /\ dispatched[i] = 0
         /\ orders[i].filled_units = 0 /\ intents[i].filled_units = 0
<1>1. dispatched[i] = 0
  BY DEF EInv, BrokerOK, BrokerTyped, SentOnce
<1>2. ~Accepted(i) /\ orders[i].filled_units = 0
  BY <1>1 DEF EInv, BrokerOK, BrokerOrders
<1>3. intents[i].filled_units = 0
  BY <1>2 DEF Books, BooksOf, EInv, IInv, TypeOK, OrderIntent, Units
<1>4. QED
  BY <1>1, <1>2, <1>3, NilDistinct DEF Accepted, Live, OrderState, ACTIVE_STATES

(* A step about one row.                                                   *)
LEMMA KeptOne ==
  ASSUME Books, Aside, NEW i, \A j \in IntentIds : j # i => intents'[j] = intents[j],
         BooksOf(i)', i \in Known => i \in Known', i \in Off' => i \in Off
  PROVE  Kept
<1>1. ASSUME NEW j \in IntentIds, j # i PROVE BooksOf(j)'
  BY <1>1 DEF Books, BooksOf, Aside, Accepted
<1>2. ASSUME NEW j \in IntentIds, j # i
      PROVE  /\ j \in Known => j \in Known'
             /\ j \in Off' => j \in Off
  BY <1>2 DEF Known, Off, Agreed, Live, Active, Accepted, Row, Aside
<1>3. \A j \in Known : j \in Known'
  BY <1>2 DEF Known
<1>4. \A j \in Off' : j \in Off
  BY <1>2 DEF Off
<1>5. Books'
  BY <1>1 DEF Books
<1>6. QED
  BY <1>3, <1>4, <1>5 DEF Kept

(* The calls of the store but the booking of a report are of that kind,    *)
(* when they end what was never sent.                                      *)
LEMMA KeptCalls ==
  ASSUME EInv, Books, Aside
  PROVE  /\ UNCHANGED intents => Kept /\ Marked
         /\ \A s \in Symbols, n \in Units, stop \in StopPrices :
              CreateEntry(s, n, stop) => Kept /\ Marked
         /\ \A p \in PositionIds, n \in Units : CreateClose(p, n) => Kept /\ Marked
         /\ \A i \in IntentIds, state \in ExecutorStates :
              Transition(i, state) /\ (state \in {"EXPIRED", "REJECTED"} => dispatched[i] = 0) =>
                /\ Kept
                /\ \/ intents[i].state # "UNKNOWN" \/ state \in {"UNKNOWN", "EXPIRED", "REJECTED"}
                   => Marked
                /\ intents'[i].state = state
                /\ \A j \in IntentIds : j # i => intents'[j] = intents[j]
<1> USE NilDistinct
<1>0. intents \in [IntentIds -> OrderIntent] /\ Symbols \subseteq IntentIds /\ PositionIds \subseteq IntentIds
  BY DEF EInv, IInv, TypeOK, IntentIds
<1>1. ASSUME UNCHANGED intents PROVE Kept /\ Marked
  <2>1. Books'
    BY <1>1 DEF Books, BooksOf, Aside, Accepted
  <2>2. Known \subseteq Known'
    BY <1>1 DEF Known, Accepted, Row, Aside
  <2>3. Off' \subseteq Off
    BY <1>1 DEF Off, Agreed, Live, Active, Aside
  <2>4. QED
    BY <1>1, <2>1, <2>2, <2>3 DEF Kept, Marked
<1>2. ASSUME NEW i \in IntentIds, NEW n, NEW stop, ~Row(i),
             intents' = [intents EXCEPT ![i] = NewIntent(n, stop)]
      PROVE  Kept /\ Marked
  <2>1. /\ intents'[i].state = "APPROVED" /\ intents'[i].filled_units = 0
        /\ \A j \in IntentIds : j # i => intents'[j] = intents[j]
    BY <1>0, <1>2 DEF NewIntent
  <2>2. /\ ~Accepted(i) /\ ~Live(i) /\ orders[i].filled_units = 0
    BY <1>2, NeverAccepted DEF Row, Unsent
  <2>3. /\ orders'[i].state = Nil /\ orders'[i].filled_units = 0
    BY <2>2 DEF Aside, Accepted
  <2>4. BooksOf(i)'
    BY <2>1, <2>3 DEF BooksOf, TERMINAL_STATES, OrderState, Accepted
  <2>5. i \notin Known
    BY <1>2 DEF Known
  <2>6. i \notin Off'
    BY <2>1, <2>3 DEF Off, Agreed, Live, OrderState, ACTIVE_STATES
  <2>7. Kept
    BY <2>1, <2>4, <2>5, <2>6, KeptOne
  <2>8. QED
    BY <2>1, <2>6, <2>7 DEF Marked, Off
<1>3. ASSUME NEW i \in IntentIds, NEW state \in ExecutorStates, Transition(i, state),
             state \in {"EXPIRED", "REJECTED"} => dispatched[i] = 0
      PROVE  /\ Kept
             /\ \/ intents[i].state # "UNKNOWN" \/ state \in {"UNKNOWN", "EXPIRED", "REJECTED"}
                => Marked
             /\ intents'[i].state = state
             /\ \A j \in IntentIds : j # i => intents'[j] = intents[j]
  <2>1. /\ Row(i) /\ ValidTransition(intents[i].state, state)
        /\ intents' = [intents EXCEPT ![i].state = state]
    BY <1>3 DEF Transition
  <2>2. /\ intents'[i].state = state /\ intents'[i].filled_units = intents[i].filled_units
        /\ intents'[i].broker_order_id = intents[i].broker_order_id
        /\ \A j \in IntentIds : j # i => intents'[j] = intents[j]
    BY <1>0, <2>1 DEF OrderIntent
  <2>3. intents[i].state \in OrderState
    BY <1>0, <2>1 DEF OrderIntent, Row
  <2>4. /\ state \in TERMINAL_STATES <=> state \in {"EXPIRED", "REJECTED"}
        /\ state \in ACTIVE_STATES <=> state \notin {"EXPIRED", "REJECTED"}
        /\ state \in OrderState
    BY DEF ExecutorStates, TERMINAL_STATES, ACTIVE_STATES, OrderState
  <2>5. ASSUME state \in {"EXPIRED", "REJECTED"}
        PROVE  ~Accepted(i) /\ ~Live(i) /\ orders[i].filled_units = 0 /\ intents[i].filled_units = 0
    BY <1>3, <2>5, NeverAccepted
  <2>6. BooksOf(i)'
    <3>1. BooksOf(i)
      BY DEF Books
    <3>2. QED
      BY <2>2, <2>4, <2>5, <3>1 DEF BooksOf, Aside, Accepted
  <2>7. i \in Known => i \in Known'
    <3>1. intents[i].state \in TERMINAL_STATES => state \in TERMINAL_STATES
      BY <2>1, <2>3, <2>4, NoRevival
    <3>2. QED
      BY <2>1, <2>2, <2>4, <3>1 DEF Known, Accepted, Row, Aside
  <2>8. i \in Off' => i \in Off /\ state \notin {"EXPIRED", "REJECTED"}
    <3>1. ASSUME state \in {"EXPIRED", "REJECTED"} PROVE i \notin Off'
      BY <2>2, <2>5, <3>1 DEF Off, Agreed, Live, Aside
    <3>2. ASSUME state \notin {"EXPIRED", "REJECTED"} PROVE i \in Off' => i \in Off
      BY <2>2, <2>4, <3>2 DEF Off, Agreed, Live, Active, Aside
    <3>3. QED
      BY <3>1, <3>2
  <2>9. Kept
    BY <2>2, <2>6, <2>7, <2>8, KeptOne
  <2>10. \/ intents[i].state # "UNKNOWN" \/ state \in {"UNKNOWN", "EXPIRED", "REJECTED"}
         => Marked
    BY <2>2, <2>8 DEF Marked, Off
  <2>11. QED
    BY <2>2, <2>9, <2>10
<1>4. QED
  BY <1>0, <1>1, <1>2, <1>3 DEF CreateEntry, CreateClose

-----------------------------------------------------------------------------
(* Nothing more is due after such a step, when no order was under way.     *)
LEMMA DueKept ==
  ASSUME Off' \subseteq Off, Marked, agenda = <<>> \/ Top.op \notin Answering
  PROVE  Due' \subseteq Due
BY DEF Due, Marked, Underway, Top, Off

(* Doubt comes from the calls that block entries.                          *)
LEMMA NoDoubt ==
  ASSUME agenda = <<>> \/ Top.op \notin {"pause", "unreconciled", "to_unknown"}
  PROVE  ~Doubted(agenda)
BY DEF Doubted, Top

(* Nothing new is off outside reconcile(), whatever the step.              *)
Sheltered ==
  \/ ~started' \/ ~reconciliation_ok' \/ Doubted(agenda)'
  \/ /\ started /\ reconciliation_ok /\ ~Doubted(agenda)
     /\ Reconciling(agenda) => Reconciling(agenda')

(* Such a step, to a stack that covers what was due.                       *)
LEMMA CoveredMove ==
  ASSUME Kept, Due' \subseteq Due, Outside',
         agenda' \in Seq(Covers(Due, Known)), Once(agenda'), Ahead(agenda)'
  PROVE  AgreeInv'
<1>1. agenda' \in Seq(Covers(Due', Known'))
  BY CoverStackMore DEF Kept
<1>2. QED
  BY <1>1 DEF AgreeInv, Kept

(* Nothing is off outside reconcile() then.                                *)
LEMMA OutsideKept ==
  ASSUME AgreeInv, Off' \subseteq Off, agenda = <<>> \/ Top.op \notin Answering, Sheltered
  PROVE  Outside'
<1>1. ASSUME started', reconciliation_ok', ~Reconciling(agenda'), ~Doubted(agenda)'
      PROVE  Off' = {}
  <2>1. started /\ reconciliation_ok /\ ~Reconciling(agenda) /\ ~Doubted(agenda)
    BY <1>1 DEF Sheltered
  <2>2. \A i \in Off : Underway(agenda, i)
    BY <2>1 DEF AgreeInv, Outside
  <2>3. QED
    BY <2>2 DEF Underway, Top
<1>2. QED
  BY <1>1 DEF Outside

(* Such a step of a call that is about no order.                           *)
LEMMA KeptMove ==
  ASSUME AgreeInv, Kept, Marked, agenda = <<>> \/ Top.op \notin Answering, Sheltered,
         agenda' \in Seq(Covers(Due, Known)), Once(agenda'), Ahead(agenda)'
  PROVE  AgreeInv'
<1>1. Due' \subseteq Due /\ Outside'
  BY DueKept, OutsideKept DEF Kept
<1>2. QED
  BY <1>1, CoveredMove

(* A call that is not urgent needs nothing.                                *)
LEMMA OrderlyAhead ==
  ASSUME Orderly(agenda', Due, Known)
  PROVE  agenda' \in Seq(Covers(Due, Known)) /\ Once(agenda') /\ Ahead(agenda)'
BY DEF Orderly, Ahead, AheadCall, Urgent

(* Such a step of a call other than reconcile() and those that block.      *)
LEMMA QuietAgreed ==
  ASSUME AgreeInv, Kept, Marked, NEW op, Running(op),
         op \notin Answering \cup {"pause", "unreconciled"},
         started' = started, reconciliation_ok' => reconciliation_ok,
         Reconciling(agenda) => Reconciling(agenda'),
         Orderly(agenda', Due, Known)
  PROVE  AgreeInv'
<1>1. agenda # <<>> /\ Top.op = op
  BY DEF Running
<1>2. Sheltered
  <2>1. ~Doubted(agenda)
    BY <1>1, NoDoubt DEF Answering
  <2>2. QED
    BY <2>1 DEF Sheltered, Running
<1>3. QED
  BY <1>1, <1>2, OrderlyAhead, KeptMove

-----------------------------------------------------------------------------
(* The plain calls, wherever they are made.                                *)
LEMMA CoverPlain ==
  ASSUME NEW due, NEW known
  PROVE  /\ \A op \in PlainOps : /\ Call(op) \in CoverLow(due, known) /\ Call(op).op = op
                                 /\ Call(op) \in Covers(due, known)
         /\ \A p \in PositionIds, op \in {"close", "close_recheck"} :
              CallOn(op, p) \in CoverLow(due, known) /\ CallOn(op, p).op = op
         /\ \A i \in IntentIds, op \in IntentOps :
              /\ CallOn(op, i) \in Covers(due, known) /\ CallOn(op, i).op = op /\ CallOn(op, i).id = i
              /\ op \notin TopOnly => CallOn(op, i) \in CoverLow(due, known)
<1>1. ASSUME NEW op \in PlainOps
      PROVE  Call(op) \in CoverLow(due, known) /\ Call(op).op = op /\ Call(op) \in Covers(due, known)
  <2>1. Call(op) \in Low /\ Call(op).op = op /\ op # "reconcile"
    BY CallFrames DEF PlainOps
  <2>2. QED
    BY <2>1, CoverFrames DEF Low
<1>2. ASSUME NEW p \in PositionIds, NEW op \in {"close", "close_recheck"}
      PROVE  CallOn(op, p) \in CoverLow(due, known) /\ CallOn(op, p).op = op
  <2>1. CallOn(op, p) \in Low /\ CallOn(op, p).op = op
    BY PositionFrames
  <2>2. QED
    BY <2>1, CoverFrames DEF Low
<1>3. ASSUME NEW i \in IntentIds, NEW op \in IntentOps
      PROVE  /\ CallOn(op, i) \in Covers(due, known) /\ CallOn(op, i).op = op /\ CallOn(op, i).id = i
             /\ op \notin TopOnly => CallOn(op, i) \in CoverLow(due, known)
  <2>1. /\ CallOn(op, i) \in Frames /\ CallOn(op, i).op = op /\ CallOn(op, i).id = i
        /\ op \notin TopOnly => CallOn(op, i) \in Low
    BY IntentFrames
  <2>2. op # "reconcile"
    BY DEF IntentOps
  <2>3. QED
    BY <2>1, <2>2, CoverFrames
<1>4. QED
  BY <1>1, <1>2, <1>3

(* Calls that return, fail or call on, and are about no order in flight.   *)
LEMMA AgreedReturns ==
  ASSUME EInv, AgreeInv, ExposureInv,
         \/ SetProtectionCall \/ EndIncident \/ LoopEnds("recover") \/ LoopEnds("cancel")
         \/ LoopEnds("flatten") \/ Reject \/ CloseNothing \/ CloseBlocked \/ CloseAfterCancel
         \/ CloseStillPending \/ CloseRefused \/ ConfirmFlat
  PROVE  AgreeInv'
<1>0. agenda \in Stacks /\ agenda \in Seq(Covers(Due, Known)) /\ Once(agenda) /\ Books
  BY DEF EInv, AgreeInv
<1>1. UNCHANGED brokerVars => Aside
  BY DEF brokerVars, Aside
<1>2. UNCHANGED storeVars /\ UNCHANGED brokerVars => Kept /\ Marked /\ reconciliation_ok' = reconciliation_ok
  BY <1>0, <1>1, KeptCalls DEF storeVars, orderVars, gateVars
<1>3. ASSUME NEW op, Running(op), op \notin {"pause", "unreconciled", "reconcile"}
      PROVE  /\ Orderly(Then(<<>>), Due, Known) /\ Orderly(Raise(Rest), Due, Known)
             /\ Orderly(Then(<<Call("pause")>>), Due, Known)
             /\ Reconciling(agenda) =>
                  /\ Reconciling(Then(<<>>)) /\ Reconciling(Raise(Rest))
                  /\ Reconciling(Then(<<Call("pause")>>))
  <2>1. /\ Call("pause") \in Covers(Due, Known) /\ Call("pause").op = "pause"
        /\ Call("pause") \in Frames
    BY CoverPlain DEF PlainOps, Covers
  <2>2. /\ Orderly(Then(<<>>), Due, Known) /\ Orderly(Raise(Rest), Due, Known)
        /\ Orderly(Then(<<Call("pause")>>), Due, Known)
    BY <1>0, <1>3, <2>1, OrderlyRest DEF Urgent, Settlers
  <2>3. Keeps(Then(<<>>)) /\ Keeps(Raise(Rest)) /\ Keeps(Then(<<Call("pause")>>))
    BY <1>0, <1>3, <2>1, KeepsRest
  <2>4. QED
    BY <2>2, <2>3 DEF Keeps
<1>4. CASE \/ EndIncident \/ LoopEnds("recover") \/ LoopEnds("cancel") \/ LoopEnds("flatten")
           \/ CloseNothing \/ CloseStillPending \/ ConfirmFlat
  <2>1. PICK op \in {"end_incident", "recover", "cancel", "flatten", "close", "close_recheck",
                     "confirm_flat"} :
          Running(op) /\ agenda' = Then(<<>>) /\ Internal
    BY <1>4 DEF EndIncident, LoopEnds, CloseNothing, CloseStillPending, ConfirmFlat
  <2>2. op \notin Answering \cup {"pause", "unreconciled", "reconcile"}
    BY <2>1 DEF Answering
  <2>3. QED
    BY <1>2, <1>3, <2>1, <2>2, QuietAgreed DEF Internal, Local
<1>5. CASE CloseBlocked \/ CloseRefused
  <2>1. PICK op \in {"close", "close_recheck"} :
          /\ Running(op) /\ Internal
          /\ agenda' = Then(<<Call("pause")>>) \/ agenda' = Raise(Rest)
    BY <1>5 DEF CloseBlocked, CloseRefused
  <2>2. op \notin Answering \cup {"pause", "unreconciled", "reconcile"}
    BY <2>1 DEF Answering
  <2>3. QED
    BY <1>2, <1>3, <2>1, <2>2, QuietAgreed DEF Internal, Local
<1>6. CASE SetProtectionCall
  <2>1. /\ Running("set_protection") /\ agenda' = Then(<<>>) /\ Local
        /\ UNCHANGED intents /\ reconciliation_ok' = reconciliation_ok
    BY <1>6 DEF SetProtectionCall, SetProtection, orderVars, gateVars
  <2>2. Kept /\ Marked
    BY <1>0, <1>1, <2>1, KeptCalls DEF Local
  <2>3. QED
    BY <1>3, <2>1, <2>2, QuietAgreed DEF Local, Answering
<1>7. CASE Reject
  <2>1. /\ Running("reject") /\ agenda' = Then(<<Call("pause")>>) /\ Local
        /\ Transition(Top.id, "REJECTED")
    BY <1>7 DEF Reject
  <2>2. Top.id \in IntentIds /\ "REJECTED" \in ExecutorStates
    BY <2>1, TopCall DEF Typed, IntentOps, ExecutorStates
  <2>3. dispatched[Top.id] = 0
    BY <2>1 DEF ExposureInv, Unsubmitted, Running, Top
  <2>4. Kept /\ Marked
    BY <1>0, <1>1, <2>1, <2>2, <2>3, KeptCalls DEF Local
  <2>5. reconciliation_ok' = reconciliation_ok
    BY <2>1 DEF Transition, gateVars
  <2>6. QED
    BY <1>3, <2>1, <2>4, <2>5, QuietAgreed DEF Local, Answering
<1>8. CASE CloseAfterCancel
  <2>1. /\ Running("close") /\ Internal
        /\ agenda' = Then(<<Call("cancel_all"), CallOn("close_recheck", Top.id)>>)
    BY <1>8 DEF CloseAfterCancel
  <2>2. Top.id \in PositionIds
    BY <2>1, TopCall DEF Typed
  <2>3. /\ Call("cancel_all") \in CoverLow(Due, Known) /\ Call("cancel_all").op = "cancel_all"
        /\ CallOn("close_recheck", Top.id) \in CoverLow(Due, Known)
        /\ CallOn("close_recheck", Top.id).op = "close_recheck"
    BY <2>2, CoverPlain DEF PlainOps
  <2>4. Orderly(agenda', Due, Known)
    BY <1>0, <2>1, <2>3, OrderlyRest DEF Settlers
  <2>5. Keeps(agenda')
    BY <1>0, <2>1, <2>3, KeepsRest DEF CoverLow
  <2>6. QED
    BY <1>2, <2>1, <2>4, <2>5, QuietAgreed DEF Internal, Local, Answering, Keeps
<1>9. QED
  BY <1>4, <1>5, <1>6, <1>7, <1>8

(* The calls that block entries (store.py set_session_state, set_meta).    *)
LEMMA AgreedBlocked ==
  ASSUME EInv, AgreeInv, PauseCall \/ UnreconciledCall
  PROVE  AgreeInv'
<1>0. agenda \in Stacks /\ agenda \in Seq(Covers(Due, Known)) /\ Once(agenda) /\ Books
  BY DEF EInv, AgreeInv
<1>1. /\ Running("pause") \/ Running("unreconciled")
      /\ agenda' = Then(<<>>) /\ UNCHANGED brokerVars /\ UNCHANGED intents /\ started' = started
      /\ Running("pause") => reconciliation_ok' = reconciliation_ok
      /\ Running("unreconciled") => ~reconciliation_ok'
  BY DEF PauseCall, UnreconciledCall, Local, Pause, SetReconciliation, orderVars, Running
<1>2. Kept /\ Marked
  <2>1. Aside
    BY <1>1 DEF brokerVars, Aside
  <2>2. QED
    BY <1>0, <1>1, <2>1, KeptCalls
<1>3. /\ Orderly(agenda', Due, Known)
      /\ Rest # <<>> /\ Head(Rest).op = "unreconciled" => agenda' = Rest
  BY <1>0, <1>1, OrderlyBlocked
<1>4. Reconciling(agenda) => Reconciling(agenda')
  <2>1. CASE agenda \in Starting
    BY <2>1, StartingStacks
  <2>2. CASE agenda \in Working
    <3>1. agenda # <<>> /\ Top.op # "reconcile"
      BY <1>1 DEF Running
    <3>2. Rest \in Seq(Low) /\ agenda = Above(Top, Rest)
      BY <2>2, <3>1, WorkingTop DEF Rest, Top
    <3>3. Reconciling(agenda) => Reconciling(Rest)
      BY <3>1, <3>2, ReconcilingAbove
    <3>4. QED
      BY <1>1, <3>2, <3>3, Returns
  <2>3. QED
    BY <1>0, <2>1, <2>2 DEF Stacks
<1>5. Sheltered
  <2>1. CASE Running("unreconciled")
    BY <1>1, <2>1 DEF Sheltered
  <2>2. CASE Running("pause") /\ Rest # <<>> /\ Head(Rest).op = "unreconciled"
    BY <1>3, <2>2 DEF Sheltered, Doubted
  <2>3. CASE Running("pause") /\ ~(Rest # <<>> /\ Head(Rest).op = "unreconciled")
    <3>1. ~Doubted(agenda) /\ started
      BY <2>3 DEF Doubted, Running, Top, Rest
    <3>2. QED
      BY <1>1, <1>4, <2>3, <3>1 DEF Sheltered
  <2>4. QED
    BY <1>1, <2>1, <2>2, <2>3
<1>6. Top.op \notin Answering
  BY <1>1 DEF Running, Answering
<1>7. QED
  BY <1>2, <1>3, <1>5, <1>6, OrderlyAhead, KeptMove

(* The handler of an ambiguous call makes its intent UNKNOWN, if it is      *)
(* still active, and goes on to block entries.                             *)
LEMMA AgreedUnknown ==
  ASSUME EInv, GateInv, AgreeInv, ToUnknown
  PROVE  AgreeInv'
<1>0. agenda \in Stacks /\ agenda \in Seq(Covers(Due, Known)) /\ Once(agenda) /\ Books
  BY DEF EInv, AgreeInv
<1>1. /\ Running("to_unknown") /\ agenda' = Then(<<>>) /\ UNCHANGED brokerVars
      /\ IF Active(Top.id) /\ intents[Top.id].state # "UNKNOWN"
         THEN Transition(Top.id, "UNKNOWN") ELSE UNCHANGED storeVars
  BY DEF ToUnknown, Local
<1>2. Top.id \in IntentIds /\ "UNKNOWN" \in ExecutorStates
  BY <1>1, TopCall DEF Typed, IntentOps, ExecutorStates
<1>3. /\ Kept
      /\ \A j \in IntentIds : j # Top.id => intents'[j] = intents[j]
      /\ IF Active(Top.id) /\ intents[Top.id].state # "UNKNOWN"
         THEN intents'[Top.id].state = "UNKNOWN" ELSE intents' = intents
  <2>1. Aside
    BY <1>1 DEF brokerVars, Aside
  <2>2. CASE Active(Top.id) /\ intents[Top.id].state # "UNKNOWN"
    BY <1>0, <1>1, <1>2, <2>1, <2>2, KeptCalls
  <2>3. CASE ~(Active(Top.id) /\ intents[Top.id].state # "UNKNOWN")
    BY <1>0, <1>1, <2>1, <2>3, KeptCalls DEF storeVars, orderVars
  <2>4. QED
    BY <2>2, <2>3
<1>4. /\ Rest # <<>> /\ Head(Rest).op \in {"pause", "unreconciled"}
      /\ Head(Rest).op = "pause" => Tail(Rest) # <<>> /\ Head(Tail(Rest)).op = "unreconciled"
  <2>1. PICK guard \in Guards, below \in Seq(Low) : Rest = AmbiguityCalls(guard) \o below
    BY <1>1 DEF GateInv, Handled, Running, Top, Rest
  <2>2. /\ Call("pause") \in Low /\ Call("pause").op = "pause"
        /\ Call("unreconciled") \in Low /\ Call("unreconciled").op = "unreconciled"
    BY CallFrames DEF PlainOps
  <2>3. \/ Rest = Above(Call("pause"), Above(Call("unreconciled"), below))
        \/ Rest = Above(Call("unreconciled"), Above(Call("pause"), below))
    <3>1. Low \in SUBSET Low
      OBVIOUS
    <3>2. QED
      BY <2>1, <2>2, <3>1, Ambiguity
  <2>4. ASSUME NEW f \in Low, NEW g \in Low
        PROVE  LET s == Above(f, Above(g, below))
               IN /\ s # <<>> /\ Head(s) = f /\ Tail(s) # <<>> /\ Head(Tail(s)) = g
    <3>1. /\ Above(g, below) \in Seq(Low) /\ Above(g, below) # <<>> /\ Head(Above(g, below)) = g
      BY <2>4, AboveProperties
    <3> DEFINE lower == Above(g, below)
    <3> HIDE DEF lower
    <3>2. Above(f, lower) # <<>> /\ Head(Above(f, lower)) = f /\ Tail(Above(f, lower)) = lower
      BY <3>1, AboveProperties DEF lower
    <3>3. QED
      BY <3>1, <3>2 DEF lower
  <2>5. QED
    BY <2>2, <2>3, <2>4
<1>5. agenda' = Rest
  BY <1>1, <1>4 DEF Then, Guards
<1>6. Doubted(agenda)'
  BY <1>4, <1>5 DEF Doubted
<1>7. Due' \subseteq Due
  <2>1. ASSUME NEW i \in Due' PROVE i \in Due
    <3>1. i \in Off /\ i \in IntentIds /\ intents'[i].state # "UNKNOWN"
      BY <1>3, <2>1 DEF Due, Kept, Off
    <3>2. intents[i].state # "UNKNOWN" /\ (i = Top.id => ~Active(i))
      BY <1>3, <3>1 DEF Active
    <3>3. ~Underway(agenda, i)
      BY <1>4, <3>2 DEF Underway, Top, Rest
    <3>4. QED
      BY <3>1, <3>2, <3>3 DEF Due
  <2>2. QED
    BY <2>1
<1>8. Orderly(agenda', Due, Known)
  BY <1>0, <1>1, OrderlyRest
<1>9. QED
  BY <1>3, <1>6, <1>7, <1>8, OrderlyAhead, CoveredMove DEF Outside

-----------------------------------------------------------------------------
(* A call that makes another one above what waits.                         *)
LEMMA GoesOn ==
  ASSUME EInv, AgreeInv, Kept, Marked, NEW op, Running(op),
         op \notin Answering \cup {"pause", "unreconciled"},
         started' = started, reconciliation_ok' => reconciliation_ok,
         NEW f \in Covers(Due, Known), f.op \notin Urgent, f.op \in Settlers => op \in Settlers,
         op = "reconcile" => f.op = "reconcile", agenda' = <<f>> \o Rest
  PROVE  AgreeInv'
<1>0. agenda \in Stacks /\ agenda \in Seq(Covers(Due, Known)) /\ Once(agenda)
  BY DEF EInv, AgreeInv
<1>1. Orderly(agenda', Due, Known)
  BY <1>0, OrderlyRest
<1>2. Rest \in Seq(Low) /\ agenda = Above(Top, Rest) /\ Top.op = op
  BY <1>0, Topmost DEF Running
<1>3. Reconciling(agenda) => Reconciling(agenda')
  <2>1. Reconciling(agenda) <=> op = "reconcile" \/ Reconciling(Rest)
    BY <1>2, ReconcilingAbove
  <2>2. Reconciling(agenda') <=> f.op = "reconcile" \/ Reconciling(Rest)
    BY <1>2, ReconcilingAbove DEF Above
  <2>3. QED
    BY <2>1, <2>2
<1>4. QED
  BY <1>1, <1>3, QuietAgreed

(* A loop of reconcile() that has taken an entry.                          *)
LEMMA LeftClean ==
  ASSUME EInv, Running("reconcile"), NEW e
  PROVE  /\ Without(e) \in Frames /\ Without(e).op = "reconcile"
         /\ Without(e).todo = Top.todo \ {e} /\ Without(e).clean = Top.clean
<1>1. Top \in Frames /\ Top.op = "reconcile" /\ Top.op \in Loops
  BY TopCall DEF Loops
<1>2. ASSUME NEW f \in Frames, f.op \in Loops, NEW todo \in SUBSET f.todo
      PROVE  /\ [f EXCEPT !.todo = todo] \in Frames /\ [f EXCEPT !.todo = todo].op = f.op
             /\ [f EXCEPT !.todo = todo].todo = todo /\ [f EXCEPT !.todo = todo].clean = f.clean
  <2>1. ASSUME NEW clean \in BOOLEAN PROVE [f EXCEPT !.todo = todo] \in Frames
    BY <1>2, LoopGoesOn
  <2>2. ASSUME NEW clean \in BOOLEAN PROVE [f EXCEPT !.todo = todo].op = f.op
    BY <1>2, LoopGoesOn
  <2>3. ASSUME NEW clean \in BOOLEAN PROVE [f EXCEPT !.todo = todo].todo = todo
    BY <1>2, LoopGoesOn
  <2>4. ASSUME NEW clean \in BOOLEAN PROVE [f EXCEPT !.todo = todo].clean = f.clean
    BY <1>2, LoopGoesOn
  <2>5. TRUE \in BOOLEAN
    OBVIOUS
  <2>6. QED
    BY <2>1, <2>2, <2>3, <2>4, <2>5
<1>3. QED
  <2>1. Top.todo \ {e} \in SUBSET Top.todo /\ Without(e) = [Top EXCEPT !.todo = Top.todo \ {e}]
    BY DEF Without
  <2> DEFINE todo == Top.todo \ {e}
  <2> HIDE DEF todo
  <2>2. todo \in SUBSET Top.todo /\ Without(e) = [Top EXCEPT !.todo = todo]
    BY <2>1 DEF todo
  <2>3. QED
    BY <1>1, <1>2, <2>2 DEF todo

(* A loop of reconcile() covers what is due without an entry, unless that *)
(* was due, or the loop is not clean any more.                             *)
LEMMA CoverLeft ==
  ASSUME EInv, Running("reconcile"), NEW due, NEW known, Top \in Covers(due, known), NEW e,
         NEW less, less \subseteq due, NEW value \in BOOLEAN, value => Top.clean /\ e.id \notin less
  PROVE  LET left == [Without(e) EXCEPT !.clean = value]
         IN /\ left \in CoverLow(less, known) /\ left \in Covers(less, known)
            /\ left.op = "reconcile" /\ left.clean = value /\ Without(e).clean = Top.clean
<1>1. Top \in Frames /\ Top.op = "reconcile" /\ Top.op \in Loops
  BY TopCall DEF Loops
<1>3. /\ Without(e) \in Frames /\ Without(e).op = "reconcile"
      /\ Without(e).todo = Top.todo \ {e} /\ Without(e).clean = Top.clean
  BY LeftClean
<1>4. ASSUME NEW f \in Frames, f.op \in Loops, f.op # "recover", NEW clean \in BOOLEAN
      PROVE  /\ [f EXCEPT !.clean = clean] \in Frames /\ [f EXCEPT !.clean = clean].op = f.op
             /\ [f EXCEPT !.clean = clean].todo = f.todo
             /\ [f EXCEPT !.clean = clean].clean = clean /\ [f EXCEPT !.clean = clean] \in Low
  <2>1. f.todo \in SUBSET f.todo
    OBVIOUS
  <2>2. QED
    BY <1>4, <2>1, LoopGoesOn
<1> DEFINE left == [Without(e) EXCEPT !.clean = value]
<1>7. /\ left \in Frames /\ left.op = "reconcile" /\ left.todo = Top.todo \ {e}
      /\ left.clean = value /\ left \in Low
  BY <1>3, <1>4 DEF Loops
<1> HIDE DEF left
<1>5. Covering(left, less, known)
  BY <1>1, <1>7 DEF Covers, Covering
<1>6. QED
  BY <1>3, <1>5, <1>7 DEF Covers, CoverLow, left

(* A query that does not show the order: the loop goes on clean only over a *)
(* finished row, whose order, if there is one, counts as unseen.           *)
LEMMA AgreedUnseen ==
  ASSUME EInv, AgreeInv, QueryUnseen
  PROVE  AgreeInv'
<1>0. agenda \in Stacks /\ agenda \in Seq(Covers(Due, Known)) /\ Once(agenda) /\ Books /\ IInv
  BY DEF EInv, AgreeInv
<1>1. Running("reconcile") /\ orders' = orders /\ moved' = moved
  BY DEF QueryUnseen
<1>2. PICK e \in Top.todo :
        /\ Transition(e.id, "UNKNOWN") \/ UNCHANGED storeVars
        /\ agenda' = <<[Without(e) EXCEPT !.clean = @ /\ e.state \notin ACTIVE_STATES]>> \o Rest
        /\ unseen' = IF Accepted(e.id) /\ e.state \notin ACTIVE_STATES
                     THEN unseen \cup {e.id} ELSE unseen
  BY DEF QueryUnseen
<1>3. e.id \in IntentIds /\ "UNKNOWN" \in ExecutorStates /\ Top.op = "reconcile"
  BY <1>1, <1>2, TopCall DEF Typed, Entries, ExecutorStates
<1>4. Aside
  BY <1>1, <1>2 DEF Aside
<1>5. Kept /\ Marked
  <2>1. CASE Transition(e.id, "UNKNOWN")
    BY <1>0, <1>3, <1>4, <2>1, KeptCalls
  <2>2. CASE UNCHANGED storeVars
    BY <1>0, <1>4, <2>2, KeptCalls DEF storeVars, orderVars
  <2>3. QED
    BY <1>2, <2>1, <2>2
<1>6. Due' \subseteq Due
  BY <1>1, <1>3, <1>5, DueKept DEF Kept, Answering, Running
<1>7. /\ Top \in Covers(Due, Known) /\ Rest \in Seq(CoverLow(Due, Known)) /\ Once(Rest)
      /\ ~Reconciling(Rest)
  BY <1>0, <1>1, CoverRest DEF Settlers
<1>8. Rest \in Seq(Low)
  BY <1>7, SeqMonotonic DEF CoverLow
<1>9. ASSUME e.state \notin ACTIVE_STATES PROVE e.id \notin Due'
  <2>1. CASE Accepted(e.id)
    BY <1>2, <1>9, <2>1 DEF Due, Off
  <2>2. CASE ~Accepted(e.id)
    <3>1. orders[e.id].filled_units = 0
      BY <1>3, <2>2 DEF EInv, BrokerOK, BrokerOrders
    <3>2. intents[e.id].filled_units = 0
      BY <1>0, <1>3, <3>1 DEF Books, BooksOf, IInv, TypeOK, OrderIntent, Units
    <3>3. Agreed(e.id)
      BY <2>2, <3>1, <3>2, NilDistinct DEF Agreed, Live, Accepted, OrderState, ACTIVE_STATES
    <3>4. e.id \notin Due
      BY <3>3 DEF Due, Off
    <3>5. QED
      BY <1>6, <3>4
  <2>3. QED
    BY <2>1, <2>2
<1> DEFINE value == Without(e).clean /\ e.state \notin ACTIVE_STATES
           left == [Without(e) EXCEPT !.clean = value]
<1>10. value \in BOOLEAN /\ agenda' = <<left>> \o Rest
  BY <1>2
<1>11. Without(e).clean = Top.clean
  BY <1>1, LeftClean
<1>12. value => Top.clean /\ e.id \notin Due'
  BY <1>9, <1>11
<1> HIDE DEF value
<1>13. left \in Covers(Due', Known) /\ left.op = "reconcile"
  BY <1>1, <1>6, <1>7, <1>10, <1>12, CoverLeft
<1> HIDE DEF left
<1>14. Rest \in Seq(CoverLow(Due', Known)) /\ agenda' = Above(left, Rest)
  BY <1>7, <1>8, <1>10, CoverNone DEF Above
<1>15. Orderly(agenda', Due', Known) /\ Reconciling(agenda')
  <2>1. Orderly(agenda', Due', Known)
    BY <1>7, <1>13, <1>14, OrderlyAbove DEF Urgent
  <2>2. Reconciling(agenda')
    BY <1>8, <1>13, <1>14, ReconcilingAbove
  <2>3. QED
    BY <2>1, <2>2
<1>16. agenda' \in Seq(Covers(Due', Known'))
  BY <1>5, <1>15, CoverStackMore DEF Orderly, Kept
<1>17. QED
  BY <1>5, <1>15, <1>16 DEF AgreeInv, Orderly, Ahead, AheadCall, Urgent, Outside, Kept

(* The loops of __enter__, reconcile(), cancel_pending_entries and         *)
(* flatten_owned, before they ask the broker anything.                     *)
LEMMA AgreedLoops ==
  ASSUME EInv, AgreeInv, ExposureInv,
         \/ Recover \/ QueryFailed \/ CancelAll \/ CancelUnsent
         \/ FlattenAll \/ FlattenNext
  PROVE  AgreeInv'
<1>0. agenda \in Stacks /\ agenda \in Seq(Covers(Due, Known)) /\ Once(agenda) /\ Books /\ IInv
  BY DEF EInv, AgreeInv
<1>1. UNCHANGED brokerVars => Aside
  BY DEF brokerVars, Aside
<1>2. UNCHANGED storeVars /\ UNCHANGED brokerVars => Kept /\ Marked /\ reconciliation_ok' = reconciliation_ok
  BY <1>0, <1>1, KeptCalls DEF storeVars, orderVars, gateVars
<1>3. CASE Recover
  <2>1. Running("recover") /\ Local
    BY <1>3 DEF Recover
  <2>2. PICK e \in Top.todo : /\ Transition(e.id, RecoveredState(e.state))
                              /\ agenda' = <<Without(e)>> \o Rest
    BY <1>3 DEF Recover
  <2>3. /\ Top \in Fresh(dispatched) /\ Without(e) \in Fresh(dispatched)
        /\ Without(e).op = "recover"
    BY <2>1, FreshLeft DEF Loops
  <2>4. e.id \in IntentIds /\ Top.op = "recover"
    BY <2>1, <2>2, TopCall DEF Typed, Entries
  <2>5. /\ RecoveredState(e.state) \in ExecutorStates /\ RecoveredState(e.state) \in {"UNKNOWN", "EXPIRED"}
        /\ RecoveredState(e.state) = "EXPIRED" => dispatched[e.id] = 0
    BY <2>2, <2>3, <2>4 DEF Fresh, RecoveredState, ExecutorStates
  <2>6. Kept /\ Marked
    BY <1>0, <1>1, <2>1, <2>2, <2>4, <2>5, KeptCalls DEF Local
  <2>7. Without(e) \in Covers(Due, Known)
    BY <2>3, CoverFrames DEF Fresh
  <2>8. reconciliation_ok' = reconciliation_ok
    BY <2>2 DEF Transition, gateVars
  <2>9. QED
    BY <2>1, <2>2, <2>3, <2>6, <2>7, <2>8, GoesOn DEF Local, Answering, Urgent, Settlers
<1>4. CASE QueryFailed
  <2>1. Running("reconcile") /\ Internal
    BY <1>4 DEF QueryFailed
  <2>2. PICK e \in Top.todo : agenda' = <<[Without(e) EXCEPT !.clean = FALSE]>> \o Rest
    BY <1>4 DEF QueryFailed
  <2>3. Top \in Covers(Due, Known)
    BY <1>0, <2>1, CoverRest
  <2>4. /\ [Without(e) EXCEPT !.clean = FALSE] \in Covers(Due, Known)
        /\ [Without(e) EXCEPT !.clean = FALSE].op = "reconcile"
    BY <2>1, <2>3, CoverLeft
  <2> DEFINE left == [Without(e) EXCEPT !.clean = FALSE]
  <2>5. left \in Covers(Due, Known) /\ left.op = "reconcile" /\ agenda' = <<left>> \o Rest
    BY <2>2, <2>4
  <2> HIDE DEF left
  <2>6. QED
    BY <1>2, <2>1, <2>5, GoesOn DEF Internal, Local, Answering, Urgent, Settlers
<1>5. CASE CancelAll
  <2> DEFINE todo == {e \in Snapshot : e.id \in Symbols /\ e.state \in ACTIVE_STATES}
  <2>1. todo \in SUBSET PendingEntries
    <3>1. ASSUME NEW e \in Entries, e.id \in Symbols, e.state \in ACTIVE_STATES
          PROVE  e \in PendingEntries
      BY <3>1 DEF Entries, PendingEntries
    <3>2. QED
      BY <1>0, <3>1, SnapshotRows
  <2>2. /\ LoopFrame("cancel", todo, TRUE) \in Covers(Due, Known)
        /\ LoopFrame("cancel", todo, TRUE).op = "cancel"
    <3>1. /\ LoopFrame("cancel", todo, TRUE) \in Frames
          /\ LoopFrame("cancel", todo, TRUE).op = "cancel"
      BY <2>1, LoopFrames DEF Loops, LoopEntries
    <3>2. QED
      BY <3>1, CoverFrames
  <2>3. agenda' = <<LoopFrame("cancel", todo, TRUE)>> \o Rest
    BY <1>5 DEF CancelAll, Loop, LoopFrame
  <2>4. Running("cancel_all") /\ Internal
    BY <1>5 DEF CancelAll
  <2> DEFINE loop == LoopFrame("cancel", todo, TRUE)
  <2>5. loop \in Covers(Due, Known) /\ loop.op = "cancel" /\ agenda' = <<loop>> \o Rest
    BY <2>2, <2>3
  <2> HIDE DEF loop
  <2>6. /\ Kept /\ Marked /\ reconciliation_ok' = reconciliation_ok /\ started' = started
        /\ Running("cancel_all")
    BY <1>2, <2>4 DEF Internal, Local
  <2>7. loop.op \notin Urgent /\ loop.op \notin Settlers
    BY <2>5 DEF Urgent, Settlers
  <2>8. "cancel_all" \notin Answering \cup {"pause", "unreconciled"} /\ "cancel_all" # "reconcile"
    BY DEF Answering
  <2>9. QED
    BY <2>5, <2>6, <2>7, <2>8, GoesOn
<1>6. CASE CancelUnsent
  <2>1. Running("cancel") /\ Local
    BY <1>6 DEF CancelUnsent
  <2>2. PICK e \in Top.todo : /\ e.state \in {"CREATED", "APPROVED"} /\ Transition(e.id, "EXPIRED")
                              /\ agenda' = <<Without(e)>> \o Rest
    BY <1>6 DEF CancelUnsent
  <2>3. /\ Top \in Fresh(dispatched) /\ Without(e) \in Fresh(dispatched)
        /\ Without(e).op = "cancel"
    BY <2>1, FreshLeft DEF Loops
  <2>4. e.id \in IntentIds /\ Top.op = "cancel"
    BY <2>1, <2>2, TopCall DEF Typed, PendingEntries, IntentIds
  <2>5. "EXPIRED" \in ExecutorStates /\ dispatched[e.id] = 0
    BY <2>2, <2>3, <2>4 DEF Fresh, Unsent, ExecutorStates
  <2>6. Kept /\ Marked /\ reconciliation_ok' = reconciliation_ok
    BY <1>0, <1>1, <2>1, <2>2, <2>4, <2>5, KeptCalls DEF Local, Transition, gateVars
  <2>7. Without(e) \in Covers(Due, Known)
    BY <2>3, CoverFrames DEF Fresh
  <2>8. QED
    BY <2>1, <2>2, <2>3, <2>6, <2>7, GoesOn DEF Local, Answering, Urgent, Settlers
<1>7. CASE FlattenAll
  <2> DEFINE todo == {[id |-> p, state |-> Nil] : p \in OpenPositions}
  <2>1. todo \in SUBSET HeldEntries
    BY DEF HeldEntries, OpenPositions
  <2>2. /\ LoopFrame("flatten", todo, TRUE) \in Covers(Due, Known)
        /\ LoopFrame("flatten", todo, TRUE).op = "flatten"
    <3>1. /\ LoopFrame("flatten", todo, TRUE) \in Frames
          /\ LoopFrame("flatten", todo, TRUE).op = "flatten"
      BY <2>1, LoopFrames DEF Loops, LoopEntries
    <3>2. QED
      BY <3>1, CoverFrames
  <2>3. agenda' = <<LoopFrame("flatten", todo, TRUE)>> \o Rest
    BY <1>7 DEF FlattenAll, Loop, LoopFrame
  <2>4. Running("flatten_all") /\ Internal
    BY <1>7 DEF FlattenAll
  <2> DEFINE loop == LoopFrame("flatten", todo, TRUE)
  <2>5. loop \in Covers(Due, Known) /\ loop.op = "flatten" /\ agenda' = <<loop>> \o Rest
    BY <2>2, <2>3
  <2> HIDE DEF loop
  <2>6. /\ Kept /\ Marked /\ reconciliation_ok' = reconciliation_ok /\ started' = started
        /\ Running("flatten_all")
    BY <1>2, <2>4 DEF Internal, Local
  <2>7. loop.op \notin Urgent /\ loop.op \notin Settlers
    BY <2>5 DEF Urgent, Settlers
  <2>8. "flatten_all" \notin Answering \cup {"pause", "unreconciled"} /\ "flatten_all" # "reconcile"
    BY DEF Answering
  <2>9. QED
    BY <2>5, <2>6, <2>7, <2>8, GoesOn
<1>8. CASE FlattenNext
  <2>1. Running("flatten") /\ Internal
    BY <1>8 DEF FlattenNext
  <2>2. PICK e \in Top.todo : agenda' = <<CallOn("close", e.id), Without(e)>> \o Rest
    BY <1>8 DEF FlattenNext
  <2>3. e.id \in PositionIds
    BY <2>1, <2>2, TopCall DEF Typed, HeldEntries
  <2>4. CallOn("close", e.id) \in CoverLow(Due, Known) /\ CallOn("close", e.id).op = "close"
    BY <2>3, CoverPlain
  <2>5. Without(e) \in CoverLow(Due, Known) /\ Without(e).op = "flatten"
    <3>1. Without(e) \in FreshLow(dispatched) /\ Without(e).op = "flatten"
      BY <2>1, FreshLeft DEF Loops
    <3>2. QED
      BY <3>1, CoverFrames DEF FreshLow, Low
  <2>6. /\ Orderly(agenda', Due, Known)
        /\ agenda' = Above(CallOn("close", e.id), Above(Without(e), Rest))
    BY <1>0, <2>1, <2>2, <2>4, <2>5, OrderlyRest DEF Settlers
  <2>7. Reconciling(agenda) => Reconciling(agenda')
    <3>1. Rest \in Seq(Low) /\ agenda = Above(Top, Rest) /\ Top.op = "flatten"
      BY <1>0, <2>1, Topmost DEF Running
    <3>2. Above(Without(e), Rest) \in Seq(Low)
      BY <2>5, <3>1, AboveProperties DEF CoverLow
    <3>3. Reconciling(agenda) => Reconciling(Rest)
      BY <3>1, ReconcilingAbove
    <3>4. Reconciling(Rest) => Reconciling(Above(Without(e), Rest))
      BY <3>1, ReconcilingAbove
    <3>5. QED
      BY <2>6, <3>2, <3>3, <3>4, ReconcilingAbove
  <2>8. QED
    BY <1>2, <2>1, <2>6, <2>7, QuietAgreed DEF Internal, Local, Answering
<1>9. QED
  BY <1>3, <1>4, <1>4, <1>5, <1>6, <1>7, <1>8

(* reconcile() begins: every row that may differ from the broker's order   *)
(* is ahead of it, and what the broker did before does not excuse it.      *)
LEMMA AgreedReconcile ==
  ASSUME EInv, AgreeInv, ReconcileAll
  PROVE  AgreeInv'
<1> DEFINE todo == {e \in Snapshot : e.state \notin {"CREATED", "APPROVED", "REJECTED"}}
           loop == LoopFrame("reconcile", todo, TRUE)
<1>0. agenda \in Stacks /\ agenda \in Seq(Covers(Due, Known)) /\ Once(agenda) /\ Books /\ IInv
  BY DEF EInv, AgreeInv
<1>1. /\ Running("reconcile_all") /\ agenda' = <<loop>> \o Rest
      /\ UNCHANGED intents /\ UNCHANGED orders
  BY DEF ReconcileAll, Loop, LoopFrame, storeVars, orderVars
<1>2. Rest \in Seq(CoverLow(Due, Known)) /\ Once(Rest) /\ ~Reconciling(Rest)
  BY <1>0, <1>1, CoverRest DEF Settlers
<1>3. Rest \in Seq(Low)
  BY <1>2, SeqMonotonic DEF CoverLow
<1>4. loop \in Frames /\ loop.op = "reconcile" /\ loop.todo = todo
  <2>1. ASSUME NEW rows \in SUBSET Entries
        PROVE  /\ LoopFrame("reconcile", rows, TRUE) \in Frames
               /\ LoopFrame("reconcile", rows, TRUE).op = "reconcile"
               /\ LoopFrame("reconcile", rows, TRUE).todo = rows
    <3>1. "reconcile" \in Loops /\ rows \in SUBSET LoopEntries("reconcile") /\ TRUE \in BOOLEAN
      BY DEF Loops, LoopEntries
    <3>2. QED
      BY <3>1, LoopFrames
  <2>2. todo \in SUBSET Entries
    BY <1>0, SnapshotRows
  <2> HIDE DEF todo
  <2>3. QED
    BY <2>1, <2>2
<1>5. ASSUME NEW i \in IntentIds, ~Agreed(i)
      PROVE  Row(i) /\ intents[i].state \notin {"CREATED", "APPROVED", "REJECTED"}
  <2>1. intents[i].state \notin Unsent
    <3>1. ASSUME intents[i].state \in Unsent PROVE FALSE
      BY <1>0, <1>5, <3>1, NeverAccepted DEF Agreed
    <3>2. QED
      BY <3>1
  <2>2. intents[i].state # "REJECTED"
    <3>1. ASSUME intents[i].state = "REJECTED" PROVE FALSE
      <4>1. orders[i].state \in {Nil, "REJECTED"} /\ orders[i].filled_units = 0
        BY <1>0, <3>1 DEF Books, BooksOf, EInv, BrokerOK, BrokerOrders, Accepted
      <4>2. intents[i].filled_units = 0
        BY <1>0, <4>1 DEF Books, BooksOf, IInv, TypeOK, OrderIntent, Units
      <4>3. QED
        BY <1>5, <4>1, <4>2, NilDistinct DEF Agreed, Live, OrderState, ACTIVE_STATES
    <3>2. QED
      BY <3>1
  <2>3. QED
    BY <2>1, <2>2 DEF Unsent, Row
<1>6. \A i \in Due' : \E e \in todo : e.id = i
  <2>1. ASSUME NEW i \in Due' PROVE \E e \in todo : e.id = i
    <3>1. i \in IntentIds /\ ~Agreed(i)
      BY <1>1, <2>1 DEF Due, Off, Agreed, Live, Active
    <3>2. [id |-> i, state |-> intents[i].state] \in todo
      BY <1>5, <3>1 DEF Snapshot
    <3>3. QED
      BY <3>2
  <2>2. QED
    BY <2>1
<1>7. \A e \in todo : e.state \in TERMINAL_STATES => e.id \in Known'
  <2>1. ASSUME NEW e \in todo, e.state \in TERMINAL_STATES PROVE e.id \in Known
    <3>1. PICK i \in IntentIds : Row(i) /\ e = [id |-> i, state |-> intents[i].state]
      BY DEF Snapshot
    <3>2. e.id = i /\ intents[i].state \in TERMINAL_STATES
      BY <2>1, <3>1
    <3>3. BooksOf(i)
      BY <1>0 DEF Books
    <3>4. QED
      BY <3>1, <3>2, <3>3 DEF Known, BooksOf
  <2>2. Known' = Known
    BY <1>1 DEF Known, Accepted, Row
  <2>3. QED
    BY <2>1, <2>2
<1>8. loop \in Covers(Due', Known')
  BY <1>4, <1>6, <1>7 DEF Covers, Covering
<1> HIDE DEF loop
<1>9. Orderly(agenda', Due', Known') /\ Reconciling(agenda')
  <2>1. Rest \in Seq(CoverLow(Due', Known')) /\ agenda' = Above(loop, Rest)
    BY <1>1, <1>2, <1>3, CoverNone DEF Above
  <2>2. Orderly(agenda', Due', Known')
    BY <1>2, <1>4, <1>8, <2>1, OrderlyAbove DEF Urgent
  <2>3. Reconciling(agenda')
    BY <1>3, <1>4, <2>1, ReconcilingAbove
  <2>4. QED
    BY <2>2, <2>3
<1>10. Books'
  BY <1>0, <1>1 DEF Books, BooksOf, Accepted
<1>11. QED
  BY <1>9, <1>10 DEF AgreeInv, Orderly, Ahead, AheadCall, Urgent, Outside

-----------------------------------------------------------------------------
(* A call to the broker inside its try block.                              *)
LEMMA AsksInside ==
  ASSUME NEW due, NEW known, NEW f \in Covers(due, known), f.op \in {"send", "ask_cancel"},
         NEW g \in CoverLow(due, known), g.op \in Guards, g.id = f.id,
         intents'[f.id].state \in {"SUBMITTING", "CANCEL_PENDING"},
         NEW below \in Seq(CoverLow(due, known)), Once(below),
         agenda' = Above(f, Above(g, below))
  PROVE  /\ agenda' \in Seq(Covers(due, known)) /\ Once(agenda') /\ Ahead(agenda)'
         /\ Reconciling(below) => Reconciling(agenda')
<1>1. /\ f.op \notin Settlers /\ g.op \notin Settlers
  BY DEF Settlers, Guards
<1>2. g \in Covers(due, known) /\ g \in Low
  BY DEF CoverLow
<1> DEFINE lower == Above(g, below)
<1>3. /\ lower \in Seq(CoverLow(due, known)) /\ Once(lower) /\ lower # <<>> /\ Head(lower) = g
  BY <1>1, <1>2, OrderlyAbove, AboveProperties
<1>4. Reconciling(below) => Reconciling(lower)
  BY ReconcilingAbove
<1>5. agenda' = Above(f, lower)
  OBVIOUS
<1> HIDE DEF lower
<1>6. agenda' \in Seq(Covers(due, known)) /\ Once(agenda')
  BY <1>1, <1>3, <1>5, OrderlyAbove
<1>7. Head(agenda') = f /\ Tail(agenda') = lower
  BY <1>3, <1>5, AboveProperties
<1>8. Ahead(agenda)'
  BY <1>3, <1>7 DEF Ahead, AheadCall, Tried, Urgent
<1>9. Reconciling(lower) => Reconciling(agenda')
  BY <1>3, <1>5, ReconcilingAbove
<1>10. QED
  BY <1>4, <1>6, <1>8, <1>9

(* cancel_pending_entries marks the entry before it asks the broker: from   *)
(* then on the order is under way.                                         *)
LEMMA AgreedCancelSent ==
  ASSUME EInv, AgreeInv, ExposureInv, CancelSent
  PROVE  AgreeInv'
<1>0. agenda \in Stacks /\ agenda \in Seq(Covers(Due, Known)) /\ Once(agenda) /\ Books /\ IInv
  BY DEF EInv, AgreeInv
<1>1. Running("cancel") /\ Local /\ Aside
  BY DEF CancelSent, Local, brokerVars, Aside
<1>2. PICK e \in Top.todo :
          \/ /\ Transition(e.id, "CANCEL_PENDING")
             /\ agenda' = <<CallOn("ask_cancel", e.id), CallOn("cancelling", e.id),
                           Without(e)>> \o Rest
          \/ /\ UNCHANGED storeVars
             /\ agenda' = Raise(<<CallOn("cancelling", e.id), Without(e)>> \o Rest)
  BY DEF CancelSent
<1>3. e.id \in Symbols /\ e.id \in IntentIds /\ Top.op = "cancel" /\ agenda # <<>>
  BY <1>1, <1>2, TopCall DEF Typed, PendingEntries, IntentIds
<1>4. Rest \in Seq(CoverLow(Due, Known)) /\ Once(Rest)
  BY <1>0, <1>1, CoverRest
<1>5. Without(e) \in CoverLow(Due, Known) /\ Without(e).op = "cancel"
  <2>1. Without(e) \in FreshLow(dispatched) /\ Without(e).op = "cancel"
    BY <1>1, FreshLeft DEF Loops
  <2>2. QED
    BY <2>1, CoverFrames DEF FreshLow, Low
<1>6. /\ CallOn("cancelling", e.id) \in CoverLow(Due, Known)
      /\ CallOn("cancelling", e.id).op = "cancelling" /\ CallOn("cancelling", e.id).id = e.id
  BY <1>3, CoverPlain DEF IntentOps, TopOnly
<1>7. Rest \in Seq(Low) /\ agenda = Above(Top, Rest)
  BY <1>0, <1>1, Topmost DEF Running
<1> DEFINE lower == Above(Without(e), Rest)
<1>8. /\ lower \in Seq(CoverLow(Due, Known)) /\ Once(lower)
      /\ Reconciling(agenda) => Reconciling(lower)
  <2>1. Without(e) \in Covers(Due, Known) /\ Without(e) \in Low
    BY <1>5 DEF CoverLow
  <2>2. lower \in Seq(CoverLow(Due, Known)) /\ Once(lower)
    BY <1>4, <1>5, <2>1, OrderlyAbove DEF Settlers
  <2>3. Reconciling(agenda) => Reconciling(Rest)
    BY <1>3, <1>7, ReconcilingAbove
  <2>4. Reconciling(Rest) => Reconciling(lower)
    BY <1>4, ReconcilingAbove
  <2>5. QED
    BY <2>2, <2>3, <2>4
<1>9. CASE /\ UNCHANGED storeVars
           /\ agenda' = Raise(<<CallOn("cancelling", e.id), Without(e)>> \o Rest)
  <2>1. Orderly(agenda', Due, Known)
    BY <1>0, <1>1, <1>5, <1>6, <1>9, OrderlyRest DEF Settlers
  <2>2. Kept /\ Marked
    BY <1>0, <1>1, <1>9, KeptCalls DEF storeVars, orderVars
  <2>3. Reconciling(agenda) => Reconciling(agenda')
    <3>1. <<CallOn("cancelling", e.id), Without(e)>> \o Rest = Above(CallOn("cancelling", e.id), lower)
      BY <1>4, TwoAbove
    <3> HIDE DEF lower
    <3>2. lower \in Seq(Low)
      BY <1>8, SeqMonotonic DEF CoverLow
    <3>3. /\ Above(CallOn("cancelling", e.id), lower) \in Seq(Low)
          /\ Reconciling(lower) => Reconciling(Above(CallOn("cancelling", e.id), lower))
      BY <1>6, <3>2, AboveProperties, ReconcilingAbove DEF CoverLow
    <3>4. QED
      BY <1>8, <1>9, <3>1, <3>3, RaiseWorks
  <2>4. QED
    BY <1>1, <1>9, <2>1, <2>2, <2>3, QuietAgreed DEF Local, Answering, storeVars, gateVars
<1>10. CASE /\ Transition(e.id, "CANCEL_PENDING")
            /\ agenda' = <<CallOn("ask_cancel", e.id), CallOn("cancelling", e.id),
                          Without(e)>> \o Rest
  <2>1. agenda' = Above(CallOn("ask_cancel", e.id), Above(CallOn("cancelling", e.id), lower))
    BY <1>4, <1>10, ThreeAbove
  <2>2. /\ CallOn("ask_cancel", e.id) \in Covers(Due, Known)
        /\ CallOn("ask_cancel", e.id).op = "ask_cancel" /\ CallOn("ask_cancel", e.id).id = e.id
    <3>1. /\ CallOn("ask_cancel", e.id) \in Frames
          /\ CallOn("ask_cancel", e.id).op = "ask_cancel" /\ CallOn("ask_cancel", e.id).id = e.id
      BY <1>3, AskFrames
    <3>2. QED
      BY <3>1, CoverFrames
  <2>3. /\ Kept /\ intents'[e.id].state = "CANCEL_PENDING"
        /\ \A j \in IntentIds : j # e.id => intents'[j] = intents[j]
    <3>1. "CANCEL_PENDING" \in ExecutorStates
      BY DEF ExecutorStates
    <3>2. QED
      BY <1>0, <1>1, <1>3, <1>10, <3>1, KeptCalls
  <2> HIDE DEF lower
  <2>4. /\ agenda' \in Seq(Covers(Due, Known)) /\ Once(agenda') /\ Ahead(agenda)'
        /\ Reconciling(lower) => Reconciling(agenda')
    BY <1>6, <1>8, <2>1, <2>2, <2>3, AsksInside DEF Guards
  <2>5. Underway(agenda, e.id)'
    <3>1. agenda' # <<>> /\ Head(agenda') = CallOn("ask_cancel", e.id)
      BY <1>8, <2>1, AboveProperties DEF Above
    <3>2. QED
      BY <2>2, <2>3, <3>1 DEF Underway, Answering, Active, ACTIVE_STATES
  <2>6. Due' \subseteq Due
    <3>1. ASSUME NEW i \in Due' PROVE i \in Due
      <4>1. i \in Off /\ i \in IntentIds /\ i # e.id
        BY <2>3, <2>5, <3>1 DEF Due, Kept, Off
      <4>2. ~Underway(agenda, i)
        BY <1>3 DEF Underway, Answering, Top
      <4>3. QED
        BY <2>3, <3>1, <4>1, <4>2 DEF Due
    <3>2. QED
      BY <3>1
  <2>7. Outside'
    <3>1. started' = started /\ reconciliation_ok' = reconciliation_ok
      BY <1>1, <1>10 DEF Local, Transition, gateVars
    <3>2. Sheltered
      <4>1. ~Doubted(agenda)
        BY <1>3, NoDoubt
      <4>2. QED
        BY <1>1, <1>8, <2>4, <3>1, <4>1 DEF Sheltered, Running
    <3>3. QED
      BY <1>3, <2>3, <3>2, OutsideKept DEF Kept, Answering
  <2>8. QED
    BY <2>3, <2>4, <2>6, <2>7, CoveredMove
<1>11. QED
  BY <1>2, <1>9, <1>10

(* Submission, up to the call to the broker.                               *)
LEMMA AgreedCalls ==
  ASSUME EInv, AgreeInv, Prepare \/ Submit \/ SendRefused \/ CloseCreate \/ CloseRecheck
  PROVE  AgreeInv'
<1>0. agenda \in Stacks /\ agenda \in Seq(Covers(Due, Known)) /\ Once(agenda) /\ Books /\ IInv
  BY DEF EInv, AgreeInv
<1>1. UNCHANGED brokerVars => Aside
  BY DEF brokerVars, Aside
<1>2. UNCHANGED storeVars /\ UNCHANGED brokerVars => Kept /\ Marked /\ reconciliation_ok' = reconciliation_ok
  BY <1>0, <1>1, KeptCalls DEF storeVars, orderVars, gateVars
<1>3. ASSUME NEW op, Running(op), op \notin {"pause", "unreconciled"}
      PROVE  /\ Rest \in Seq(CoverLow(Due, Known)) /\ Once(Rest) /\ Rest \in Seq(Low)
             /\ Top.op = op /\ agenda # <<>> /\ Typed(Top)
             /\ op # "reconcile" /\ Reconciling(agenda) => Reconciling(Rest)
             /\ Orderly(Then(<<>>), Due, Known) /\ Orderly(Raise(Rest), Due, Known)
  <2>1. Rest \in Seq(CoverLow(Due, Known)) /\ Once(Rest)
    BY <1>0, <1>3, CoverRest
  <2>2. Top.op = op /\ agenda # <<>> /\ Typed(Top) /\ Rest \in Seq(Low)
    BY <1>3, TopCall
  <2>3. agenda = Above(Top, Rest)
    BY <1>0, <1>3, Topmost DEF Running
  <2>4. op # "reconcile" /\ Reconciling(agenda) => Reconciling(Rest)
    BY <2>2, <2>3, ReconcilingAbove
  <2>5. Orderly(Then(<<>>), Due, Known) /\ Orderly(Raise(Rest), Due, Known)
    BY <1>0, <1>3, OrderlyRest
  <2>6. QED
    BY <2>1, <2>2, <2>4, <2>5
<1>4. ASSUME NEW i \in IntentIds, NEW op \in {"submit", "reject"},
             NEW below \in Seq(CoverLow(Due, Known)), Once(below), agenda' = Above(CallOn(op, i), below)
      PROVE  Orderly(agenda', Due, Known) /\ (Reconciling(below) => Reconciling(agenda'))
  <2>1. CallOn(op, i) \in Covers(Due, Known) /\ CallOn(op, i).op = op
    BY <1>4, CoverPlain DEF IntentOps
  <2>2. QED
    BY <1>4, <2>1, OrderlyAbove, ReconcilingAbove DEF Urgent, Settlers
<1>5. CASE Prepare
  <2>1. /\ Running("prepare") /\ Internal
        /\ agenda' \in {Then(<<CallOn("submit", Top.id)>>), Then(<<CallOn("reject", Top.id)>>),
                        Raise(Rest)}
    BY <1>5 DEF Prepare
  <2>2. Top.id \in IntentIds /\ Rest \in Seq(CoverLow(Due, Known)) /\ Once(Rest)
    BY <1>3, <2>1 DEF Typed, IntentOps
  <2>3. Orderly(agenda', Due, Known) /\ (Reconciling(Rest) => Reconciling(agenda'))
    <3>1. CASE agenda' = Raise(Rest)
      BY <1>3, <2>1, <3>1, RaiseWorks
    <3>2. ASSUME NEW op \in {"submit", "reject"}, agenda' = Then(<<CallOn(op, Top.id)>>)
          PROVE  Orderly(agenda', Due, Known) /\ (Reconciling(Rest) => Reconciling(agenda'))
      <4>1. agenda' = Above(CallOn(op, Top.id), Rest)
        BY <3>2, Calls1
      <4>2. QED
        BY <1>4, <2>2, <4>1
    <3>3. QED
      BY <2>1, <3>1, <3>2
  <2>4. Reconciling(agenda) => Reconciling(agenda')
    BY <1>3, <2>1, <2>3
  <2>5. QED
    BY <1>2, <2>1, <2>3, <2>4, QuietAgreed DEF Internal, Local, Answering
<1>6. CASE Submit
  <2>1. /\ Running("submit") /\ Local /\ Transition(Top.id, "SUBMITTING")
        /\ agenda' = <<CallOn("send", Top.id), CallOn("sending", Top.id)>> \o Rest
    BY <1>6 DEF Submit
  <2>2. Top.id \in IntentIds /\ Top.op = "submit" /\ "SUBMITTING" \in ExecutorStates
    BY <1>3, <2>1 DEF Typed, IntentOps, ExecutorStates
  <2>3. intents[Top.id].state = "APPROVED"
    BY <2>1 DEF Running, Top, EInv, Ready, ReadyCall
  <2>4. Kept /\ Marked /\ intents'[Top.id].state = "SUBMITTING"
    BY <1>0, <1>1, <2>1, <2>2, <2>3, KeptCalls DEF Local
  <2>5. /\ CallOn("send", Top.id) \in Covers(Due, Known) /\ CallOn("send", Top.id).op = "send"
        /\ CallOn("send", Top.id).id = Top.id
        /\ CallOn("sending", Top.id) \in CoverLow(Due, Known)
        /\ CallOn("sending", Top.id).op = "sending" /\ CallOn("sending", Top.id).id = Top.id
    BY <2>2, CoverPlain DEF IntentOps, TopOnly
  <2>6. agenda' = Above(CallOn("send", Top.id), Above(CallOn("sending", Top.id), Rest))
    BY <1>3, <2>1, TwoAbove
  <2>7. Rest \in Seq(CoverLow(Due, Known)) /\ Once(Rest)
    BY <1>3, <2>1
  <2>8. /\ agenda' \in Seq(Covers(Due, Known)) /\ Once(agenda') /\ Ahead(agenda)'
        /\ Reconciling(Rest) => Reconciling(agenda')
    BY <2>4, <2>5, <2>6, <2>7, AsksInside DEF Guards
  <2>9. Sheltered
    <3>1. ~Doubted(agenda)
      BY <2>2, NoDoubt
    <3>2. started' = started /\ reconciliation_ok' = reconciliation_ok /\ started
      BY <2>1 DEF Local, Transition, gateVars, Running
    <3>3. Reconciling(agenda) => Reconciling(agenda')
      BY <1>3, <2>1, <2>8
    <3>4. QED
      BY <3>1, <3>2, <3>3 DEF Sheltered
  <2>10. QED
    BY <2>2, <2>4, <2>8, <2>9, KeptMove DEF Answering
<1>7. CASE SendRefused
  <2>1. /\ Running("send") /\ Internal
        /\ agenda' = <<CallOn("reject", Top.id)>> \o Tail(Rest)
    BY <1>7 DEF SendRefused
  <2>2. /\ Top.id \in IntentIds /\ Rest # <<>> /\ Head(Rest).op = "sending"
    BY <1>3, <2>1 DEF EInv, Ready, ReadyCall, Top, Rest, Typed, IntentOps
  <2>3. Tail(Rest) \in Seq(CoverLow(Due, Known)) /\ Once(Tail(Rest))
    BY <1>3, <2>1, <2>2, OnceBelow
  <2>4. agenda' = Above(CallOn("reject", Top.id), Tail(Rest))
    BY <2>1 DEF Above
  <2>5. Orderly(agenda', Due, Known) /\ (Reconciling(Tail(Rest)) => Reconciling(agenda'))
    BY <1>4, <2>2, <2>3, <2>4
  <2>6. Reconciling(Rest) => Reconciling(Tail(Rest))
    <3>1. Rest = Above(Head(Rest), Tail(Rest)) /\ Tail(Rest) \in Seq(Low)
      BY <1>3, <2>1, <2>2, TopAndRest
    <3>2. QED
      BY <2>2, <3>1, ReconcilingAbove
  <2>7. Reconciling(agenda) => Reconciling(agenda')
    BY <1>3, <2>1, <2>5, <2>6
  <2>8. QED
    BY <1>2, <2>1, <2>5, <2>7, QuietAgreed DEF Internal, Local, Answering
<1>8. CASE CloseCreate \/ CloseRecheck
  <2>1. PICK op \in {"close", "close_recheck"} : Running(op)
    BY <1>8 DEF CloseCreate, CloseRecheck
  <2>2. \/ CreateCloseOf(Top.id)
        \/ agenda' = Then(<<>>) /\ Internal
    BY <1>8 DEF CloseCreate, CloseRecheck
  <2>3. Top.id \in PositionIds /\ Top.id \in IntentIds
    BY <1>3, <2>1 DEF Typed, IntentIds
  <2>4. /\ Rest \in Seq(CoverLow(Due, Known)) /\ Once(Rest) /\ Rest \in Seq(Low)
        /\ Reconciling(agenda) => Reconciling(Rest)
    BY <1>3, <2>1
  <2>5. CASE CreateCloseOf(Top.id)
    <3>1. /\ CreateClose(Top.id, positions[Top.id].units) /\ Local
          /\ agenda' = Then(<<CallOn("submit", Top.id)>>)
      BY <2>5 DEF CreateCloseOf
    <3>2. positions[Top.id].units \in Units
      BY <1>0, <2>3 DEF IInv, TypeOK, Position
    <3>3. Kept /\ Marked
      BY <1>0, <1>1, <2>3, <3>1, <3>2, KeptCalls DEF Local
    <3>4. agenda' = Above(CallOn("submit", Top.id), Rest)
      BY <3>1, Calls1
    <3>5. Orderly(agenda', Due, Known) /\ (Reconciling(Rest) => Reconciling(agenda'))
      BY <1>4, <2>3, <2>4, <3>4
    <3>6. reconciliation_ok' = reconciliation_ok /\ started' = started
      BY <3>1 DEF CreateClose, gateVars, Local
    <3>7. QED
      BY <2>1, <2>4, <3>3, <3>5, <3>6, QuietAgreed DEF Answering
  <2>6. CASE agenda' = Then(<<>>) /\ Internal
    <3>1. Orderly(agenda', Due, Known)
      BY <1>3, <2>1, <2>6
    <3>2. Reconciling(agenda) => Reconciling(agenda')
      BY <2>4, <2>6, Returns
    <3>3. QED
      BY <1>2, <2>1, <2>6, <3>1, <3>2, QuietAgreed DEF Internal, Local, Answering
  <2>7. QED
    BY <2>2, <2>5, <2>6
<1>9. QED
  BY <1>5, <1>6, <1>7, <1>8

-----------------------------------------------------------------------------
(* An exception below a try block, or in the loop of reconcile(), goes no   *)
(* further.                                                                *)
LEMMA RaiseHandled ==
  ASSUME NEW s \in Seq(Low), s # <<>>
  PROVE  /\ Head(s).op \in Guards => Raise(s) = Interrupted(Head(s).id, Head(s).op, Tail(s))
         /\ Head(s).op = "reconcile" => Raise(s) = Above([Head(s) EXCEPT !.clean = FALSE], Tail(s))
<1> DEFINE found == {k \in 1..Len(s) : s[k].op \in Handlers}
           least == CHOOSE k \in found : \A l \in found : k <= l
<1>1. Len(s) \in Nat /\ Len(s) # 0 /\ s[1] = Head(s)
  BY LenProperties, EmptySeq
<1>2. ASSUME Head(s).op \in Handlers PROVE least = 1 /\ found # {}
  <2>1. 1 \in found
    BY <1>1, <1>2
  <2>2. \A l \in found : 1 <= l /\ l \in Nat
    BY <1>1
  <2>3. \A k \in found : (\A l \in found : k <= l) => k = 1
    BY <2>1, <2>2
  <2> HIDE DEF found
  <2>4. QED
    BY <2>1, <2>2, <2>3
<1>3. SubSeq(s, 1 + 1, Len(s)) = Tail(s)
  BY <1>1
<1>4. ASSUME Head(s).op \in Handlers
      PROVE  Raise(s) = IF Head(s).op = "reconcile"
                        THEN <<[Head(s) EXCEPT !.clean = FALSE]>> \o Tail(s)
                        ELSE <<CallOn("to_unknown", Head(s).id)>> \o AmbiguityCalls(Head(s).op) \o Tail(s)
  <2>1. Raise(s) = IF s[least].op = "reconcile"
                   THEN <<[s[least] EXCEPT !.clean = FALSE]>> \o SubSeq(s, least + 1, Len(s))
                   ELSE <<CallOn("to_unknown", s[least].id)>> \o AmbiguityCalls(s[least].op)
                          \o SubSeq(s, least + 1, Len(s))
    BY <1>2, <1>4 DEF Raise
  <2>2. least = 1
    BY <1>2, <1>4
  <2> HIDE DEF least
  <2>3. QED
    BY <1>1, <1>3, <2>1, <2>2
<1>5. Head(s) \in Low /\ Tail(s) \in Seq(Low)
  BY TopAndRest
<1>6. ASSUME Head(s).op \in Guards
      PROVE  Raise(s) = Interrupted(Head(s).id, Head(s).op, Tail(s))
  <2>1. Head(s).op \in Handlers /\ Head(s).op # "reconcile"
    BY <1>6 DEF Handlers, Guards
  <2>2. Raise(s) = <<CallOn("to_unknown", Head(s).id)>> \o AmbiguityCalls(Head(s).op) \o Tail(s)
    BY <1>4, <2>1
  <2>3. Head(s).id \in IntentIds
    BY <1>5, <1>6, FrameFields DEF Typed, IntentOps, Guards, Low
  <2>4. /\ <<CallOn("to_unknown", Head(s).id)>> \in Seq(Frames)
        /\ AmbiguityCalls(Head(s).op) \in Seq(Frames) /\ Tail(s) \in Seq(Frames)
    <3>1. CallOn("to_unknown", Head(s).id) \in Frames
      BY <2>3, IntentFrames DEF IntentOps
    <3>2. Call("pause") \in Frames /\ Call("unreconciled") \in Frames
      BY CallFrames DEF PlainOps, Low
    <3>3. Tail(s) \in Seq(Frames)
      BY <1>5, SeqMonotonic DEF Low
    <3>4. QED
      BY <3>1, <3>2, <3>3 DEF AmbiguityCalls
  <2>5. QED
    BY <2>2, <2>4, ConcatAssociative DEF Interrupted, Above
<1>7. ASSUME Head(s).op = "reconcile"
      PROVE  Raise(s) = Above([Head(s) EXCEPT !.clean = FALSE], Tail(s))
  BY <1>4, <1>7 DEF Handlers, Above
<1>8. QED
  BY <1>6, <1>7

(* A step to the loop of the only reconcile().                             *)
LEMMA AgreedInside ==
  ASSUME Books', NEW f \in Covers(Due', Known'), f.op = "reconcile",
         NEW below \in Seq(Low), ~Reconciling(below), agenda' = Above(f, below)
  PROVE  AgreeInv'
<1>1. below \in Seq(CoverLow(Due', Known')) /\ Once(below)
  BY CoverNone, OnceNone
<1>2. Orderly(agenda', Due', Known')
  BY <1>1, OrderlyAbove DEF Urgent
<1>3. Reconciling(agenda')
  BY <1>1, ReconcilingAbove
<1>4. QED
  BY <1>2, <1>3 DEF AgreeInv, Orderly, Ahead, AheadCall, Urgent, Outside

(* A call to the broker, or the booking of its answer, inside a try block:  *)
(* the order may differ from the books now, but it is under way.           *)
LEMMA AgreedAnswer ==
  ASSUME EInv, EInv', AgreeInv, NEW op \in {"send", "ask_cancel", "apply"}, Running(op), Tried(Top, Rest),
         NEW i \in IntentIds, Top.id = i, Books', UNCHANGED <<intents, started, reconciliation_ok>>,
         Known \subseteq Known', Off' \subseteq Off \cup {i},
         NEW u, agenda' = Raise(Rest)
                \/ /\ agenda' = <<Apply(u)>> \o Rest /\ u.intent_id = i
                   /\ Told(u, i)' /\ Current(u, i)'
  PROVE  AgreeInv'
<1>0. agenda \in Stacks /\ agenda \in Seq(Covers(Due, Known)) /\ Once(agenda)
  BY DEF EInv, AgreeInv
<1>1. /\ Rest \in Seq(CoverLow(Due, Known)) /\ Once(Rest) /\ Rest \in Seq(Low)
      /\ agenda = Above(Top, Rest) /\ agenda # <<>> /\ Top.op = op
  BY <1>0, CoverRest, Topmost DEF Running
<1>2. Rest # <<>> /\ Head(Rest).op \in Guards /\ Head(Rest).id = i /\ Active(i)
  BY DEF Tried, Active, ACTIVE_STATES
<1>3. Reconciling(agenda) => Reconciling(agenda')
  <2>1. Reconciling(agenda) => Reconciling(Rest)
    BY <1>1, ReconcilingAbove
  <2>2. Reconciling(Rest) => Reconciling(Raise(Rest))
    BY <1>1, RaiseWorks
  <2>3. Reconciling(Rest) => Reconciling(<<Apply(u)>> \o Rest)
    BY <1>1, ReconcilingAbove DEF Above
  <2>4. QED
    BY <2>1, <2>2, <2>3
<1>4. ASSUME agenda' = Raise(Rest)
      PROVE  /\ Underway(agenda, i)'
             /\ agenda' \in Seq(Covers(Due, Known)) /\ Once(agenda') /\ Ahead(agenda)'
  <2>1. agenda' = Interrupted(i, Head(Rest).op, Tail(Rest))
    BY <1>1, <1>2, <1>4, RaiseHandled
  <2>2. CallOn("to_unknown", i).op = "to_unknown" /\ CallOn("to_unknown", i).id = i
    BY IntentFrames DEF IntentOps
  <2>3. Tail(Rest) \in Seq(Low)
    BY <1>1, <1>2, TopAndRest
  <2>4. AmbiguityCalls(Head(Rest).op) \o Tail(Rest) \in Seq(Low)
    <3>1. Call("pause") \in Low /\ Call("unreconciled") \in Low /\ Low \in SUBSET Low
      BY CallFrames DEF PlainOps
    <3>2. QED
      BY <2>3, <3>1, Ambiguity
  <2>5. agenda' # <<>> /\ Head(agenda') = CallOn("to_unknown", i)
    BY <2>1, <2>4, AboveProperties DEF Interrupted
  <2>6. Underway(agenda, i)'
    BY <1>2, <2>2, <2>5 DEF Underway, Answering, Active
  <2>7. agenda' \in Seq(Covers(Due, Known)) /\ Once(agenda') /\ Ahead(agenda)'
    <3>1. Orderly(agenda', Due, Known)
      BY <1>1, <1>4, OrderlyRaise
    <3>2. QED
      BY <3>1, OrderlyAhead
  <2>8. QED
    BY <2>6, <2>7
<1>5. ASSUME agenda' = <<Apply(u)>> \o Rest, u.intent_id = i,
             Told(u, i)', Current(u, i)'
      PROVE  /\ Underway(agenda, i)'
             /\ agenda' \in Seq(Covers(Due, Known)) /\ Once(agenda') /\ Ahead(agenda)'
  <2>1. /\ Apply(u) \in Frames /\ Apply(u).op = "apply" /\ Apply(u).id = i
        /\ Apply(u).report = u
    <3>1. agenda' = Above(Apply(u), Rest) /\ agenda' \in Stacks
      BY <1>5 DEF Above, EInv
    <3>2. u \in Reports
      BY <1>1, <3>1, ApplyTop
    <3>3. QED
      BY <1>5, <3>2, ApplyFrames
  <2>2. Apply(u) \in Covers(Due, Known)
    BY <2>1, CoverFrames
  <2>3. agenda' = Above(Apply(u), Rest)
    BY <1>5 DEF Above
  <2>4. agenda' # <<>> /\ Head(agenda') = Apply(u) /\ Tail(agenda') = Rest
    BY <1>1, <2>3, AboveProperties
  <2>5. Underway(agenda, i)'
    BY <1>2, <2>1, <2>4 DEF Underway, Answering, Active
  <2>6. agenda' \in Seq(Covers(Due, Known)) /\ Once(agenda')
    BY <1>1, <2>1, <2>2, <2>3, OrderlyAbove DEF Settlers
  <2>7. Ahead(agenda)'
    <3>1. intents'[i].state \in {"SUBMITTING", "CANCEL_PENDING"}
      BY DEF Tried
    <3>2. QED
      BY <1>2, <1>5, <2>1, <2>4, <3>1 DEF Ahead, AheadCall, Tried, Urgent
  <2>8. QED
    BY <2>5, <2>6, <2>7
<1>6. /\ Underway(agenda, i)'
      /\ agenda' \in Seq(Covers(Due, Known)) /\ Once(agenda') /\ Ahead(agenda)'
  BY <1>4, <1>5
<1>7. Due' \subseteq Due
  <2>1. ASSUME NEW j \in Due' PROVE j \in Due
    <3>1. j \in Off' /\ intents'[j].state # "UNKNOWN" /\ j # i
      BY <1>6, <2>1 DEF Due
    <3>2. j \in Off /\ ~Underway(agenda, j)
      BY <3>1 DEF Underway, Top
    <3>3. QED
      BY <3>1, <3>2 DEF Due
  <2>2. QED
    BY <2>1
<1>8. Outside'
  <2>1. ASSUME started', reconciliation_ok', ~Reconciling(agenda'), NEW j \in Off'
        PROVE  Underway(agenda, j)'
    <3>1. ~Doubted(agenda)
      BY <1>1, NoDoubt
    <3>2. \A l \in Off : Underway(agenda, l)
      BY <1>3, <2>1, <3>1 DEF AgreeInv, Outside
    <3>3. j = i
      BY <2>1, <3>2 DEF Underway, Top
    <3>4. QED
      BY <1>6, <3>3
  <2>2. QED
    BY <2>1 DEF Outside
<1>9. agenda' \in Seq(Covers(Due', Known'))
  BY <1>6, <1>7, CoverStackMore
<1>10. QED
  BY <1>6, <1>8, <1>9 DEF AgreeInv

(* A change of one order that is under way leaves the rest of the books.    *)
LEMMA BooksUnderway ==
  ASSUME AgreeInv, UNCHANGED <<intents, moved, unseen>>, NEW i \in IntentIds,
         intents[i].state \in {"SUBMITTING", "CANCEL_PENDING"},
         \A j \in IntentIds : j # i => orders'[j] = orders[j],
         intents[i].filled_units <= orders'[i].filled_units,
         orders'[i].state = "REJECTED" => orders'[i].filled_units = 0
  PROVE  Books' /\ Known \subseteq Known' /\ Off' \subseteq Off \cup {i}
<1>0. /\ intents[i].state # "REJECTED" /\ intents[i].state \notin TERMINAL_STATES
  BY DEF TERMINAL_STATES
<1>1. ASSUME NEW j \in IntentIds PROVE BooksOf(j)'
  <2>1. BooksOf(j)
    BY DEF AgreeInv, Books
  <2>2. QED
    BY <1>0, <2>1 DEF BooksOf, Accepted
<1>2. Known \subseteq Known'
  BY <1>0 DEF Known, Row, Accepted
<1>3. Off' \subseteq Off \cup {i}
  BY DEF Off, Agreed, Live, Active
<1>4. QED
  BY <1>1, <1>2, <1>3 DEF Books

(* The calls to the broker, and what becomes of their answers.             *)
LEMMA AgreedBroker ==
  ASSUME EInv, EInv', AgreeInv,
         SendAccepted \/ SendFailed \/ AskCancel \/ AskCancelFailed \/ ApplyRefused
  PROVE  AgreeInv'
<1> USE NilDistinct
<1>0. /\ agenda \in Stacks /\ agenda \in Seq(Covers(Due, Known)) /\ Once(agenda) /\ Books /\ IInv
      /\ BrokerTyped
  BY DEF EInv, AgreeInv, BrokerOK
<1>1. PICK op \in {"send", "ask_cancel", "apply"} : Running(op)
  BY DEF SendAccepted, SendFailed, AskCancel, AskCancelFailed, ApplyRefused
<1>2. /\ UNCHANGED <<storeVars, started, moved, unseen>>
      /\ UNCHANGED <<intents, started, reconciliation_ok, moved, unseen>>
  BY DEF SendAccepted, SendFailed, AskCancel, AskCancelFailed, ApplyRefused, Internal, Local,
         storeVars, orderVars, gateVars, brokerVars
<1>3. /\ Top.op = op /\ agenda # <<>> /\ Rest \in Seq(Low) /\ Typed(Top) /\ Top \in Frames
  BY <1>1, TopCall
<1>4. PICK i \in IntentIds : i = Top.id
  <2>1. Top.id \in IntentIds
    <3>1. CASE op = "apply"
      <4>1. Top.report \in Reports /\ Top.id = Top.report.intent_id
        BY <1>3, <3>1 DEF Typed
      <4>2. QED
        BY <4>1 DEF Reports, BrokerOrder, Report
    <3>2. QED
      BY <1>1, <1>3, <3>1 DEF Typed, IntentOps, IntentIds
  <2>2. QED
    BY <2>1
<1>5. op # "apply" => Tried(Top, Rest)
  BY <1>1, <1>3 DEF AgreeInv, Ahead, AheadCall, Urgent, Top, Rest
<1>6. Tried(Top, Rest) => intents[i].state \in {"SUBMITTING", "CANCEL_PENDING"}
  BY <1>4 DEF Tried
<1>7. UNCHANGED orders => Books' /\ Known' = Known /\ Off' = Off
  BY <1>0, <1>2 DEF Books, BooksOf, Known, Off, Agreed, Accepted, Live, Active, Row
<1>8. PICK none : none = [intent_id |-> Nil]
  OBVIOUS
<1>9. ASSUME Tried(Top, Rest), UNCHANGED orders, agenda' = Raise(Rest) PROVE AgreeInv'
  BY <1>1, <1>2, <1>4, <1>7, <1>9, AgreedAnswer
<1>10. CASE SendFailed \/ AskCancelFailed
  <2>1. UNCHANGED orders /\ agenda' = Raise(Rest) /\ op # "apply"
    BY <1>1, <1>3, <1>10 DEF SendFailed, AskCancelFailed, Internal, Local, brokerVars, Running
  <2>2. QED
    BY <1>5, <1>9, <2>1
<1>11. CASE ApplyRefused
  <2>1. UNCHANGED orders /\ agenda' = Raise(Rest) /\ Top.op = "apply"
    BY <1>11 DEF ApplyRefused, Internal, Local, brokerVars, Running
  <2>2. CASE Tried(Top, Rest)
    BY <1>9, <2>1, <2>2
  <2>3. CASE ~Tried(Top, Rest)
    <3>1. Rest # <<>> /\ Head(Rest).op = "reconcile"
      BY <1>3, <2>1, <2>3 DEF AgreeInv, Ahead, AheadCall, Urgent, Top, Rest, Queried
    <3>2. /\ Rest \in Seq(CoverLow(Due, Known)) /\ Once(Rest)
      BY <1>0, <1>1, CoverRest
    <3>3. /\ Head(Rest) \in CoverLow(Due, Known) /\ Tail(Rest) \in Seq(Low)
          /\ ~Reconciling(Tail(Rest))
      <4>1. Head(Rest).op \in Settlers
        BY <3>1 DEF Settlers
      <4>2. QED
        BY <1>3, <3>1, <3>2, <4>1, OnceBelow, TopAndRest
    <3> DEFINE loop == [Head(Rest) EXCEPT !.clean = FALSE]
    <3>4. loop \in Covers(Due', Known') /\ loop.op = "reconcile"
      <4>1. Head(Rest) \in Covers(Due, Known) /\ Known \subseteq Known'
        BY <1>7, <2>1, <3>3 DEF CoverLow
      <4>2. PICK f \in Covers(Due, Known) : f = Head(Rest) /\ f.op = "reconcile"
        BY <3>1, <4>1
      <4>3. PICK less, more : less = Due' /\ more = Known'
        OBVIOUS
      <4>4. [f EXCEPT !.clean = FALSE] \in Covers(less, more) /\ [f EXCEPT !.clean = FALSE].op = "reconcile"
        BY <4>1, <4>2, <4>3, CoverUnclean
      <4>5. QED
        BY <4>2, <4>3, <4>4
    <3>5. agenda' = Above(loop, Tail(Rest))
      BY <1>3, <2>1, <3>1, RaiseHandled
    <3> HIDE DEF loop
    <3>6. QED
      BY <1>7, <2>1, <3>3, <3>4, <3>5, AgreedInside
  <2>4. QED
    BY <2>2, <2>3
<1>12. CASE SendAccepted
  <2>1. PICK n \in IF Etoro THEN {0} ELSE 0..intents[i].units, protected \in Protection :
          LET o == [state |-> FillState(intents[i].units, n), filled_units |-> n,
                    protected |-> protected]
          IN /\ orders' = [orders EXCEPT ![i] = o]
             /\ agenda' = Raise(Rest) \/ agenda' = <<Apply(ReportAt(i, o, held', clock'))>> \o Rest
    BY <1>4, <1>12 DEF SendAccepted
  <2>2. PICK o : o = [state |-> FillState(intents[i].units, n), filled_units |-> n,
                      protected |-> protected]
    OBVIOUS
  <2>3. PICK u : u = ReportAt(i, o, held', clock')
    OBVIOUS
  <2>4. /\ orders' = [orders EXCEPT ![i] = o]
        /\ agenda' = Raise(Rest) \/ agenda' = <<Apply(u)>> \o Rest
    BY <2>1, <2>2, <2>3
  <2>5. /\ o.state \in {"FILLED", "PARTIALLY_FILLED", "ACKNOWLEDGED"} /\ o.filled_units = n
        /\ u.state = o.state /\ u.filled_units = o.filled_units /\ u.intent_id = i
        /\ u.filled_units > 0 => u.position_id = PositionOfIntent(i)
    BY <2>2, <2>3 DEF FillState, ReportAt
  <2>6. orders'[i] = o /\ \A j \in IntentIds : j # i => orders'[j] = orders[j]
    BY <1>0, <2>4 DEF BrokerTyped
  <2>7. Tried(Top, Rest)
    BY <1>3, <1>5, <1>12 DEF SendAccepted, Running
  <2>8. intents[i].filled_units <= orders'[i].filled_units
    <3>1. dispatched[i] = 0
      BY <1>4, <1>12 DEF SendAccepted, Running, EInv, Ready, ReadyCall, Top
    <3>2. intents[i].filled_units = 0
      BY <1>0, <3>1, NeverAccepted
    <3>3. n >= 0
      BY <1>0 DEF IInv, TypeOK, OrderIntent, Units
    <3>4. QED
      BY <2>5, <2>6, <3>2, <3>3
  <2>9. Books' /\ Known \subseteq Known' /\ Off' \subseteq Off \cup {i}
    BY <1>2, <1>6, <2>5, <2>6, <2>7, <2>8, BooksUnderway
  <2>10. Told(u, i)' /\ Current(u, i)'
    <3>1. n \in Nat
      BY <1>0 DEF IInv, TypeOK, OrderIntent, Units
    <3>2. orders'[i].state # Nil /\ orders'[i].filled_units = n /\ u.filled_units = n
          /\ u.state = orders'[i].state
      BY <2>5, <2>6 DEF OrderState, ACTIVE_STATES, TERMINAL_STATES
    <3>3. Told(u, i)'
      BY <2>5, <3>1, <3>2 DEF Told, Accepted
    <3>4. Current(u, i)'
      BY <3>2 DEF Current, Live, ACTIVE_STATES
    <3>5. QED
      BY <3>3, <3>4
  <2>11. QED
    BY <1>1, <1>2, <1>4, <2>4, <2>5, <2>7, <2>9, <2>10, AgreedAnswer
<1>13. CASE AskCancel
  <2>1. Accepted(i)
    BY <1>4, <1>13 DEF AskCancel
  <2>2. orders[i] \in Order /\ orders[i].state # Nil
    BY <1>0, <2>1 DEF BrokerTyped, Accepted
  <2>3. PICK outcome \in CancelOutcomes(orders[i]) :
          /\ orders' = [orders EXCEPT ![i] = outcome.order]
          /\ \/ agenda' = Raise(Rest)
             \/ agenda' = <<Apply([ReportOn(i, outcome.order) EXCEPT !.state = outcome.reported])>>
                            \o Rest
    BY <1>4, <1>13 DEF AskCancel
  <2>4. PICK u : u = [ReportOn(i, outcome.order) EXCEPT !.state = outcome.reported]
    OBVIOUS
  <2>5. /\ orders'[i].filled_units = orders[i].filled_units
        /\ orders'[i].state \in {orders[i].state, "CANCEL_PENDING", "CANCELLED"}
        /\ outcome.reported \in {"CANCEL_PENDING", "FILLED", "CANCELLED"}
        /\ outcome.reported # "CANCEL_PENDING" => orders'[i].state = outcome.reported
        /\ orders'[i] = outcome.order
        /\ \A j \in IntentIds : j # i => orders'[j] = orders[j]
    BY <1>0, <2>2, <2>3, CancelAnswer DEF BrokerTyped
  <2>6. /\ u.intent_id = i /\ u.state = outcome.reported
        /\ u.filled_units = orders'[i].filled_units
        /\ u.filled_units > 0 => u.position_id = PositionOfIntent(i)
    BY <2>4, <2>5 DEF ReportOn, ReportAt
  <2>7. Tried(Top, Rest)
    BY <1>3, <1>5, <1>13 DEF AskCancel, Running
  <2>8. Books' /\ Known \subseteq Known' /\ Off' \subseteq Off \cup {i}
    <3>1. /\ intents[i].filled_units <= orders'[i].filled_units
          /\ orders'[i].state = "REJECTED" => orders'[i].filled_units = 0
      BY <1>0, <2>5 DEF Books, BooksOf
    <3>2. QED
      BY <1>2, <1>6, <2>5, <2>7, <3>1, BooksUnderway
  <2>9. Told(u, i)' /\ Current(u, i)'
    <3>1. orders[i].filled_units \in Nat
      BY <2>2 DEF Order, Units
    <3>2. orders'[i].state # Nil
      BY <2>2, <2>5 DEF OrderState, ACTIVE_STATES, TERMINAL_STATES
    <3>3. Told(u, i)'
      BY <2>5, <2>6, <3>1, <3>2 DEF Told, Accepted
    <3>4. Current(u, i)'
      BY <2>5, <2>6 DEF Current, Live, ACTIVE_STATES
    <3>5. QED
      BY <3>3, <3>4
  <2>10. agenda' = Raise(Rest) \/ agenda' = <<Apply(u)>> \o Rest
    BY <2>3, <2>4
  <2>11. QED
    BY <1>1, <1>2, <1>4, <2>6, <2>7, <2>8, <2>9, <2>10, AgreedAnswer
<1>14. QED
  BY <1>10, <1>11, <1>12, <1>13

-----------------------------------------------------------------------------
(* Answers to the queries of reconcile(), and the end of its loop.         *)

(* What an incident makes of the stack.                                    *)
LEMMA IncidentCover ==
  ASSUME NEW u \in Reports, NEW due, NEW known, Rest \in Seq(CoverLow(due, known)), Once(Rest)
  PROVE  Orderly(Then(IncidentCalls(u)), due, known)
<1> DEFINE L == CoverLow(due, known)
<1>1. /\ Call("pause") \in L /\ Call("cancel_all") \in L /\ Call("end_incident") \in L
      /\ Call("pause").op = "pause" /\ Call("cancel_all").op = "cancel_all"
      /\ Call("end_incident").op = "end_incident"
  BY CoverPlain DEF PlainOps
<1> HIDE DEF L
<1>2. CASE ~Incident(u)
  <2>1. IncidentCalls(u) = <<>>
    BY <1>2 DEF IncidentCalls
  <2>2. QED
    BY <2>1, OrderlyThen, OrderlyLow
<1>3. CASE Incident(u)
  <2>1. u.position_id \in PositionIds
    BY <1>3 DEF Incident, Reports, Report, BrokerOrder
  <2>2. /\ CallOn("close", u.position_id) \in L
        /\ CallOn("close", u.position_id).op = "close"
    BY <2>1, CoverPlain DEF L
  <2>3. /\ IncidentCalls(u) \in Seq(L) /\ IncidentCalls(u) # <<>>
        /\ \A k \in 1..Len(IncidentCalls(u)) : IncidentCalls(u)[k].op \notin Settlers
    <3>1. CASE InIncident
      <4>1. IncidentCalls(u) = <<Call("pause")>>
        BY <1>3, <3>1 DEF IncidentCalls
      <4>2. QED
        BY <1>1, <4>1 DEF Settlers
    <3>2. CASE ~InIncident
      <4>1. IncidentCalls(u) = <<Call("pause"), Call("cancel_all"), CallOn("close", u.position_id),
                                 Call("end_incident")>>
        BY <1>3, <3>2 DEF IncidentCalls
      <4>2. QED
        BY <1>1, <2>2, <4>1 DEF Settlers
    <3>3. QED
      BY <3>1, <3>2
  <2>4. Then(IncidentCalls(u)) = IncidentCalls(u) \o Rest
    BY <2>3 DEF Then
  <2> DEFINE calls == IncidentCalls(u)
  <2> HIDE DEF calls
  <2>5. calls \o Rest \in Seq(L) /\ Once(calls \o Rest)
    BY <2>3, OncePrefix, ConcatProperties DEF L, calls
  <2>6. QED
    BY <2>4, <2>5, OrderlyLow DEF L, calls
<1>4. QED
  BY <1>2, <1>3

(* The order a query finds has filled into its own position.               *)
LEMMA AnswersPlaced ==
  ASSUME NEW i, NEW u \in Answers(i), u.filled_units > 0
  PROVE  u.position_id = PositionOfIntent(i)
<1>1. ASSUME NEW o, NEW report, report = ReportOn(i, o), report.filled_units > 0
      PROVE  /\ report.position_id = PositionOfIntent(i)
             /\ [report EXCEPT !.state = "UNKNOWN"].position_id = report.position_id
             /\ WithoutSnapshot(report).position_id = report.position_id
  BY <1>1 DEF ReportOn, ReportAt, WithoutSnapshot
<1>2. ASSUME NEW o
      PROVE  /\ [ReportOn(i, o) EXCEPT !.state = "UNKNOWN"].filled_units = ReportOn(i, o).filled_units
             /\ WithoutSnapshot(ReportOn(i, o)).filled_units = ReportOn(i, o).filled_units
  BY DEF ReportOn, ReportAt, WithoutSnapshot
<1>3. PICK o : u \in {ReportOn(i, o), WithoutSnapshot(ReportOn(i, o)),
                     [ReportOn(i, o) EXCEPT !.state = "UNKNOWN"]}
  BY DEF Answers
<1>4. ReportOn(i, o).filled_units > 0
  BY <1>2, <1>3
<1>5. PICK report : report = ReportOn(i, o)
  OBVIOUS
<1>6. u \in {report, WithoutSnapshot(report), [report EXCEPT !.state = "UNKNOWN"]}
  BY <1>3, <1>5
<1>7. /\ report.position_id = PositionOfIntent(i)
      /\ [report EXCEPT !.state = "UNKNOWN"].position_id = report.position_id
      /\ WithoutSnapshot(report).position_id = report.position_id
  BY <1>1, <1>4, <1>5
<1>8. QED
  BY <1>6, <1>7

(* A query is answered: the order is under way until the answer is booked,  *)
(* and an answer that says nothing is booked in a loop that is not clean.   *)
LEMMA AgreedQuery ==
  ASSUME EInv, AgreeInv, QueryAnswered
  PROVE  AgreeInv'
<1> USE NilDistinct
<1>0. /\ agenda \in Stacks /\ agenda \in Seq(Covers(Due, Known)) /\ Once(agenda) /\ Books /\ IInv
      /\ BrokerOK
  BY DEF EInv, AgreeInv
<1>1. Running("reconcile") /\ Internal /\ Aside
  BY DEF QueryAnswered, Internal, Local, brokerVars, Aside
<1>2. PICK e \in Top.todo :
        /\ Accepted(e.id)
        /\ \E u \in Answers(e.id) :
             agenda' = <<Apply(u), [Without(e) EXCEPT !.clean = @ /\ u.state # "UNKNOWN"]>> \o Rest
  BY DEF QueryAnswered
<1>3. PICK i \in IntentIds : i = e.id
  BY <1>1, <1>2, TopCall DEF Typed, Entries
<1>4. PICK u \in Answers(i) :
        agenda' = <<Apply(u), [Without(e) EXCEPT !.clean = @ /\ u.state # "UNKNOWN"]>> \o Rest
  BY <1>2, <1>3
<1>5. /\ u \in Reports /\ u.intent_id = i /\ Accepted(i)
      /\ IF Etoro /\ Kind(i) = "close"
         THEN u.state = "UNKNOWN" /\ u.filled_units = intents[i].filled_units
         ELSE /\ u.state = orders[i].state \/ u.state = "UNKNOWN"
              /\ u.filled_units = orders[i].filled_units
  BY <1>0, <1>2, <1>3, AnswersAreReports
<1>6. /\ Apply(u) \in Frames /\ Apply(u).op = "apply" /\ Apply(u).id = i /\ Apply(u).report = u
  BY <1>5, ApplyFrames
<1> DEFINE value == Without(e).clean /\ u.state # "UNKNOWN"
           loop == [Without(e) EXCEPT !.clean = value]
           lower == Above(loop, Rest)
<1>7. /\ Top \in Covers(Due, Known) /\ Rest \in Seq(Low) /\ ~Reconciling(Rest)
      /\ agenda # <<>> /\ Top.op = "reconcile"
  BY <1>0, <1>1, CoverRest, TopCall DEF Settlers
<1>8. value \in BOOLEAN /\ Without(e).clean = Top.clean
  BY <1>1, LeftClean
<1>9. agenda' = Above(Apply(u), lower)
  <2>1. PICK next : next = [Without(e) EXCEPT !.clean = @ /\ u.state # "UNKNOWN"]
    OBVIOUS
  <2>2. agenda' = <<Apply(u), next>> \o Rest /\ next = loop
    BY <1>4, <2>1
  <2> HIDE DEF loop
  <2>3. agenda' = <<Apply(u), loop>> \o Rest
    BY <2>2
  <2>4. ASSUME NEW f, NEW g PROVE <<f, g>> \o Rest = Above(f, Above(g, Rest))
    BY <1>7, TwoAbove
  <2>5. QED
    BY <2>3, <2>4
<1>10. Kept /\ Marked /\ UNCHANGED intents /\ UNCHANGED orders /\ UNCHANGED <<moved, unseen>>
  BY <1>0, <1>1, KeptCalls DEF Internal, Local, storeVars, orderVars, brokerVars
<1> HIDE DEF value
<1>11. loop.op = "reconcile"
  <2>1. FALSE \in BOOLEAN /\ Without(e) \in Frames
    BY <1>1, LeftClean
  <2>2. QED
    BY <1>1, <1>8, LoopLeft DEF Loops
<1> HIDE DEF loop
<1>12. /\ Head(agenda') = Apply(u) /\ Tail(agenda') = lower /\ agenda' # <<>>
       /\ lower # <<>> /\ Head(lower) = loop /\ Reconciling(lower) /\ Reconciling(agenda')
  <2>1. /\ lower # <<>> /\ Head(lower) = loop /\ Reconciling(lower)
    BY <1>7, <1>11, AboveProperties, ReconcilingAbove
  <2>2. PICK K : lower \in Seq(K)
    <3>1. loop \in Low \cup {loop} /\ Rest \in Seq(Low \cup {loop})
      BY <1>7
    <3>2. QED
      BY <3>1, AboveProperties
  <2> HIDE DEF lower
  <2>3. QED
    BY <1>9, <2>1, <2>2, AboveProperties, ReconcilingAbove
<1>13. Due' \subseteq Due /\ i \notin Due'
  <2>1. Due' \subseteq Due
    BY <1>7, <1>10, DueKept DEF Kept, Answering
  <2>2. Underway(agenda, i)'
    BY <1>6, <1>11, <1>12 DEF Underway, Answering
  <2>3. QED
    BY <2>1, <2>2 DEF Due
<1>14. loop \in CoverLow(Due', Known')
  <2>1. PICK less : less = Due'
    OBVIOUS
  <2>2. /\ less \subseteq Due /\ (value => Top.clean /\ e.id \notin less)
    BY <1>3, <1>8, <1>13, <2>1 DEF value
  <2>3. loop \in CoverLow(less, Known)
    BY <1>1, <1>7, <1>8, <2>2, CoverLeft DEF loop
  <2>4. Known' = Known
    BY <1>10 DEF Known, Row, Accepted
  <2>5. QED
    BY <2>1, <2>3, <2>4
<1>15. /\ agenda' \in Seq(Covers(Due', Known')) /\ Once(agenda')
  <2>1. Rest \in Seq(CoverLow(Due', Known')) /\ Once(Rest)
    BY <1>7, CoverNone, OnceNone
  <2>2. loop \in Covers(Due', Known') /\ loop \in Low
    BY <1>14 DEF CoverLow
  <2>3. lower \in Seq(CoverLow(Due', Known')) /\ Once(lower)
    BY <1>7, <2>1, <2>2, OrderlyAbove
  <2>4. Apply(u) \in Covers(Due', Known')
    BY <1>6, CoverFrames
  <2> HIDE DEF lower
  <2>5. QED
    BY <1>6, <1>9, <2>3, <2>4, OrderlyAbove DEF Settlers
<1>16. Ahead(agenda)'
  <2>1. Told(u, i)'
    <3>1. orders[i].filled_units \in Nat
      BY <1>0 DEF BrokerOK, BrokerTyped, Order, Units
    <3>2. u.filled_units <= orders[i].filled_units
      BY <1>0, <1>5, <3>1 DEF Books, BooksOf
    <3>3. u.state = "REJECTED" => orders[i].state = "REJECTED"
      BY <1>5
    <3>4. u.filled_units > 0 => u.position_id = PositionOfIntent(i)
      BY AnswersPlaced
    <3>5. QED
      BY <1>5, <1>10, <3>2, <3>3, <3>4 DEF Told, Accepted
  <2>2. Current(u, i)' \/ ~loop.clean
    <3>1. CASE u.state = "UNKNOWN"
      <4>1. loop.clean = FALSE
        BY <1>1, <1>7, <1>8, <3>1, CoverLeft DEF loop, value
      <4>2. QED
        BY <4>1
    <3>2. CASE u.state # "UNKNOWN"
      <4>1. Current(u, i)
        BY <1>5, <3>2 DEF Current, Live, ACTIVE_STATES
      <4>2. QED
        BY <1>10, <4>1 DEF Current, Live
    <3>3. QED
      BY <3>1, <3>2
  <2>3. QED
    BY <1>6, <1>11, <1>12, <2>1, <2>2 DEF Ahead, AheadCall, Urgent, Queried
<1>17. QED
  BY <1>10, <1>12, <1>15, <1>16 DEF AgreeInv, Kept, Outside


(* What a report books: the row is known from then on, and is only off when *)
(* the loop that asked for the report is not clean any more.               *)
LEMMA BookedAgreed ==
  ASSUME EInv, AgreeInv, Running("apply"), Aside, NEW i \in IntentIds, Top.id = i,
         Top.report.intent_id = i, Top.report \in Reports,
         intents' = [intents EXCEPT ![i] = Updated(Top.report)]
  PROVE  /\ Books' /\ Known \subseteq Known'
         /\ Off' \subseteq Off \cup {i}
         /\ i \in Off' => Queried(Rest) /\ ~Head(Rest).clean
         /\ \A j \in IntentIds : j # i => intents'[j] = intents[j]
<1> USE NilDistinct
<1> DEFINE u == Top.report
<1>1. /\ intents'[i].state = u.state /\ intents'[i].filled_units = u.filled_units
      /\ intents'[i].broker_order_id = u.broker_order_id
      /\ \A j \in IntentIds : j # i => intents'[j] = intents[j]
  <2>1. intents \in [IntentIds -> OrderIntent]
    BY DEF EInv, IInv, TypeOK
  <2>2. intents'[i] = Updated(u) /\ \A j \in IntentIds : j # i => intents'[j] = intents[j]
    BY <2>1
  <2>3. QED
    BY <2>2 DEF Updated
<1>2. u.state \in BrokerStates /\ u.broker_order_id # Nil
  BY StoreAssumption DEF Reports, BrokerOrder
<1>3. /\ Told(u, i)
      /\ Current(u, i) \/ i \in moved \/ (Queried(Rest) /\ ~Head(Rest).clean)
  BY DEF AgreeInv, Ahead, AheadCall, Running, Top, Rest
<1> HIDE DEF u
<1>4. Books'
  <2>1. ASSUME NEW j \in IntentIds PROVE BooksOf(j)'
    <3>1. BooksOf(j)
      BY DEF AgreeInv, Books
    <3>2. CASE j # i
      BY <1>1, <3>1, <3>2 DEF BooksOf, Aside, Accepted
    <3>3. CASE j = i
      BY <1>1, <1>2, <1>3, <3>1, <3>3 DEF BooksOf, Told, Aside, Accepted
    <3>4. QED
      BY <3>2, <3>3
  <2>2. QED
    BY <2>1 DEF Books
<1>5. Known \subseteq Known'
  <2>1. u.state # Nil
    BY <1>2 DEF BrokerStates, OrderState
  <2>2. ASSUME NEW j \in Known PROVE j \in Known'
    BY <1>1, <1>2, <2>1, <2>2 DEF Known, Row, Accepted, Aside
  <2>3. QED
    BY <2>2
<1>6. Off' \subseteq Off \cup {i}
  BY <1>1 DEF Off, Agreed, Live, Active, Aside
<1>7. i \in Off' => Queried(Rest) /\ ~Head(Rest).clean
  <2>1. Current(u, i) => Agreed(i)'
    BY <1>1 DEF Current, Agreed, Active, Live, Aside
  <2>2. i \in Off' => i \notin moved /\ i \notin unseen /\ ~Agreed(i)'
    BY DEF Off, Aside
  <2>3. QED
    BY <1>3, <2>1, <2>2
<1>8. QED
  BY <1>1, <1>4, <1>5, <1>6, <1>7

(* A report is booked (engine.py _apply, store.py apply_broker_order).     *)
LEMMA AgreedApply ==
  ASSUME EInv, AgreeInv, ApplyReport
  PROVE  AgreeInv'
<1>0. agenda \in Stacks /\ agenda \in Seq(Covers(Due, Known)) /\ Once(agenda)
  BY DEF EInv, AgreeInv
<1>1. /\ Running("apply") /\ ApplyBrokerOrder(Top.report, clock)
      /\ agenda' = Then(IncidentCalls(Top.report)) /\ started' = started /\ Aside
  BY DEF ApplyReport, Local, brokerVars, Aside
<1>2. /\ Top.report \in Reports /\ Top.id = Top.report.intent_id /\ Top.op = "apply"
      /\ agenda # <<>>
  BY <1>1, TopCall DEF Typed, Running
<1>3. PICK u \in Reports : u = Top.report
  BY <1>2
<1>4. PICK i \in IntentIds : i = Top.id
  BY <1>2 DEF Reports, BrokerOrder
<1>5. /\ Rest \in Seq(CoverLow(Due, Known)) /\ Once(Rest) /\ Rest \in Seq(Low)
      /\ agenda = Above(Top, Rest)
  BY <1>0, <1>1, CoverRest, Topmost DEF Running
<1>6. /\ intents' = [intents EXCEPT ![i] = Updated(Top.report)]
      /\ reconciliation_ok' => reconciliation_ok
  BY <1>1, <1>2, <1>4 DEF ApplyBrokerOrder
<1>7. /\ Books' /\ Known \subseteq Known' /\ Off' \subseteq Off \cup {i}
      /\ i \in Off' => Queried(Rest) /\ ~Head(Rest).clean
      /\ \A j \in IntentIds : j # i => intents'[j] = intents[j]
  BY <1>1, <1>2, <1>4, <1>6, BookedAgreed
<1>8. PICK due, known : due = Due' /\ known = Known'
  OBVIOUS
<1>9. Rest \in Seq(CoverLow(due, known))
  <2>1. CASE i \notin Off'
    <3>1. due \subseteq Due
      BY <1>4, <1>7, <1>8, <2>1 DEF Due, Off, Underway, Top
    <3>2. QED
      BY <1>5, <1>7, <1>8, <3>1, CoverLowMore
  <2>2. CASE i \in Off'
    <3>1. Rest # <<>> /\ Head(Rest).op = "reconcile" /\ ~Head(Rest).clean
      BY <1>7, <2>2 DEF Queried
    <3>2. /\ Rest = Above(Head(Rest), Tail(Rest)) /\ Head(Rest) \in CoverLow(Due, Known)
          /\ Tail(Rest) \in Seq(Low)
      BY <1>5, <3>1, TopAndRest
    <3>3. Once(Tail(Rest)) /\ ~Reconciling(Tail(Rest))
      BY <1>5, <3>1, OnceBelow DEF Settlers
    <3>4. Tail(Rest) \in Seq(CoverLow(due, known))
      BY <3>2, <3>3, CoverNone
    <3>5. Head(Rest) \in Covers(due, known) /\ Head(Rest) \in Low
      BY <1>7, <1>8, <3>1, <3>2 DEF CoverLow, Covers, Covering
    <3>6. QED
      BY <3>2, <3>3, <3>4, <3>5, OrderlyAbove
  <2>3. QED
    BY <2>1, <2>2
<1>10. agenda' \in Seq(Covers(Due', Known')) /\ Once(agenda') /\ Ahead(agenda)'
  <2>1. Orderly(agenda', due, known)
    BY <1>1, <1>3, <1>5, <1>9, IncidentCover
  <2>2. agenda' # <<>> => Head(agenda').op \notin Urgent
    BY <2>1 DEF Orderly
  <2>3. QED
    BY <1>8, <2>1, <2>2 DEF Orderly, Ahead, AheadCall, Urgent
<1>11. Outside'
  <2>1. ASSUME started', reconciliation_ok', ~Reconciling(agenda'), NEW j \in Off'
        PROVE  FALSE
    <3>1. ~Reconciling(Rest)
      BY <1>1, <1>3, <1>5, <2>1, IncidentStack
    <3>2. ~Reconciling(agenda)
      BY <1>2, <1>5, <3>1, ReconcilingAbove
    <3>3. ~Doubted(agenda)
      BY <1>2, NoDoubt
    <3>4. \A l \in Off : Underway(agenda, l)
      BY <1>1, <1>6, <2>1, <3>2, <3>3 DEF AgreeInv, Outside
    <3>5. j = i
      BY <1>4, <1>7, <2>1, <3>4 DEF Underway, Top
    <3>6. Rest # <<>> /\ Head(Rest).op = "reconcile"
      BY <1>7, <2>1, <3>5 DEF Queried
    <3>7. Reconciling(Rest)
      <4>1. Rest = Above(Head(Rest), Tail(Rest)) /\ Tail(Rest) \in Seq(Low)
        BY <1>5, <3>6, TopAndRest
      <4>2. QED
        BY <3>6, <4>1, ReconcilingAbove
    <3>8. QED
      BY <3>1, <3>7
  <2>2. QED
    BY <2>1 DEF Outside
<1>12. QED
  BY <1>7, <1>10, <1>11 DEF AgreeInv

(* The loop of reconcile() ends: it ends cleanly when nothing is off.       *)
LEMMA AgreedEnds ==
  ASSUME EInv, AgreeInv, ReconcileEnds
  PROVE  AgreeInv'
<1>0. agenda \in Stacks /\ agenda \in Seq(Covers(Due, Known)) /\ Once(agenda) /\ Books
  BY DEF EInv, AgreeInv
<1>1. /\ Running("reconcile") /\ Top.todo = {} /\ reconciliation_ok' = ReconciledCleanly
      /\ agenda' = Then(IF ReconciledCleanly THEN <<>> ELSE <<Call("pause")>>)
      /\ UNCHANGED intents /\ Aside
  BY DEF ReconcileEnds, SetReconciliation, Local, orderVars, brokerVars, Aside
<1>2. Kept /\ Marked
  BY <1>0, <1>1, KeptCalls
<1>3. /\ Top \in Covers(Due, Known) /\ Top.op = "reconcile" /\ agenda # <<>>
  BY <1>0, <1>1, CoverRest, TopCall
<1>4. Due' \subseteq Due
  BY <1>2, <1>3, DueKept DEF Kept, Answering
<1>5. Orderly(agenda', Due, Known)
  <2>1. CASE ReconciledCleanly
    <3>1. agenda' = Then(<<>>)
      BY <1>1, <2>1
    <3>2. QED
      BY <1>0, <1>1, <3>1, OrderlyRest
  <2>2. CASE ~ReconciledCleanly
    <3>1. agenda' = Then(<<Call("pause")>>)
      BY <1>1, <2>2
    <3>2. Call("pause") \in Covers(Due, Known) /\ Call("pause").op = "pause"
      BY CoverPlain DEF PlainOps
    <3>3. QED
      BY <1>0, <1>1, <3>1, <3>2, OrderlyRest DEF Urgent, Settlers
  <2>3. QED
    BY <2>1, <2>2
<1>6. Outside'
  <2>1. ASSUME reconciliation_ok' PROVE Off' = {}
    <3>1. Top.clean /\ \A i \in IntentIds : intents[i].state # "UNKNOWN"
      BY <1>1, <2>1 DEF ReconciledCleanly
    <3>2. Due = {}
      BY <1>1, <1>3, <3>1 DEF Covers, Covering
    <3>3. Off = {}
      BY <1>3, <3>1, <3>2 DEF Due, Off, Underway, Answering, Top
    <3>4. QED
      BY <1>2, <3>3 DEF Kept
  <2>2. QED
    BY <2>1 DEF Outside
<1>7. QED
  BY <1>2, <1>4, <1>5, <1>6, CoveredMove, OrderlyAhead

(* The executor is left, or its process dies.                              *)
LEMMA AgreedEnded ==
  ASSUME EInv, AgreeInv, Release \/ Crash
  PROVE  AgreeInv'
<1>1. agenda' = <<>> /\ ~started' /\ UNCHANGED intents /\ Aside
  BY DEF Release, Crash, storeVars, orderVars, brokerVars, Aside
<1>2. Books'
  BY <1>1, KeptCalls DEF AgreeInv, Kept
<1>3. agenda' \in Seq(Covers(Due', Known')) /\ Once(agenda') /\ Ahead(agenda)'
  <2>1. <<>> \in Seq(Covers(Due', Known')) /\ Len(<<>>) = 0
    OBVIOUS
  <2>2. Once(<<>>)
    BY <2>1, OnceNone DEF Reconciling
  <2>3. QED
    BY <1>1, <2>1, <2>2 DEF Ahead
<1>4. QED
  BY <1>1, <1>2, <1>3 DEF AgreeInv, Outside

-----------------------------------------------------------------------------
(* The operations of the owner begin with calls that are no reconcile() in  *)
(* progress.                                                               *)
Still == {f \in Frames : f.op # "reconcile"}

(* Such calls have nothing to cover.                                       *)
LEMMA StillOrderly ==
  ASSUME NEW due, NEW known, NEW s \in Seq(Still), s # <<>> => Head(s).op \notin Urgent
  PROVE  Orderly(s, due, known)
<1>1. Still \subseteq Covers(due, known)
  BY CoverFrames DEF Still
<1>2. s \in Seq(Covers(due, known))
  BY <1>1, SeqMonotonic
<1>3. ~Reconciling(s)
  BY LenProperties, ElementOfSeq DEF Still, Reconciling
<1>4. QED
  BY <1>2, <1>3, OnceNone DEF Orderly

(* Between operations nothing is off while reconciliation_ok stands, and it *)
(* takes a call to change that.                                            *)
LEMMA OwnerMove ==
  ASSUME EInv, AgreeInv, Idle, Kept, Marked, reconciliation_ok' => reconciliation_ok,
         agenda' \in Seq(Still), agenda' # <<>> => Head(agenda').op \notin Urgent
  PROVE  AgreeInv'
<1>1. Orderly(agenda', Due, Known)
  BY StillOrderly
<1>2. ~Reconciling(agenda) /\ ~Doubted(agenda)
  BY DEF Idle, Reconciling, Doubted
<1>3. Sheltered
  BY <1>2 DEF Sheltered, Idle
<1>4. QED
  BY <1>1, <1>3, OrderlyAhead, KeptMove DEF Idle

(* The operations of the owner.                                            *)
LEMMA AgreedOwner ==
  ASSUME EInv, GateInv, AgreeInv, Operations
  PROVE  AgreeInv'
<1>0. IInv /\ agenda \in Stacks /\ Books
  BY DEF EInv, AgreeInv
<1>1. /\ Call("pause") \in Still /\ Call("cancel_all") \in Still /\ Call("flatten_all") \in Still
      /\ Call("reconcile_all") \in Still /\ Call("confirm_flat") \in Still
      /\ Call("release") \in Still /\ Call("unreconciled") \in Still
      /\ \A op \in PlainOps : Call(op).op = op
  BY CallFrames DEF PlainOps, Still, Low
<1>2. \A p \in PositionIds : CallOn("close", p) \in Still /\ CallOn("close", p).op = "close"
  BY PositionFrames DEF Still, Low
<1>3. UNCHANGED intents /\ Aside => Kept /\ Marked
  BY <1>0, KeptCalls
<1>4. ASSUME NEW calls \in Seq(Still), calls # <<>> => Head(calls).op \notin Urgent, Operation(calls)
      PROVE  AgreeInv'
  <2>1. /\ Idle /\ agenda' = calls /\ UNCHANGED intents /\ Aside
        /\ reconciliation_ok' = reconciliation_ok
    BY <1>4 DEF Operation, Internal, Local, storeVars, orderVars, gateVars, brokerVars, Aside
  <2>2. QED
    BY <1>3, <1>4, <2>1, OwnerMove
<1>5. ASSUME NEW f \in Still, f.op \notin Urgent, Operation(<<f>>) PROVE AgreeInv'
  <2>1. <<f>> \in Seq(Still) /\ Head(<<f>>) = f
    OBVIOUS
  <2>2. QED
    BY <1>4, <1>5, <2>1
<1>6. CASE \/ Operation(<<Call("pause")>>) \/ Operation(<<Call("reconcile_all")>>)
           \/ Operation(<<Call("cancel_all")>>)
           \/ \E p \in PositionIds : Operation(<<CallOn("close", p)>>)
  BY <1>1, <1>2, <1>5, <1>6 DEF OpenPositions, PlainOps, Urgent
<1>7. CASE FlattenOwned \/ Exit
  <2>1. ASSUME NEW f \in Still, NEW g \in Still, NEW h \in Still, NEW k \in Still, NEW l \in Still
        PROVE  /\ <<f, g, h, k, l>> \in Seq(Still) /\ Head(<<f, g, h, k, l>>) = f
               /\ <<f, g>> \in Seq(Still) /\ Head(<<f, g>>) = f
    OBVIOUS
  <2>2. Call("pause").op \notin Urgent
    BY <1>1 DEF PlainOps, Urgent
  <2>3. PICK calls :
          /\ Operation(calls)
          /\ \/ calls = <<Call("pause"), Call("cancel_all"), Call("flatten_all"),
                         Call("reconcile_all"), Call("confirm_flat")>>
             \/ calls = <<Call("pause"), Call("release")>>
    BY <1>7 DEF FlattenOwned, Exit
  <2>4. calls \in Seq(Still) /\ Head(calls) = Call("pause")
    <3>1. CASE calls = <<Call("pause"), Call("cancel_all"), Call("flatten_all"),
                         Call("reconcile_all"), Call("confirm_flat")>>
      BY <1>1, <2>1, <3>1
    <3>2. CASE calls = <<Call("pause"), Call("release")>>
      BY <1>1, <2>1, <3>2
    <3>3. QED
      BY <2>3, <3>1, <3>2
  <2>5. QED
    BY <1>4, <2>2, <2>3, <2>4
<1>8. CASE ArmOffline
  <2>1. /\ Idle /\ agenda' = <<>> /\ UNCHANGED intents /\ Aside
        /\ reconciliation_ok' = reconciliation_ok
    BY <1>8 DEF ArmOffline, Pause, Local, orderVars, brokerVars, Aside
  <2>2. QED
    BY <1>3, <2>1, OwnerMove
<1>9. CASE Enter
  <2> DEFINE todo == {e \in Snapshot : e.state \in {"SUBMITTING", "CREATED", "APPROVED"}}
  <2>1. todo \in SUBSET Entries
    BY <1>0, SnapshotRows
  <2>2. /\ agenda' = Entering(todo) /\ UNCHANGED intents /\ Aside
    BY <1>9 DEF Enter, Entering, Recovery, LoopFrame, Loop, storeVars, orderVars, brokerVars, Aside
  <2> HIDE DEF todo
  <2>3. Recovery(todo) \in Still
    BY <2>1, LoopFrames DEF Recovery, Loops, LoopEntries, Still
  <2>4. ASSUME NEW f \in Still, NEW g \in Still, NEW h \in Still, NEW k \in Still
        PROVE  /\ <<f, g, h, k>> \in Seq(Still) /\ Head(<<f, g, h, k>>) = f
               /\ Tail(<<f, g, h, k>>) # <<>> /\ Head(Tail(<<f, g, h, k>>)) = g
    OBVIOUS
  <2>5. /\ agenda' \in Seq(Still) /\ Head(agenda') = Call("pause")
        /\ Tail(agenda') # <<>> /\ Head(Tail(agenda')) = Call("unreconciled")
    BY <1>1, <2>2, <2>3, <2>4 DEF Entering
  <2>6. /\ Call("pause").op = "pause" /\ Call("unreconciled").op = "unreconciled"
        /\ agenda' # <<>>
    BY <1>1, <2>2 DEF PlainOps, Entering
  <2>7. Doubted(agenda)'
    BY <2>5, <2>6 DEF Doubted
  <2>8. Orderly(agenda', Due, Known)
    BY <2>5, <2>6, StillOrderly DEF Urgent
  <2>9. agenda = <<>>
    BY <1>9 DEF GateInv, Enter
  <2>10. QED
    BY <1>3, <2>2, <2>7, <2>8, <2>9, OrderlyAhead, KeptMove DEF Sheltered
<1>10. ASSUME NEW s \in Symbols, NEW n \in Units, NEW stop \in StopPrices, SubmitEntry(s, n, stop)
       PROVE  AgreeInv'
  <2>1. /\ Idle /\ CreateEntry(s, n, stop) /\ agenda' = <<CallOn("prepare", s)>> /\ Aside
        /\ reconciliation_ok' = reconciliation_ok
    BY <1>10 DEF SubmitEntry, CreateEntry, Local, brokerVars, gateVars, Aside
  <2>2. Kept /\ Marked
    BY <1>0, <2>1, KeptCalls
  <2>3. CallOn("prepare", s) \in Still /\ CallOn("prepare", s).op = "prepare"
    BY IntentFrames DEF IntentOps, IntentIds, Still
  <2>4. ASSUME NEW f \in Still, f.op = "prepare", agenda' = <<f>> PROVE AgreeInv'
    <3>1. <<f>> \in Seq(Still) /\ Head(<<f>>) = f
      OBVIOUS
    <3>2. QED
      BY <2>1, <2>2, <2>4, <3>1, OwnerMove DEF Urgent
  <2>5. QED
    BY <2>1, <2>3, <2>4
<1>11. ASSUME NEW p \in OpenPositions, NEW stop \in StopPrices, TightenStop(p, stop)
       PROVE  AgreeInv'
  <2>1. /\ orders' \in {orders, [orders EXCEPT ![positions[p].owner_intent_id].protected = TRUE]}
        /\ agenda' = <<StopFrame(p, stop)>>
             \/ agenda' = <<Call("pause"), Call("cancel_all"), CallOn("close", p)>>
        /\ UNCHANGED intents /\ reconciliation_ok' = reconciliation_ok
        /\ moved' = moved /\ unseen' = unseen /\ Idle
    BY <1>11 DEF TightenStop, StopFrame, storeVars, orderVars, gateVars
  <2>2. p \in PositionIds /\ orders \in [IntentIds -> Order]
    BY DEF OpenPositions, EInv, BrokerOK, BrokerTyped
  <2>3. Aside
    BY <2>1, <2>2 DEF Aside, Order
  <2>4. StopFrame(p, stop) \in Still /\ StopFrame(p, stop).op = "set_protection"
    BY <2>2, StopFrames DEF Still, Low
  <2>5. ASSUME NEW f \in Still, NEW g \in Still, NEW h \in Still
        PROVE  /\ <<f>> \in Seq(Still) /\ <<f, g, h>> \in Seq(Still)
               /\ Head(<<f>>) = f /\ Head(<<f, g, h>>) = f
    OBVIOUS
  <2>6. agenda' \in Seq(Still) /\ Head(agenda').op \notin Urgent
    <3>1. CASE agenda' = <<StopFrame(p, stop)>>
      BY <2>4, <2>5, <3>1 DEF Urgent
    <3>2. CASE agenda' = <<Call("pause"), Call("cancel_all"), CallOn("close", p)>>
      <4>1. CallOn("close", p) \in Still /\ Call("pause").op = "pause"
        BY <1>1, <1>2, <2>2 DEF PlainOps
      <4>2. QED
        BY <1>1, <2>5, <3>2, <4>1 DEF Urgent
    <3>3. QED
      BY <2>1, <3>1, <3>2
  <2>7. QED
    BY <1>3, <2>1, <2>3, <2>6, OwnerMove
<1>12. QED
  BY <1>6, <1>7, <1>8, <1>9, <1>10, <1>11 DEF Operations

-----------------------------------------------------------------------------
(* What the broker does on its own is excused, and makes no report untrue.  *)
LEMMA AgreedMoves ==
  ASSUME EInv, AgreeInv, BrokerMoves
  PROVE  AgreeInv'
<1> USE NilDistinct
<1>0. /\ orders \in [IntentIds -> Order] /\ intents \in [IntentIds -> OrderIntent]
      /\ orders' \in [IntentIds -> Order]
  BY BrokerMoveStep DEF EInv, IInv, TypeOK, BrokerOK, BrokerTyped
<1>1. ASSUME NEW i \in IntentIds, MoveOf(i)
      PROVE  /\ UNCHANGED <<intents, agenda, started, reconciliation_ok>>
             /\ moved \subseteq moved' /\ i \in moved' /\ unseen' = unseen
  BY <1>1 DEF MoveOf, storeVars, orderVars, gateVars
<1>2. ASSUME UNCHANGED <<intents, agenda, started, reconciliation_ok, unseen>>, moved \subseteq moved',
             \A j \in IntentIds :
               \/ orders'[j] = orders[j]
               \/ /\ j \in moved' /\ orders[j].state \notin {Nil, "REJECTED"}
                  /\ orders'[j].state # Nil
                  /\ orders'[j].filled_units >= orders[j].filled_units
                  /\ orders'[j].state = "REJECTED" => orders'[j].filled_units = 0
      PROVE  AgreeInv'
  <2>1. \A j \in IntentIds : /\ orders[j].filled_units \in Nat /\ orders'[j].filled_units \in Nat
                             /\ intents[j].filled_units \in Nat
    BY <1>0 DEF Order, OrderIntent, Units
  <2>2. Books'
    <3>1. ASSUME NEW j \in IntentIds PROVE BooksOf(j)'
      <4>1. BooksOf(j)
        BY DEF AgreeInv, Books
      <4>2. CASE orders'[j] = orders[j]
        BY <1>2, <4>1, <4>2 DEF BooksOf, Accepted
      <4>3. CASE orders'[j] # orders[j]
        BY <1>2, <2>1, <4>1, <4>3 DEF BooksOf, Accepted
      <4>4. QED
        BY <4>2, <4>3
    <3>2. QED
      BY <3>1 DEF Books
  <2>3. Off' \subseteq Off
    BY <1>2 DEF Off, Agreed, Live, Active
  <2>4. \A j \in IntentIds : Accepted(j)' <=> Accepted(j)
    BY <1>2 DEF Accepted
  <2>5. Known' = Known
    BY <1>2, <2>4 DEF Known, Row
  <2>6. \A j : Underway(agenda, j)' <=> Underway(agenda, j)
    BY <1>2 DEF Underway, Active
  <2>7. Due' \subseteq Due
    BY <1>2, <2>3, <2>6 DEF Due
  <2>8. agenda' \in Seq(Covers(Due', Known')) /\ Once(agenda')
    BY <1>2, <2>5, <2>7, CoverStackMore DEF AgreeInv
  <2>9. Outside'
    BY <1>2, <2>3, <2>6 DEF AgreeInv, Outside, Doubted
  <2>10. Ahead(agenda)'
    <3>1. ASSUME agenda # <<>> PROVE AheadCall(Top, Rest)'
      <4>1. AheadCall(Top, Rest)
        BY <3>1 DEF AgreeInv, Ahead, Top, Rest
      <4>2. Top' = Top /\ Rest' = Rest
        BY <1>2 DEF Top, Rest
      <4>3. ASSUME Top.op = "apply"
            PROVE  /\ Told(Top.report, Top.id)'
                   /\ \/ Current(Top.report, Top.id)' \/ Top.id \in moved'
                      \/ Queried(Rest) /\ ~Head(Rest).clean
        <5>1. Top.report \in Reports /\ Top.id = Top.report.intent_id
          BY <3>1, <4>3, Topmost DEF EInv, Typed
        <5>2. PICK u \in Reports : u = Top.report
          BY <5>1
        <5>3. PICK i \in IntentIds : i = Top.id
          BY <5>1 DEF Reports, BrokerOrder
        <5>4. u.filled_units \in Nat
          BY DEF Reports, BrokerOrder, Units
        <5>5. Told(u, i)
          BY <4>1, <4>3, <5>2, <5>3 DEF AheadCall
        <5>6. \/ Current(u, i) \/ i \in moved
              \/ Queried(Rest) /\ ~Head(Rest).clean
          BY <4>1, <4>3, <5>2, <5>3 DEF AheadCall
        <5>7. Told(u, i)'
          BY <1>2, <2>1, <2>4, <5>4, <5>5 DEF Told
        <5>8. Current(u, i) => Current(u, i)' \/ i \in moved'
          BY <1>2 DEF Current, Live
        <5>9. QED
          BY <1>2, <4>2, <5>2, <5>3, <5>6, <5>7, <5>8
      <4>4. Top.op \in Urgent => Tried(Top, Rest)' \/ (Top.op = "apply" /\ Queried(Rest))
        BY <1>2, <4>1, <4>2 DEF AheadCall, Tried
      <4>5. QED
        BY <4>2, <4>3, <4>4 DEF AheadCall, Queried
    <3>2. QED
      BY <1>2, <3>1 DEF Ahead, Top, Rest
  <2>11. QED
    BY <2>2, <2>8, <2>9, <2>10 DEF AgreeInv
<1>3. ASSUME NEW i \in IntentIds, NEW n \in Units, NEW protected \in Protection,
             BrokerFills(i, n, protected)
      PROVE  AgreeInv'
  <2>1. /\ n > orders[i].filled_units /\ MoveOf(i)
        /\ orders[i].state \notin {Nil, "REJECTED"}
        /\ orders' = [orders EXCEPT ![i] = [state |-> FillState(intents[i].units, n),
                                            filled_units |-> n, protected |-> protected]]
    <3>1. orders[i].filled_units \in Nat /\ intents[i].units \in Nat /\ n \in Nat
      BY <1>0 DEF Order, OrderIntent, Units
    <3>2. orders[i].state \notin {Nil, "REJECTED"}
      BY <1>3 DEF BrokerFills, Live, OrderState, ACTIVE_STATES, TERMINAL_STATES
    <3>3. QED
      BY <1>3, <3>1, <3>2 DEF BrokerFills
  <2>2. FillState(intents[i].units, n) \notin {Nil, "REJECTED"}
    BY DEF FillState, OrderState, ACTIVE_STATES, TERMINAL_STATES
  <2>3. /\ orders'[i].state = FillState(intents[i].units, n) /\ orders'[i].filled_units = n
        /\ \A j \in IntentIds : j # i => orders'[j] = orders[j]
    BY <1>0, <2>1
  <2>4. n >= orders[i].filled_units
    BY <1>0, <2>1 DEF Order, Units
  <2>5. QED
    BY <1>1, <1>2, <2>1, <2>2, <2>3, <2>4
<1>4. ASSUME NEW i \in IntentIds, NEW state \in {"CANCELLED", "EXPIRED", "REJECTED"},
             BrokerEnds(i, state)
      PROVE  AgreeInv'
  <2>1. /\ orders' = [orders EXCEPT ![i].state = state] /\ MoveOf(i)
        /\ state = "REJECTED" => orders[i].filled_units = 0
        /\ orders[i].state \notin {Nil, "REJECTED"}
    BY <1>4 DEF BrokerEnds, Live, OrderState, ACTIVE_STATES
  <2>2. /\ orders'[i].state = state /\ orders'[i].filled_units = orders[i].filled_units
        /\ \A j \in IntentIds : j # i => orders'[j] = orders[j]
    BY <1>0, <2>1 DEF Order
  <2>3. state # Nil /\ orders[i].filled_units >= orders[i].filled_units
    BY <1>0 DEF OrderState, TERMINAL_STATES, Order, Units
  <2>4. QED
    BY <1>1, <1>2, <2>1, <2>2, <2>3
<1>5. ASSUME NEW s \in Symbols, StopOut(s) PROVE AgreeInv'
  <2>1. MoveOf(s) /\ orders' = orders /\ s \in IntentIds
    BY <1>5 DEF StopOut, IntentIds
  <2>2. QED
    BY <1>1, <1>2, <2>1
<1>6. QED
  BY <1>3, <1>4, <1>5 DEF BrokerMoves

-----------------------------------------------------------------------------
(* Nothing is off at the start.                                            *)
LEMMA AgreedInit == Init => AgreeInv
<1>1. SUFFICES ASSUME Init PROVE AgreeInv
  OBVIOUS
<1>2. /\ agenda = <<>> /\ ~started /\ orders = [i \in IntentIds |-> NoOrder]
      /\ intents = [i \in IntentIds |-> NoIntent]
  BY <1>1 DEF Init, StoreInit
<1>3. Books
  BY <1>2, NilDistinct DEF Books, BooksOf, NoOrder, NoIntent, OrderState, TERMINAL_STATES,
     ACTIVE_STATES, Accepted
<1>4. agenda \in Seq(Covers(Due, Known)) /\ Once(agenda) /\ Ahead(agenda)
  <2>1. agenda \in Seq(Covers(Due, Known)) /\ ~Reconciling(agenda)
    BY <1>2 DEF Reconciling
  <2>2. QED
    BY <1>2, <2>1, OnceNone DEF Ahead
<1>5. QED
  BY <1>2, <1>3, <1>4 DEF AgreeInv, Outside

(* Every step keeps what the reconciliation is worth.                      *)
LEMMA AgreedNext ==
  ASSUME EInv, GateInv, ExposureInv, AgreeInv, [Next]_vars
  PROVE  AgreeInv'
<1>0. EInv'
  BY EInvNext
<1>1. CASE UNCHANGED vars
  <2>1. UNCHANGED <<intents, orders, moved, unseen, agenda, started, reconciliation_ok>>
    BY <1>1 DEF vars, storeVars, orderVars, gateVars, brokerVars
  <2>2. Off' = Off /\ Known' = Known
    BY <2>1 DEF Off, Agreed, Live, Active, Known, Row, Accepted
  <2>3. Due' = Due
    BY <2>1, <2>2 DEF Due, Underway, Active
  <2>4. Outside'
    BY <2>1, <2>2 DEF AgreeInv, Outside, Doubted, Underway, Active
  <2>5. Books'
    BY <2>1 DEF AgreeInv, Books, BooksOf, Accepted
  <2>6. Ahead(agenda)'
    BY <2>1 DEF AgreeInv, Ahead, AheadCall, Tried, Told, Current, Queried, Accepted, Live
  <2>7. QED
    BY <2>1, <2>2, <2>3, <2>4, <2>5, <2>6 DEF AgreeInv
<1>2. CASE Operations
  BY <1>2, AgreedOwner
<1>3. CASE BrokerMoves
  BY <1>3, AgreedMoves
<1>4. CASE Release \/ Crash
  BY <1>4, AgreedEnded
<1>5. CASE PauseCall \/ UnreconciledCall
  BY <1>5, AgreedBlocked
<1>6. CASE ToUnknown
  BY <1>6, AgreedUnknown
<1>7. CASE \/ SetProtectionCall \/ EndIncident \/ LoopEnds("recover") \/ LoopEnds("cancel")
           \/ LoopEnds("flatten") \/ Reject \/ CloseNothing \/ CloseBlocked \/ CloseAfterCancel
           \/ CloseStillPending \/ CloseRefused \/ ConfirmFlat
  BY <1>7, AgreedReturns
<1>8. CASE \/ Recover \/ QueryFailed \/ CancelAll \/ CancelUnsent \/ FlattenAll \/ FlattenNext
  BY <1>8, AgreedLoops
<1>9. CASE ReconcileAll \/ QueryUnseen
  BY <1>9, AgreedReconcile, AgreedUnseen
<1>10. CASE CancelSent
  BY <1>10, AgreedCancelSent
<1>11. CASE Prepare \/ Submit \/ SendRefused \/ CloseCreate \/ CloseRecheck
  BY <1>11, AgreedCalls
<1>12. CASE SendAccepted \/ SendFailed \/ AskCancel \/ AskCancelFailed \/ ApplyRefused
  BY <1>0, <1>12, AgreedBroker
<1>13. CASE QueryAnswered
  BY <1>13, AgreedQuery
<1>14. CASE ApplyReport
  BY <1>14, AgreedApply
<1>15. CASE ReconcileEnds
  BY <1>15, AgreedEnds
<1>16. QED
  BY <1>1, <1>2, <1>3, <1>4, <1>5, <1>6, <1>7, <1>8, <1>9, <1>10, <1>11, <1>12, <1>13, <1>14, <1>15
     DEF Next, ExecutorSteps

(* While reconciliation_ok stands, the store and the broker agree about     *)
(* every order that the last reconcile() was shown, or had no row for, and   *)
(* the broker did not change since it began: same fills, and no order that  *)
(* may still fill is taken for finished (engine.py reconcile, _apply, _send, *)
(* cancel_pending_entries).                                                *)
THEOREM ReconciledIsAgreed == Spec => []ReconciledMeansAgreed
<1>1. EInv /\ GateInv /\ ExposureInv /\ AgreeInv /\ [Next]_vars => AgreeInv'
  BY AgreedNext
<1>2. EInv /\ GateInv /\ [Next]_vars => GateInv'
  BY EInvNext, GateNext
<1>3. EInv /\ ExposureInv /\ [Next]_vars => ExposureInv'
  BY ExposureNext
<1>4. AgreeInv => ReconciledMeansAgreed
  <2>1. SUFFICES ASSUME AgreeInv, Idle, reconciliation_ok
                 PROVE  \A i \in IntentIds \ (moved \cup unseen) :
                          /\ intents[i].filled_units = orders[i].filled_units
                          /\ Live(i) => Active(i)
    BY DEF ReconciledMeansAgreed
  <2>2. ~Reconciling(agenda) /\ ~Doubted(agenda) /\ \A i : ~Underway(agenda, i)
    BY <2>1 DEF Idle, Reconciling, Doubted, Underway
  <2>3. Off = {}
    BY <2>1, <2>2 DEF AgreeInv, Outside, Idle, Off
  <2>4. QED
    BY <2>3 DEF Off, Agreed
<1>5. QED
  BY <1>1, <1>2, <1>3, <1>4, AgreedInit, GateInit, ExposureInit, ExecutorInvariant, PTL DEF Spec

-----------------------------------------------------------------------------
(* What the broker holds, what its orders filled and what the books say of  *)
(* both.                                                                   *)

(* The broker moves an entry and its position together.                    *)
Paired == \A s \in Symbols : s \in moved => PositionOf[s] \in moved

(* It holds no more than the entry bought and the close did not sell, and   *)
(* nothing else.                                                           *)
Holdings ==
  /\ \A s \in Symbols :
       held[PositionOf[s]] + orders[PositionOf[s]].filled_units <= orders[s].filled_units
  /\ \A p \in PositionIds : (\A s \in Symbols : PositionOf[s] # p) => held[p] = 0

(* The books of a position are those of its entry and its close, and it     *)
(* belongs to no other entry.                                              *)
Ledger ==
  /\ \A s \in Symbols :
       positions[PositionOf[s]].units + intents[PositionOf[s]].filled_units
         = intents[s].filled_units
  /\ \A p \in PositionIds, s \in Symbols : positions[p].owner_intent_id = s => p = PositionOf[s]

FlatInv == Paired /\ Holdings /\ Ledger

(* The types the arithmetic needs.                                         *)
LEMMA FlatTypes ==
  ASSUME EInv
  PROVE  /\ Symbols \subseteq IntentIds /\ PositionIds \subseteq IntentIds
         /\ \A s \in Symbols : s \notin PositionIds /\ PositionOf[s] \in PositionIds
         /\ \A i \in IntentIds : /\ orders[i].filled_units \in Nat
                                 /\ intents[i].filled_units \in Nat
         /\ \A p \in PositionIds : held[p] \in Nat /\ positions[p].units \in Nat
         /\ orders \in [IntentIds -> Order] /\ held \in [PositionIds -> Units]
         /\ intents \in [IntentIds -> OrderIntent] /\ positions \in [PositionIds -> Position]
<1>1. /\ orders \in [IntentIds -> Order] /\ held \in [PositionIds -> Units]
      /\ intents \in [IntentIds -> OrderIntent] /\ positions \in [PositionIds -> Position]
  BY DEF EInv, IInv, TypeOK, BrokerOK, BrokerTyped
<1>2. \A i \in IntentIds : orders[i].filled_units \in Nat /\ intents[i].filled_units \in Nat
  BY <1>1 DEF Order, OrderIntent, Units
<1>3. \A p \in PositionIds : held[p] \in Nat /\ positions[p].units \in Nat
  BY <1>1 DEF Position, Units
<1>4. \A s \in Symbols : s \notin PositionIds /\ PositionOf[s] \in PositionIds
  BY ExecutorAssumption, NilDistinct
<1>5. QED
  BY <1>1, <1>2, <1>3, <1>4 DEF IntentIds

-----------------------------------------------------------------------------
(* The books.                                                              *)

(* No units are booked, and no position gets an owner.                     *)
Unbooked ==
  /\ \A i \in IntentIds : intents'[i].filled_units = intents[i].filled_units
  /\ \A p \in PositionIds : /\ positions'[p].units = positions[p].units
                            /\ positions'[p].owner_intent_id = positions[p].owner_intent_id

(* The calls of the store but the booking of a report book no units.       *)
LEMMA UnbookedCalls ==
  ASSUME EInv, Books
  PROVE  /\ UNCHANGED <<intents, positions>> => Unbooked
         /\ \A s \in Symbols, n \in Units, stop \in StopPrices : CreateEntry(s, n, stop) => Unbooked
         /\ \A p \in PositionIds : \A n : CreateClose(p, n) => Unbooked
         /\ \A i \in IntentIds : \A state : Transition(i, state) => Unbooked
         /\ \A p \in PositionIds : \A stop : SetProtection(p, stop, TRUE) => Unbooked
<1>1. UNCHANGED <<intents, positions>> => Unbooked
  BY DEF Unbooked
<1>2. ASSUME NEW i \in IntentIds, NEW n, NEW stop, ~Row(i), UNCHANGED positions,
             intents' = [intents EXCEPT ![i] = NewIntent(n, stop)]
      PROVE  Unbooked
  <2>1. intents[i].filled_units = 0
    BY <1>2, NeverAccepted DEF Row, Unsent
  <2>2. intents'[i].filled_units = 0 /\ \A j \in IntentIds : j # i => intents'[j] = intents[j]
    BY <1>2, FlatTypes DEF NewIntent
  <2>3. QED
    BY <1>2, <2>1, <2>2 DEF Unbooked
<1>3. ASSUME NEW i \in IntentIds, NEW state, Transition(i, state) PROVE Unbooked
  <2>1. intents' = [intents EXCEPT ![i].state = state] /\ UNCHANGED positions
    BY <1>3 DEF Transition, bookVars
  <2>2. QED
    BY <2>1, FlatTypes DEF Unbooked, OrderIntent
<1>4. ASSUME NEW p \in PositionIds, NEW stop, SetProtection(p, stop, TRUE) PROVE Unbooked
  <2>1. /\ UNCHANGED intents
        /\ positions' = [positions EXCEPT ![p].stop_price = stop, ![p].protected = TRUE]
    BY <1>4 DEF SetProtection, orderVars
  <2>2. QED
    BY <2>1, FlatTypes DEF Unbooked, Position
<1>5. Symbols \subseteq IntentIds /\ PositionIds \subseteq IntentIds
  BY FlatTypes
<1>6. QED
  BY <1>1, <1>2, <1>3, <1>4, <1>5 DEF CreateEntry, CreateClose, bookVars

(* No units, no change of the ledger.                                      *)
LEMMA UnbookedLedger ==
  ASSUME EInv, Ledger, Unbooked
  PROVE  Ledger'
BY FlatTypes DEF Ledger, Unbooked

(* A report about the position its broker opened for the order keeps it.    *)
LEMMA BookedLedger ==
  ASSUME EInv, Ledger, NEW u \in Reports, ApplyBrokerOrder(u, clock),
         u.filled_units > 0 => u.position_id = PositionOfIntent(u.intent_id)
  PROVE  Ledger'
<1>1. PICK i \in IntentIds : i = u.intent_id
  BY DEF Reports, BrokerOrder
<1>2. u \in ReportsOf[i] /\ IInv /\ Commits(u, clock)
  BY <1>1 DEF ReportsOf, EInv, ApplyBrokerOrder
<1>3. /\ Delta(u) = u.filled_units - intents[i].filled_units /\ Delta(u) \in Int
      /\ intents[i].filled_units \in Nat /\ u.filled_units \in Nat /\ Delta(u) >= 0
  <2>1. /\ Delta(u) = u.filled_units - intents[i].filled_units /\ Delta(u) \in Int
        /\ intents[i].filled_units \in Nat /\ u.filled_units \in Units
    BY <1>2, DeltaTyped, FlatTypes, ReportFields
  <2>2. u.filled_units \in intents[i].filled_units..intents[i].units
    BY <1>1, <1>2 DEF Commits, ReportAccepted, QuantityAccepted
  <2>3. QED
    BY <2>1, <2>2 DEF Units
<1>4. /\ intents'[i].filled_units = intents[i].filled_units + Delta(u)
      /\ \A j \in IntentIds : j # i => intents'[j] = intents[j]
  <2>1. intents' = [intents EXCEPT ![i] = Updated(u)]
    BY <1>1 DEF ApplyBrokerOrder
  <2>2. intents'[i].filled_units = u.filled_units
    BY <2>1, FlatTypes DEF Updated
  <2>3. QED
    BY <1>3, <2>1, <2>2, FlatTypes
<1>5. ASSUME NEW p \in PositionIds
      PROVE  \/ /\ positions'[p].units = positions[p].units /\ (Delta(u) = 0 \/ p # u.position_id)
                /\ positions'[p].owner_intent_id = positions[p].owner_intent_id
             \/ /\ Delta(u) > 0 /\ p = u.position_id /\ i \in Symbols
                /\ positions'[p].units = positions[p].units + Delta(u)
                /\ positions'[p].owner_intent_id = i
             \/ /\ Delta(u) > 0 /\ p = u.position_id /\ p = i
                /\ positions'[p].units = positions[p].units - Delta(u)
                /\ positions'[p].owner_intent_id = positions[p].owner_intent_id
  <2>1. /\ positions'[p].units = Booked(u)[p].units
        /\ positions'[p].owner_intent_id = Booked(u)[p].owner_intent_id
    BY <1>2, ObservedPositions DEF ApplyBrokerOrder
  <2>2. QED
    BY <1>2, <2>1, BookedPositions
<1>6. Delta(u) > 0 => u.position_id = IF i \in Symbols THEN PositionOf[i] ELSE i
  BY <1>1, <1>3 DEF PositionOfIntent, Kind
<1>7. ASSUME NEW s \in Symbols
      PROVE  positions'[PositionOf[s]].units + intents'[PositionOf[s]].filled_units
               = intents'[s].filled_units
  <2>1. PICK p \in PositionIds : p = PositionOf[s]
    BY FlatTypes
  <2>2. /\ p \in IntentIds /\ s \in IntentIds /\ s # p
        /\ positions[p].units \in Nat /\ intents[p].filled_units \in Nat
        /\ intents[s].filled_units \in Nat
    BY FlatTypes
  <2>3. positions[p].units + intents[p].filled_units = intents[s].filled_units
    BY <2>1 DEF Ledger
  <2>4. i \in Symbols /\ i # s => PositionOf[i] # p
    BY <2>1, ExecutorAssumption
  <2>5. i \in Symbols => i # p
    BY FlatTypes
  <2>6. CASE Delta(u) = 0
    <3>1. intents'[i].filled_units = intents[i].filled_units
      BY <1>3, <1>4, <2>6
    <3>2. intents'[p].filled_units = intents[p].filled_units
      BY <1>4, <2>2, <3>1
    <3>3. intents'[s].filled_units = intents[s].filled_units
      BY <1>4, <2>2, <3>1
    <3>4. positions'[p].units = positions[p].units
      BY <1>5, <2>6
    <3>5. QED
      BY <2>1, <2>3, <3>2, <3>3, <3>4
  <2>7. CASE Delta(u) # 0 /\ i = s
    <3>1. Delta(u) > 0 /\ p = u.position_id /\ i # p
      BY <1>3, <1>6, <2>1, <2>2, <2>7
    <3>2. positions'[p].units = positions[p].units + Delta(u)
      BY <1>5, <3>1
    <3>3. QED
      BY <1>3, <1>4, <2>1, <2>2, <2>3, <2>7, <3>1, <3>2
  <2>8. CASE Delta(u) # 0 /\ i = p
    <3>1. Delta(u) > 0 /\ p = u.position_id /\ i \notin Symbols /\ s # i
      BY <1>3, <1>6, <2>2, <2>5, <2>8
    <3>2. positions'[p].units = positions[p].units - Delta(u)
      BY <1>5, <3>1
    <3>3. QED
      BY <1>3, <1>4, <2>1, <2>2, <2>3, <2>8, <3>1, <3>2
  <2>9. CASE Delta(u) # 0 /\ i # s /\ i # p
    <3>1. Delta(u) > 0 /\ p # u.position_id
      BY <1>3, <1>6, <2>4, <2>9
    <3>2. positions'[p].units = positions[p].units
      BY <1>5, <3>1
    <3>3. QED
      BY <1>4, <2>1, <2>2, <2>3, <2>9, <3>2
  <2>10. QED
    BY <2>6, <2>7, <2>8, <2>9
<1>8. ASSUME NEW p \in PositionIds, NEW s \in Symbols, positions'[p].owner_intent_id = s
      PROVE  p = PositionOf[s]
  <2>1. CASE positions'[p].owner_intent_id = positions[p].owner_intent_id
    BY <1>8, <2>1 DEF Ledger
  <2>2. CASE positions'[p].owner_intent_id # positions[p].owner_intent_id
    <3>1. Delta(u) > 0 /\ p = u.position_id /\ i \in Symbols /\ positions'[p].owner_intent_id = i
      BY <1>5, <2>2
    <3>2. QED
      BY <1>6, <1>8, <3>1
  <2>3. QED
    BY <2>1, <2>2
<1>9. QED
  BY <1>7, <1>8 DEF Ledger

(* Every step keeps the ledger.                                            *)
LEMMA LedgerNext ==
  ASSUME EInv, AgreeInv, Ledger, [Next]_vars
  PROVE  Ledger'
<1>0. Books
  BY DEF AgreeInv
<1>1. ASSUME Unbooked PROVE Ledger'
  BY <1>1, UnbookedLedger
<1>2. UNCHANGED <<intents, positions>> => Unbooked
  BY <1>0, UnbookedCalls
<1>3. ASSUME NEW i \in IntentIds, NEW state, Transition(i, state) PROVE Ledger'
  BY <1>0, <1>1, <1>3, UnbookedCalls
<1>4. ASSUME NEW s \in Symbols, NEW n \in Units, NEW stop \in StopPrices, CreateEntry(s, n, stop)
      PROVE  Ledger'
  BY <1>0, <1>1, <1>4, UnbookedCalls
<1>5. CASE Operations
  <2>1. CASE \E s \in Symbols, n \in Units, stop \in StopPrices : SubmitEntry(s, n, stop)
    BY <1>4, <2>1 DEF SubmitEntry
  <2>2. CASE UNCHANGED <<intents, positions>>
    BY <1>1, <1>2, <2>2
  <2>3. QED
    BY <1>5, <2>1, <2>2 DEF Operations, Enter, ArmOffline, Operation, FlattenOwned,
       TightenStop, Exit, Pause, Internal, storeVars, orderVars, bookVars
<1>6. CASE BrokerMoves \/ Crash \/ UNCHANGED vars
  BY <1>1, <1>2, <1>6 DEF BrokerMoves, BrokerFills, BrokerEnds, StopOut, MoveOf, Crash, vars,
     storeVars, orderVars, bookVars
<1>7. CASE \/ PauseCall \/ UnreconciledCall \/ Release
           \/ EndIncident \/ LoopEnds("recover") \/ LoopEnds("cancel") \/ LoopEnds("flatten")
           \/ ReconcileEnds \/ CloseNothing \/ CloseBlocked \/ CloseAfterCancel
           \/ CloseStillPending \/ ConfirmFlat \/ ReconcileAll \/ QueryFailed \/ CancelAll
           \/ FlattenAll \/ FlattenNext
  BY <1>1, <1>2, <1>7 DEF PauseCall, UnreconciledCall, Release, EndIncident, LoopEnds,
     ReconcileEnds, CloseNothing, CloseBlocked, CloseAfterCancel, CloseStillPending, ConfirmFlat,
     ReconcileAll, QueryFailed, CancelAll, FlattenAll, FlattenNext, Pause, SetReconciliation,
     Internal, storeVars, orderVars, bookVars
<1>8. CASE \/ SendRefused \/ ApplyRefused \/ QueryAnswered \/ AskCancelFailed \/ CloseRefused
           \/ Prepare \/ SendAccepted \/ SendFailed \/ AskCancel
  BY <1>1, <1>2, <1>8 DEF SendRefused, ApplyRefused, QueryAnswered, AskCancelFailed, CloseRefused,
     Prepare, SendAccepted, SendFailed, AskCancel, Internal, storeVars, orderVars, bookVars
<1>9. CASE SetProtectionCall
  <2>1. Running("set_protection") /\ SetProtection(Top.id, Top.report, TRUE)
    BY <1>9 DEF SetProtectionCall
  <2>2. Top.id \in PositionIds
    BY <2>1, TopCall DEF Typed
  <2>3. QED
    BY <1>0, <1>1, <2>1, <2>2, UnbookedCalls
<1>10. CASE ToUnknown \/ Reject \/ Submit
  <2>1. /\ Running("to_unknown") \/ Running("reject") \/ Running("submit")
        /\ (\E state : Transition(Top.id, state)) \/ UNCHANGED <<intents, positions>>
    BY <1>10 DEF ToUnknown, Reject, Submit, Internal, storeVars, orderVars, bookVars
  <2>2. Top.id \in IntentIds
    BY <2>1, TopCall DEF Typed, IntentOps
  <2>3. QED
    BY <1>1, <1>2, <1>3, <2>1, <2>2
<1>11. CASE Recover \/ QueryUnseen \/ CancelUnsent \/ CancelSent
  <2>1. /\ Running("recover") \/ Running("reconcile") \/ Running("cancel")
        /\ \/ \E e \in Top.todo : \E state : Transition(e.id, state)
           \/ UNCHANGED <<intents, positions>>
    BY <1>11 DEF Recover, QueryUnseen, CancelUnsent, CancelSent, Internal, storeVars, orderVars,
       bookVars
  <2>2. \A e \in Top.todo : e.id \in IntentIds
    BY <2>1, TopCall DEF Typed, Entries, PendingEntries, IntentIds
  <2>3. QED
    BY <1>1, <1>2, <1>3, <2>1, <2>2
<1>12. CASE ApplyReport
  <2>1. Running("apply") /\ ApplyBrokerOrder(Top.report, clock)
    BY <1>12 DEF ApplyReport
  <2>2. /\ Top.report \in Reports /\ Top.id = Top.report.intent_id /\ agenda # <<>>
    BY <2>1, TopCall DEF Typed
  <2>3. Told(Top.report, Top.id)
    BY <2>1, <2>2 DEF AgreeInv, Ahead, AheadCall, Running, Top, Rest
  <2>4. QED
    BY <2>1, <2>2, <2>3, BookedLedger DEF Told
<1>13. CASE CloseCreate \/ CloseRecheck
  <2>1. CASE CreateCloseOf(Top.id)
    <3>1. Top.id \in PositionIds /\ CreateClose(Top.id, positions[Top.id].units)
      BY <1>13, <2>1, CloseCreateStep DEF CloseCreate, CloseRecheck
    <3>2. QED
      BY <1>0, <1>1, <3>1, UnbookedCalls
  <2>2. CASE Internal
    BY <1>1, <1>2, <2>2 DEF Internal, storeVars, orderVars, bookVars
  <2>3. QED
    BY <1>13, <2>1, <2>2 DEF CloseCreate, CloseRecheck
<1>14. QED
  BY <1>5, <1>6, <1>7, <1>8, <1>9, <1>10, <1>11, <1>12, <1>13 DEF Next, ExecutorSteps

-----------------------------------------------------------------------------
(* The broker.                                                             *)

(* Nothing fills and nothing is sold.                                      *)
LEMMA HoldingsStay ==
  ASSUME EInv, Holdings, held' = held,
         \A i \in IntentIds : orders'[i].filled_units = orders[i].filled_units
  PROVE  Holdings'
BY FlatTypes DEF Holdings

(* An order fills: what it buys is held, what it sells is not held any more. *)
LEMMA HoldingsFilled ==
  ASSUME EInv, Holdings, NEW i \in IntentIds, NEW n \in Nat,
         orders'[i].filled_units = orders[i].filled_units + n,
         \A j \in IntentIds : j # i => orders'[j] = orders[j],
         CanFill(i, n), held' = HeldAfter(i, n)
  PROVE  Holdings'
<1> DEFINE P == PositionOfIntent(i)
<1>1. /\ P \in PositionIds /\ held'[P] = IF i \in Symbols THEN held[P] + n ELSE held[P] - n
      /\ \A p \in PositionIds : p # P => held'[p] = held[p]
      /\ P = IF i \in Symbols THEN PositionOf[i] ELSE i
  <2>1. P \in PositionIds /\ P = IF i \in Symbols THEN PositionOf[i] ELSE i
    BY FlatTypes DEF PositionOfIntent, Kind, IntentIds
  <2>2. QED
    BY <2>1, FlatTypes DEF HeldAfter, Kind
<1>2. i \notin Symbols => n <= held[i]
  BY DEF CanFill, Kind
<1> HIDE DEF P
<1>3. ASSUME NEW s \in Symbols
      PROVE  held'[PositionOf[s]] + orders'[PositionOf[s]].filled_units <= orders'[s].filled_units
  <2>1. PICK p \in PositionIds : p = PositionOf[s]
    BY FlatTypes
  <2>2. /\ p \in IntentIds /\ s \in IntentIds /\ s # p /\ held[p] \in Nat
        /\ orders[p].filled_units \in Nat /\ orders[s].filled_units \in Nat
    BY FlatTypes
  <2>3. held[p] + orders[p].filled_units <= orders[s].filled_units
    BY <2>1 DEF Holdings
  <2>4. CASE i = s
    <3>1. held'[p] = held[p] + n /\ orders'[p] = orders[p]
      BY <1>1, <2>1, <2>2, <2>4
    <3>2. QED
      BY <2>1, <2>2, <2>3, <2>4, <3>1
  <2>5. CASE i = p
    <3>1. i \notin Symbols
      BY <2>5, FlatTypes
    <3>2. held'[p] = held[p] - n /\ orders'[s] = orders[s]
      BY <1>1, <2>2, <2>5, <3>1
    <3>3. QED
      BY <2>1, <2>2, <2>3, <2>5, <3>2
  <2>6. CASE i # s /\ i # p
    <3>1. P # p
      BY <1>1, <2>1, <2>6, ExecutorAssumption
    <3>2. held'[p] = held[p] /\ orders'[s] = orders[s] /\ orders'[p] = orders[p]
      BY <1>1, <2>2, <2>6, <3>1
    <3>3. QED
      BY <2>1, <2>3, <3>2
  <2>7. QED
    BY <2>4, <2>5, <2>6
<1>4. ASSUME NEW p \in PositionIds, \A s \in Symbols : PositionOf[s] # p
      PROVE  held'[p] = 0
  <2>1. held[p] = 0
    BY <1>4 DEF Holdings
  <2>2. CASE p # P
    BY <1>1, <2>1, <2>2
  <2>3. CASE p = P
    <3>1. i \notin Symbols /\ i = p
      BY <1>1, <1>4, <2>3
    <3>2. n = 0
      BY <1>2, <2>1, <3>1
    <3>3. QED
      BY <1>1, <2>1, <2>3, <3>1, <3>2
  <2>4. QED
    BY <2>2, <2>3
<1>5. QED
  BY <1>3, <1>4 DEF Holdings

(* Only two calls of the executor make the broker do anything.             *)
LEMMA StillOrders ==
  ASSUME ExecutorSteps, ~SendAccepted, ~AskCancel
  PROVE  /\ UNCHANGED <<orders, held>>
         /\ moved' = moved \/ moved' = {}
<1>1. CASE \/ PauseCall \/ UnreconciledCall \/ ToUnknown \/ SetProtectionCall \/ Release
           \/ EndIncident \/ LoopEnds("recover") \/ LoopEnds("cancel") \/ LoopEnds("flatten")
           \/ Recover \/ Prepare \/ Submit \/ Reject \/ SendRefused \/ SendFailed
  BY <1>1 DEF PauseCall, UnreconciledCall, ToUnknown, SetProtectionCall, Release, EndIncident,
     LoopEnds, Recover, Prepare, Submit, Reject, SendRefused, SendFailed, Internal, Local, brokerVars
<1>2. CASE \/ ApplyReport \/ ApplyRefused \/ ReconcileAll \/ QueryAnswered \/ QueryUnseen
           \/ QueryFailed \/ ReconcileEnds \/ CancelAll \/ CancelUnsent \/ CancelSent
           \/ AskCancelFailed
  BY <1>2 DEF ApplyReport, ApplyRefused, ReconcileAll, QueryAnswered, QueryUnseen, QueryFailed,
     ReconcileEnds, CancelAll, CancelUnsent, CancelSent, AskCancelFailed, Internal, Local, brokerVars
<1>3. CASE \/ CloseNothing \/ CloseBlocked \/ CloseAfterCancel \/ CloseCreate
           \/ CloseStillPending \/ CloseRefused \/ CloseRecheck
           \/ FlattenAll \/ FlattenNext \/ ConfirmFlat
  BY <1>3 DEF CloseNothing, CloseBlocked, CloseAfterCancel, CloseCreate, CloseStillPending,
     CloseRefused, CloseRecheck, CreateCloseOf, FlattenAll, FlattenNext, ConfirmFlat, Internal,
     Local, brokerVars
<1>4. QED
  BY <1>1, <1>2, <1>3 DEF ExecutorSteps

(* Every step keeps what the broker holds within what its orders filled.   *)
LEMMA HoldingsNext ==
  ASSUME EInv, Holdings, [Next]_vars
  PROVE  Holdings'
<1>1. ASSUME UNCHANGED <<orders, held>> PROVE Holdings'
  BY <1>1, HoldingsStay
<1>2. ASSUME NEW p \in OpenPositions, NEW stop \in StopPrices, TightenStop(p, stop) PROVE Holdings'
  <2>1. /\ held' = held
        /\ orders' \in {orders, [orders EXCEPT ![positions[p].owner_intent_id].protected = TRUE]}
    BY <1>2 DEF TightenStop
  <2>2. \A i \in IntentIds : orders'[i].filled_units = orders[i].filled_units
    BY <2>1, FlatTypes DEF Order
  <2>3. QED
    BY <2>1, <2>2, HoldingsStay
<1>3. CASE SendAccepted
  <2>1. /\ Running("send") /\ Top.id \in IntentIds
    BY <1>3, TopCall DEF SendAccepted, Typed, IntentOps
  <2>2. PICK i \in IntentIds : i = Top.id
    BY <2>1
  <2>3. PICK n \in IF Etoro THEN {0} ELSE 0..intents[i].units, protected \in Protection :
          /\ CanFill(i, n) /\ held' = HeldAfter(i, n)
          /\ orders' = [orders EXCEPT ![i] =
                          [state |-> FillState(intents[i].units, n), filled_units |-> n,
                           protected |-> protected]]
    BY <1>3, <2>2 DEF SendAccepted
  <2>4. n \in Nat
    BY FlatTypes DEF OrderIntent, Units
  <2>5. orders[i].filled_units = 0
    <3>1. dispatched[i] = 0
      BY <2>1, <2>2 DEF Running, EInv, Ready, ReadyCall, Top
    <3>2. QED
      BY <3>1 DEF EInv, BrokerOK, BrokerOrders
  <2>6. /\ orders'[i].filled_units = n /\ \A j \in IntentIds : j # i => orders'[j] = orders[j]
    BY <2>3, FlatTypes
  <2>7. QED
    BY <2>3, <2>4, <2>5, <2>6, HoldingsFilled
<1>4. CASE AskCancel
  <2>1. Running("ask_cancel") /\ Accepted(Top.id) /\ held' = held /\ Top.id \in IntentIds
    BY <1>4, TopCall DEF AskCancel, Typed, IntentIds
  <2>2. PICK i \in IntentIds : i = Top.id
    BY <2>1
  <2>3. PICK outcome \in CancelOutcomes(orders[i]) : orders' = [orders EXCEPT ![i] = outcome.order]
    BY <1>4, <2>2 DEF AskCancel
  <2>4. outcome.order.filled_units = orders[i].filled_units
    BY <2>1, <2>2, FlatTypes, CancelAnswer DEF Accepted
  <2>5. \A j \in IntentIds : orders'[j].filled_units = orders[j].filled_units
    BY <2>3, <2>4, FlatTypes
  <2>6. QED
    BY <2>1, <2>5, HoldingsStay
<1>5. ASSUME NEW i \in IntentIds, NEW n \in Units, NEW protected \in Protection,
             BrokerFills(i, n, protected)
      PROVE  Holdings'
  <2>1. /\ n \in (orders[i].filled_units + 1)..intents[i].units
        /\ CanFill(i, n - orders[i].filled_units) /\ held' = HeldAfter(i, n - orders[i].filled_units)
        /\ orders' = [orders EXCEPT ![i] = [state |-> FillState(intents[i].units, n),
                                            filled_units |-> n, protected |-> protected]]
    BY <1>5 DEF BrokerFills
  <2>2. orders[i].filled_units \in Nat /\ n \in Nat
    BY FlatTypes DEF Units
  <2>3. PICK d : d = n - orders[i].filled_units
    OBVIOUS
  <2>4. d \in Nat /\ n = orders[i].filled_units + d
    BY <2>1, <2>2, <2>3
  <2>5. orders'[i].filled_units = n /\ \A j \in IntentIds : j # i => orders'[j] = orders[j]
    BY <2>1, FlatTypes
  <2>6. QED
    BY <2>1, <2>3, <2>4, <2>5, HoldingsFilled
<1>6. ASSUME NEW i \in IntentIds, NEW state, BrokerEnds(i, state) PROVE Holdings'
  <2>1. held' = held /\ orders' = [orders EXCEPT ![i].state = state]
    BY <1>6 DEF BrokerEnds
  <2>2. \A j \in IntentIds : orders'[j].filled_units = orders[j].filled_units
    BY <2>1, FlatTypes DEF Order
  <2>3. QED
    BY <2>1, <2>2, HoldingsStay
<1>7. ASSUME NEW s \in Symbols, StopOut(s) PROVE Holdings'
  <2>1. orders' = orders /\ held' = [held EXCEPT ![PositionOf[s]] = 0]
    BY <1>7 DEF StopOut
  <2>2. ASSUME NEW p \in PositionIds PROVE held'[p] \in {0, held[p]}
    BY <2>1, FlatTypes
  <2>3. ASSUME NEW t \in Symbols
        PROVE  held'[PositionOf[t]] + orders'[PositionOf[t]].filled_units <= orders'[t].filled_units
    <3>1. PICK p \in PositionIds : p = PositionOf[t]
      BY FlatTypes
    <3>2. held[p] + orders[p].filled_units <= orders[t].filled_units
      BY <3>1 DEF Holdings
    <3>3. held[p] \in Nat /\ orders[p].filled_units \in Nat /\ orders[t].filled_units \in Nat
      BY FlatTypes
    <3>4. held'[p] = 0 \/ held'[p] = held[p]
      BY <2>2
    <3>5. QED
      BY <2>1, <3>1, <3>2, <3>3, <3>4
  <2>4. ASSUME NEW p \in PositionIds, \A t \in Symbols : PositionOf[t] # p PROVE held'[p] = 0
    BY <2>2, <2>4 DEF Holdings
  <2>5. QED
    BY <2>3, <2>4 DEF Holdings
<1>8. CASE Operations
  <2>1. CASE \E p \in OpenPositions, stop \in StopPrices : TightenStop(p, stop)
    BY <1>2, <2>1
  <2>2. CASE UNCHANGED <<orders, held>>
    BY <1>1, <2>2
  <2>3. QED
    BY <1>8, <2>1, <2>2 DEF Operations, Enter, SubmitEntry, ArmOffline, Operation, FlattenOwned,
       Exit, Internal, Local, brokerVars
<1>9. CASE Crash \/ UNCHANGED vars
  BY <1>1, <1>9 DEF Crash, vars, brokerVars
<1>10. CASE BrokerMoves
  BY <1>5, <1>6, <1>7, <1>10 DEF BrokerMoves
<1>11. CASE ExecutorSteps
  <2>1. CASE ~SendAccepted /\ ~AskCancel
    <3>1. UNCHANGED <<orders, held>>
      BY <1>11, <2>1, StillOrders
    <3>2. QED
      BY <1>1, <3>1
  <2>2. QED
    BY <1>3, <1>4, <2>1
<1>12. QED
  BY <1>8, <1>9, <1>10, <1>11 DEF Next

-----------------------------------------------------------------------------
(* What the broker moved.                                                  *)

(* The broker moves an entry and its position together, and a step of the   *)
(* executor forgets the moves or keeps them.                               *)
LEMMA PairedNext ==
  ASSUME EInv, Paired, [Next]_vars
  PROVE  Paired'
<1>1. ASSUME moved' \in {{}, moved} PROVE Paired'
  BY <1>1 DEF Paired
<1>2. ASSUME NEW i \in IntentIds, moved' = moved \cup {i, PositionOfIntent(i)} PROVE Paired'
  <2>1. ASSUME NEW s \in Symbols, s \in moved' PROVE PositionOf[s] \in moved'
    <3>1. CASE s \in moved
      BY <1>2, <3>1 DEF Paired
    <3>2. CASE s = i
      BY <1>2, <3>2 DEF PositionOfIntent, Kind
    <3>3. CASE s = PositionOfIntent(i)
      <4>1. PositionOfIntent(i) \in PositionIds
        BY FlatTypes DEF PositionOfIntent, Kind, IntentIds
      <4>2. QED
        BY <3>3, <4>1, FlatTypes
    <3>4. QED
      BY <1>2, <2>1, <3>1, <3>2, <3>3
  <2>2. QED
    BY <2>1 DEF Paired
<1>3. CASE BrokerMoves
  BY <1>2, <1>3, FlatTypes DEF BrokerMoves, BrokerFills, BrokerEnds, StopOut, MoveOf
<1>4. CASE ExecutorSteps
  <2>1. CASE SendAccepted
    BY <1>1, <2>1 DEF SendAccepted
  <2>2. CASE AskCancel
    BY <1>1, <2>2 DEF AskCancel
  <2>3. QED
    BY <1>1, <1>4, <2>1, <2>2, StillOrders
<1>5. CASE Operations
  BY <1>1, <1>5 DEF Operations, Enter, SubmitEntry, ArmOffline, Operation, FlattenOwned,
     TightenStop, Exit, Internal, Local, brokerVars
<1>6. CASE Crash \/ UNCHANGED vars
  BY <1>1, <1>6 DEF Crash, vars, brokerVars
<1>7. QED
  BY <1>3, <1>4, <1>5, <1>6 DEF Next

-----------------------------------------------------------------------------
(* At the start nothing is held, filled or booked.                         *)
LEMMA FlatInit == Init => FlatInv
<1>1. SUFFICES ASSUME Init PROVE FlatInv
  OBVIOUS
<1>2. /\ moved = {} /\ held = [p \in PositionIds |-> 0]
      /\ orders = [i \in IntentIds |-> NoOrder] /\ intents = [i \in IntentIds |-> NoIntent]
      /\ positions = [p \in PositionIds |-> NoPosition]
  BY <1>1 DEF Init, StoreInit
<1>3. \A s \in Symbols : /\ PositionOf[s] \in PositionIds
                         /\ s \in IntentIds /\ PositionOf[s] \in IntentIds
  BY ExecutorAssumption DEF IntentIds
<1>4. /\ NoOrder.filled_units = 0 /\ NoIntent.filled_units = 0 /\ NoPosition.units = 0
      /\ NoPosition.owner_intent_id \notin Symbols
  BY NilDistinct DEF NoOrder, NoIntent, NoPosition
<1>5. Paired
  BY <1>2 DEF Paired
<1>6. Holdings
  BY <1>2, <1>3, <1>4 DEF Holdings
<1>7. Ledger
  BY <1>2, <1>3, <1>4 DEF Ledger
<1>8. QED
  BY <1>5, <1>6, <1>7 DEF FlatInv

(* Every step keeps the three.                                             *)
LEMMA FlatNext ==
  ASSUME EInv, AgreeInv, FlatInv, [Next]_vars
  PROVE  FlatInv'
BY PairedNext, HoldingsNext, LedgerNext DEF FlatInv, AgreeInv

(* With the books at zero and nothing off, the broker is flat: a position   *)
(* it holds is one of an entry that was not shown.                         *)
LEMMA FlatBroker ==
  ASSUME EInv, FlatInv, Books, Off = {}, OpenPositions = {}, \A i \in IntentIds : ~Active(i)
  PROVE  /\ \A p \in PositionIds \ moved :
              held[p] = 0 \/ \E s \in Symbols \cap unseen : PositionOf[s] = p
         /\ \A i \in IntentIds \ (moved \cup unseen) : ~Live(i)
<1>1. \A i \in IntentIds \ (moved \cup unseen) : Agreed(i)
  BY DEF Off
<1>2. \A i \in IntentIds \ (moved \cup unseen) : ~Live(i)
  BY <1>1 DEF Agreed
<1>3. ASSUME NEW p \in PositionIds, p \notin moved, \A s \in Symbols \cap unseen : PositionOf[s] # p
      PROVE  held[p] = 0
  <2>1. CASE \A s \in Symbols : PositionOf[s] # p
    BY <2>1 DEF FlatInv, Holdings
  <2>2. ASSUME NEW s \in Symbols, PositionOf[s] = p PROVE held[p] = 0
    <3>1. s \notin moved /\ s \notin unseen /\ s \in IntentIds /\ p \in IntentIds
      BY <1>3, <2>2, FlatTypes DEF FlatInv, Paired
    <3>2. intents[s].filled_units = orders[s].filled_units
      BY <1>1, <3>1 DEF Agreed
    <3>3. intents[p].filled_units <= orders[p].filled_units
      BY <3>1 DEF Books, BooksOf
    <3>4. positions[p].units = 0
      BY FlatTypes DEF OpenPositions
    <3>5. /\ positions[p].units + intents[p].filled_units = intents[s].filled_units
          /\ held[p] + orders[p].filled_units <= orders[s].filled_units
      BY <2>2 DEF FlatInv, Ledger, Holdings
    <3>6. /\ held[p] \in Nat /\ orders[p].filled_units \in Nat /\ orders[s].filled_units \in Nat
          /\ intents[p].filled_units \in Nat
      BY <3>1, FlatTypes
    <3>7. QED
      BY <3>2, <3>3, <3>4, <3>5, <3>6
  <2>3. QED
    BY <2>1, <2>2
<1>4. QED
  BY <1>2, <1>3

(* FLAT_CONFIRMED is true of the broker, up to what the broker did after    *)
(* the final reconciliation began and the orders that one was not shown:    *)
(* nothing is held and no order may fill (engine.py flatten_owned).         *)
THEOREM ConfirmedIsFlat == Spec => []ConfirmedFlatIsFlat
<1>1. EInv /\ GateInv /\ ExposureInv /\ AgreeInv /\ [Next]_vars => AgreeInv'
  BY AgreedNext
<1>2. EInv /\ GateInv /\ [Next]_vars => GateInv'
  BY EInvNext, GateNext
<1>3. EInv /\ ExposureInv /\ [Next]_vars => ExposureInv'
  BY ExposureNext
<1>4. EInv /\ AgreeInv /\ FlatInv /\ [Next]_vars => FlatInv'
  BY FlatNext
<1>5. EInv /\ AgreeInv /\ FlatInv => ConfirmedFlatIsFlat
  <2>1. SUFFICES ASSUME EInv, AgreeInv, FlatInv, Running("confirm_flat"), Flat
                 PROVE  /\ \A p \in PositionIds \ moved :
                             held[p] = 0 \/ \E s \in Symbols \cap unseen : PositionOf[s] = p
                        /\ \A i \in IntentIds \ (moved \cup unseen) : ~Live(i)
    BY DEF ConfirmedFlatIsFlat
  <2>2. started /\ agenda # <<>> /\ Head(agenda).op = "confirm_flat"
    BY <2>1 DEF Running, Top
  <2>3. ~Reconciling(agenda)
    <3>1. agenda \in Seq(Covers(Due, Known)) /\ Once(agenda)
      BY <2>1 DEF AgreeInv
    <3>2. PICK L : L = Covers(Due, Known)
      OBVIOUS
    <3>3. /\ Tail(agenda) \in Seq(L) /\ agenda = Above(Head(agenda), Tail(agenda))
          /\ ~Reconciling(Tail(agenda))
      BY <2>2, <3>1, <3>2, OnceBelow, TopAndRest DEF Settlers
    <3>4. QED
      BY <2>2, <3>3, ReconcilingAbove
  <2>4. ~Doubted(agenda) /\ \A i : ~Underway(agenda, i)
    BY <2>2 DEF Doubted, Underway, Answering
  <2>5. Off = {}
    BY <2>1, <2>2, <2>3, <2>4 DEF AgreeInv, Outside, Flat
  <2>6. QED
    BY <2>1, <2>5, FlatBroker DEF Flat, AgreeInv
<1>6. QED
  BY <1>1, <1>2, <1>3, <1>4, <1>5, AgreedInit, FlatInit, GateInit, ExposureInit,
     ExecutorInvariant, PTL DEF Spec

-----------------------------------------------------------------------------
(* One incident: what becomes of the only entry the broker leaves          *)
(* unprotected.                                                            *)
ProtectedBut(only) ==
  \A s \in Symbols \ {only} : orders[s].filled_units > 0 => orders[s].protected

(* The calls an incident makes before and after it closes the position.    *)
Cleanup == {"pause", "unreconciled", "cancel_all", "cancel", "ask_cancel", "cancelling",
            "to_unknown", "apply"}

(* The calls a call makes: those of an incident make no others, and none    *)
(* of them begins an incident, or a loop of reconcile().                   *)
NewCalls(op) ==
  {f \in Frames : /\ f.op \notin {"reconcile", "end_incident"}
                  /\ op \in Cleanup => f.op \in Cleanup
                  /\ f.op = "apply" => op \in {"send", "ask_cancel"}}

(* The calls that may fail.                                                *)
Raising == Urgent \cup {"prepare", "close_recheck"}

(* The topmost call returns, fails or makes some calls.                    *)
Proceeds(op) ==
  LET new == NewCalls(op)
      low == new \cap Low
  IN \/ agenda' = Then(<<>>)
     \/ op \in Raising /\ agenda' = Raise(Rest)
     \/ \E f \in new : agenda' = Above(f, Rest)
     \/ \E f \in new, g \in low : agenda' = Above(f, Above(g, Rest))
     \/ \E f \in new, g, h \in low : agenda' = Above(f, Above(g, Above(h, Rest)))
     \/ \E g, h \in low : g.op \in Guards /\ agenda' = Raise(Above(g, Above(h, Rest)))
     \/ \E f \in new : Rest # <<>> /\ Head(Rest).op \in Guards /\ agenda' = Above(f, Tail(Rest))

(* Calls, and two or three of them, put on the stack.                      *)
LEMMA NewAbove ==
  ASSUME NEW L, NEW below \in Seq(L)
  PROVE  /\ \A f : <<f>> \o below = Above(f, below)
         /\ \A f, g : <<f, g>> \o below = Above(f, Above(g, below))
         /\ \A f, g, h : <<f, g, h>> \o below = Above(f, Above(g, Above(h, below)))
<1>1. ASSUME NEW f, NEW g PROVE <<f, g>> \o below = Above(f, Above(g, below))
  BY TwoAbove
<1>2. ASSUME NEW f, NEW g, NEW h
      PROVE  <<f, g, h>> \o below = Above(f, Above(g, Above(h, below)))
  BY ThreeAbove
<1>3. \A f : <<f>> \o below = Above(f, below)
  BY DEF Above
<1>4. QED
  BY <1>1, <1>2, <1>3

(* The calls that return at once.                                          *)
LEMMA ReturningCalls ==
  ASSUME EInv,
         \/ EndIncident \/ LoopEnds("recover") \/ LoopEnds("cancel") \/ LoopEnds("flatten")
         \/ SetProtectionCall \/ ToUnknown \/ CloseNothing \/ CloseStillPending \/ ConfirmFlat
         \/ ApplyRefused \/ AskCancelFailed \/ SendFailed \/ CloseRefused
  PROVE  \E op \in Calls \ {"pause", "unreconciled", "reconcile"} :
           Running(op) /\ Proceeds(op) /\ UNCHANGED <<started, reconciliation_ok>>
<1>1. CASE \/ EndIncident \/ LoopEnds("recover") \/ LoopEnds("cancel") \/ LoopEnds("flatten")
           \/ CloseNothing \/ CloseStillPending \/ ConfirmFlat
           \/ ApplyRefused \/ AskCancelFailed \/ CloseRefused
  <2>1. PICK op \in {"end_incident", "recover", "cancel", "flatten", "close", "close_recheck",
                     "confirm_flat", "apply", "ask_cancel"} :
          /\ Running(op) /\ Internal
          /\ agenda' = Then(<<>>) \/ (op \in Raising /\ agenda' = Raise(Rest))
    BY <1>1 DEF EndIncident, LoopEnds, CloseNothing, CloseStillPending, ConfirmFlat,
       ApplyRefused, AskCancelFailed, CloseRefused, Raising, Urgent
  <2>2. Proceeds(op) /\ op \in Calls \ {"pause", "unreconciled", "reconcile"}
    BY <2>1 DEF Proceeds, Calls
  <2>3. UNCHANGED <<started, reconciliation_ok>>
    BY <2>1 DEF Internal, Local, storeVars, gateVars
  <2>4. QED
    BY <2>1, <2>2, <2>3
<1>2. CASE SetProtectionCall \/ ToUnknown
  <2>1. PICK op \in {"set_protection", "to_unknown"} :
          Running(op) /\ agenda' = Then(<<>>) /\ UNCHANGED <<started, reconciliation_ok>>
    BY <1>2 DEF SetProtectionCall, ToUnknown, SetProtection, Transition, Local, storeVars, gateVars
  <2>2. Proceeds(op) /\ op \in Calls \ {"pause", "unreconciled", "reconcile"}
    BY <2>1 DEF Proceeds, Calls
  <2>3. QED
    BY <2>1, <2>2
<1>3. CASE SendFailed
  <2>1. Running("send") /\ agenda' = Raise(Rest) /\ UNCHANGED <<started, reconciliation_ok>>
    BY <1>3 DEF SendFailed, storeVars, gateVars
  <2>2. Proceeds("send") /\ "send" \in Calls \ {"pause", "unreconciled", "reconcile"}
    BY <2>1 DEF Proceeds, Calls, Raising, Urgent
  <2>3. QED
    BY <2>1, <2>2
<1>4. QED
  BY <1>1, <1>2, <1>3

(* One call above what waits.                                              *)
LEMMA OneCall ==
  ASSUME EInv, NEW op \in Calls \ {"pause", "unreconciled", "reconcile"}, Running(op),
         UNCHANGED <<started, reconciliation_ok>>,
         NEW f \in NewCalls(op), agenda' = Then(<<f>>) \/ agenda' = <<f>> \o Rest
  PROVE  Running(op) /\ Proceeds(op) /\ UNCHANGED <<started, reconciliation_ok>>
<1>1. agenda' = Above(f, Rest)
  BY Calls1 DEF Above
<1>2. QED
  BY <1>1 DEF Proceeds

(* The loops of __enter__, cancel_pending_entries and flatten_owned.       *)
LEMMA LoopingCalls ==
  ASSUME EInv, Recover \/ CancelAll \/ CancelUnsent \/ CancelSent \/ FlattenAll \/ FlattenNext
  PROVE  \E op \in Calls \ {"pause", "unreconciled", "reconcile"} :
           Running(op) /\ Proceeds(op) /\ UNCHANGED <<started, reconciliation_ok>>
<1>0. IInv
  BY DEF EInv
<1>1. CASE Recover \/ CancelUnsent
  <2>1. PICK op \in {"recover", "cancel"} :
          /\ Running(op) /\ UNCHANGED <<started, reconciliation_ok>>
          /\ \E e \in Top.todo : agenda' = <<Without(e)>> \o Rest
    BY <1>1 DEF Recover, CancelUnsent, Transition, Local, gateVars
  <2>2. PICK e : agenda' = <<Without(e)>> \o Rest
    BY <2>1
  <2>3. Without(e) \in Frames /\ Without(e).op = op
    BY <2>1, LoopLeft DEF Loops
  <2>4. Without(e) \in NewCalls(op) /\ op \in Calls \ {"pause", "unreconciled", "reconcile"}
    BY <2>3 DEF NewCalls, Cleanup, Calls
  <2>5. QED
    BY <2>1, <2>2, <2>4, OneCall
<1>2. CASE CancelAll
  <2> DEFINE todo == {e \in Snapshot : e.id \in Symbols /\ e.state \in ACTIVE_STATES}
  <2>1. todo \in SUBSET PendingEntries
    <3>1. ASSUME NEW e \in Entries, e.id \in Symbols, e.state \in ACTIVE_STATES
          PROVE  e \in PendingEntries
      BY <3>1 DEF Entries, PendingEntries
    <3>2. QED
      BY <1>0, <3>1, SnapshotRows
  <2>2. /\ LoopFrame("cancel", todo, TRUE) \in Frames
        /\ LoopFrame("cancel", todo, TRUE).op = "cancel"
    BY <2>1, LoopFrames DEF Loops, LoopEntries
  <2>3. agenda' = <<LoopFrame("cancel", todo, TRUE)>> \o Rest
    BY <1>2 DEF CancelAll, Loop, LoopFrame
  <2>4. Running("cancel_all") /\ UNCHANGED <<started, reconciliation_ok>>
    BY <1>2 DEF CancelAll, Internal, Local, storeVars, gateVars
  <2> HIDE DEF todo
  <2>5. /\ LoopFrame("cancel", todo, TRUE) \in NewCalls("cancel_all")
        /\ "cancel_all" \in Calls \ {"pause", "unreconciled", "reconcile"}
    BY <2>2 DEF NewCalls, Cleanup, Calls
  <2>6. QED
    BY <2>3, <2>4, <2>5, OneCall
<1>3. CASE FlattenAll
  <2> DEFINE todo == {[id |-> p, state |-> Nil] : p \in OpenPositions}
  <2>1. todo \in SUBSET HeldEntries
    BY DEF HeldEntries, OpenPositions
  <2>2. /\ LoopFrame("flatten", todo, TRUE) \in Frames
        /\ LoopFrame("flatten", todo, TRUE).op = "flatten"
    BY <2>1, LoopFrames DEF Loops, LoopEntries
  <2>3. agenda' = <<LoopFrame("flatten", todo, TRUE)>> \o Rest
    BY <1>3 DEF FlattenAll, Loop, LoopFrame
  <2>4. Running("flatten_all") /\ UNCHANGED <<started, reconciliation_ok>>
    BY <1>3 DEF FlattenAll, Internal, Local, storeVars, gateVars
  <2> HIDE DEF todo
  <2>5. /\ LoopFrame("flatten", todo, TRUE) \in NewCalls("flatten_all")
        /\ "flatten_all" \in Calls \ {"pause", "unreconciled", "reconcile"}
    BY <2>2 DEF NewCalls, Cleanup, Calls
  <2>6. QED
    BY <2>3, <2>4, <2>5, OneCall
<1>4. CASE FlattenNext
  <2>1. Running("flatten") /\ UNCHANGED <<started, reconciliation_ok>>
    BY <1>4 DEF FlattenNext, Internal, Local, storeVars, gateVars
  <2>2. PICK e \in Top.todo : agenda' = <<CallOn("close", e.id), Without(e)>> \o Rest
    BY <1>4 DEF FlattenNext
  <2>3. e.id \in PositionIds /\ Rest \in Seq(Low)
    BY <2>1, <2>2, TopCall DEF Typed, HeldEntries
  <2>4. CallOn("close", e.id) \in Low /\ CallOn("close", e.id).op = "close"
    BY <2>3, PositionFrames
  <2>5. Without(e) \in Frames /\ Without(e).op = "flatten"
    BY <2>1, LoopLeft DEF Loops
  <2>6. /\ CallOn("close", e.id) \in NewCalls("flatten")
        /\ Without(e) \in NewCalls("flatten") \cap Low
    BY <2>4, <2>5 DEF NewCalls, Cleanup, Low, TopOnly
  <2>7. agenda' = Above(CallOn("close", e.id), Above(Without(e), Rest))
    BY <2>2, <2>3, NewAbove
  <2>8. Proceeds("flatten") /\ "flatten" \in Calls
    BY <2>6, <2>7 DEF Proceeds, Calls
  <2>9. QED
    BY <2>1, <2>8
<1>5. CASE CancelSent
  <2>1. Running("cancel") /\ UNCHANGED <<started, reconciliation_ok>>
    BY <1>5 DEF CancelSent, Local, Transition, storeVars, gateVars
  <2>2. PICK e \in Top.todo :
          \/ agenda' = <<CallOn("ask_cancel", e.id), CallOn("cancelling", e.id), Without(e)>> \o Rest
          \/ agenda' = Raise(<<CallOn("cancelling", e.id), Without(e)>> \o Rest)
    BY <1>5 DEF CancelSent
  <2>3. e.id \in Symbols /\ e.id \in IntentIds /\ Rest \in Seq(Low)
    BY <2>1, <2>2, TopCall DEF Typed, PendingEntries, IntentIds
  <2>4. CallOn("ask_cancel", e.id) \in Frames /\ CallOn("ask_cancel", e.id).op = "ask_cancel"
    BY <2>3, AskFrames
  <2>5. CallOn("cancelling", e.id) \in Frames /\ CallOn("cancelling", e.id).op = "cancelling"
    BY <2>3, IntentFrames DEF IntentOps
  <2>6. Without(e) \in Frames /\ Without(e).op = "cancel"
    BY <2>1, LoopLeft DEF Loops
  <2> DEFINE ask == CallOn("ask_cancel", e.id)
             guard == CallOn("cancelling", e.id)
             left == Without(e)
  <2>7. /\ CallOn("ask_cancel", e.id) \in NewCalls("cancel")
        /\ CallOn("cancelling", e.id) \in NewCalls("cancel") \cap Low
        /\ Without(e) \in NewCalls("cancel") \cap Low
        /\ CallOn("cancelling", e.id).op \in Guards
    BY <2>4, <2>5, <2>6 DEF NewCalls, Cleanup, Low, TopOnly, Guards
  <2>8. \/ agenda' = Above(CallOn("ask_cancel", e.id),
                       Above(CallOn("cancelling", e.id), Above(Without(e), Rest)))
        \/ agenda' = Raise(Above(CallOn("cancelling", e.id), Above(Without(e), Rest)))
    <3>1. ASSUME NEW a, NEW g, NEW l
          PROVE  /\ <<a, g, l>> \o Rest = Above(a, Above(g, Above(l, Rest)))
                 /\ <<g, l>> \o Rest = Above(g, Above(l, Rest))
      BY <2>3, NewAbove
    <3>2. /\ <<ask, guard, left>> \o Rest = Above(ask, Above(guard, Above(left, Rest)))
          /\ <<guard, left>> \o Rest = Above(guard, Above(left, Rest))
      BY <3>1
    <3>3. QED
      BY <2>2, <3>2
  <2> HIDE DEF ask, guard, left
  <2>9. Proceeds("cancel") /\ "cancel" \in Calls
    BY <2>7, <2>8 DEF Proceeds, Calls, ask, guard, left
  <2>10. QED
    BY <2>1, <2>9
<1>6. QED
  BY <1>1, <1>2, <1>3, <1>4, <1>5

(* The calls that send, submit and reject, and those that close.           *)
LEMMA SubmittingCalls ==
  ASSUME EInv, Prepare \/ Submit \/ Reject \/ SendRefused
  PROVE  \E op \in Calls \ {"pause", "unreconciled", "reconcile"} :
           Running(op) /\ Proceeds(op) /\ UNCHANGED <<started, reconciliation_ok>>
<1>1. PICK op \in {"prepare", "submit", "reject", "send"} :
        /\ Running(op) /\ UNCHANGED <<started, reconciliation_ok>>
        /\ op = "prepare" => Prepare
        /\ op = "submit" => Submit
        /\ op = "reject" => Reject
        /\ op = "send" => SendRefused
  <2>1. Prepare => Running("prepare") /\ UNCHANGED <<started, reconciliation_ok>>
    BY DEF Prepare, Internal, Local, storeVars, gateVars
  <2>2. Submit => Running("submit") /\ UNCHANGED <<started, reconciliation_ok>>
    BY DEF Submit, Local, Transition, gateVars
  <2>3. Reject => Running("reject") /\ UNCHANGED <<started, reconciliation_ok>>
    BY DEF Reject, Local, Transition, gateVars
  <2>4. SendRefused => Running("send") /\ UNCHANGED <<started, reconciliation_ok>>
    BY DEF SendRefused, Internal, Local, storeVars, gateVars
  <2>5. QED
    BY <2>1, <2>2, <2>3, <2>4
<1>2. Top.id \in IntentIds /\ Rest \in Seq(Low) /\ op \in Calls \ {"pause", "unreconciled", "reconcile"}
  BY <1>1, TopCall DEF Typed, IntentOps, Calls
<1>3. \A called \in {"submit", "reject", "send", "sending"} :
        /\ CallOn(called, Top.id) \in NewCalls(op) /\ CallOn(called, Top.id).op = called
        /\ called = "sending" => CallOn(called, Top.id) \in Low
  <2>1. ASSUME NEW called \in {"submit", "reject", "send", "sending"}
        PROVE  /\ CallOn(called, Top.id) \in Frames /\ CallOn(called, Top.id).op = called
               /\ called = "sending" => CallOn(called, Top.id) \in Low
    BY <1>2, IntentFrames DEF IntentOps, TopOnly
  <2>2. QED
    BY <1>1, <2>1 DEF NewCalls, Cleanup
<1>4. CASE op = "prepare"
  <2>1. CASE agenda' = Raise(Rest)
    BY <1>1, <1>2, <1>4, <2>1 DEF Proceeds, Raising
  <2>2. CASE \E called \in {"submit", "reject"} : agenda' = Then(<<CallOn(called, Top.id)>>)
    <3>1. PICK called \in {"submit", "reject"} : agenda' = Then(<<CallOn(called, Top.id)>>)
      BY <2>2
    <3>2. QED
      BY <1>1, <1>2, <1>3, <3>1, OneCall
  <2>3. QED
    BY <1>1, <1>4, <2>1, <2>2 DEF Prepare
<1>5. CASE op = "submit"
  <2> DEFINE f == CallOn("send", Top.id)
             g == CallOn("sending", Top.id)
  <2>1. agenda' = <<f, g>> \o Rest
    BY <1>1, <1>5 DEF Submit
  <2>2. f \in NewCalls(op) /\ g \in NewCalls(op) \cap Low
    BY <1>3
  <2> HIDE DEF f, g
  <2>3. agenda' = Above(f, Above(g, Rest))
    BY <1>2, <2>1, NewAbove
  <2>4. QED
    BY <1>1, <1>2, <2>2, <2>3 DEF Proceeds
<1>6. CASE op = "reject"
  <2>1. agenda' = Then(<<Call("pause")>>)
    BY <1>1, <1>6 DEF Reject
  <2>2. Call("pause") \in NewCalls(op)
    <3>1. Call("pause") \in Frames /\ Call("pause").op = "pause"
      BY CallFrames DEF PlainOps, Low
    <3>2. QED
      BY <3>1 DEF NewCalls, Cleanup
  <2>3. QED
    BY <1>1, <1>2, <2>1, <2>2, OneCall
<1>7. CASE op = "send"
  <2>1. Rest # <<>> /\ Head(Rest).op \in Guards
    BY <1>1, <1>7 DEF EInv, Ready, ReadyCall, Running, Top, Rest, Guards
  <2>2. agenda' = Above(CallOn("reject", Top.id), Tail(Rest))
    BY <1>1, <1>7 DEF SendRefused, Above
  <2>3. Proceeds(op)
    BY <1>3, <2>1, <2>2 DEF Proceeds
  <2>4. QED
    BY <1>1, <1>2, <2>3
<1>8. QED
  BY <1>1, <1>4, <1>5, <1>6, <1>7

(* A call of the broker that answers, or does not.                         *)
LEMMA AskingCalls ==
  ASSUME EInv, EInv', SendAccepted \/ AskCancel
  PROVE  \E op \in {"send", "ask_cancel"} :
           Running(op) /\ Proceeds(op) /\ UNCHANGED <<started, reconciliation_ok>>
<1>1. PICK op \in {"send", "ask_cancel"} :
        /\ Running(op) /\ UNCHANGED <<started, reconciliation_ok>>
        /\ agenda' = Raise(Rest) \/ \E u : agenda' = <<Apply(u)>> \o Rest
  BY DEF SendAccepted, AskCancel, storeVars, gateVars
<1>2. Rest \in Seq(Low)
  BY <1>1, TopCall
<1>3. CASE agenda' = Raise(Rest)
  BY <1>1, <1>3 DEF Proceeds, Raising, Urgent
<1>4. CASE \E u : agenda' = <<Apply(u)>> \o Rest
  <2>1. PICK u : agenda' = <<Apply(u)>> \o Rest
    BY <1>4
  <2>2. agenda' = Above(Apply(u), Rest)
    BY <2>1 DEF Above
  <2>3. u \in Reports
    <3>1. agenda' \in Stacks
      BY DEF EInv
    <3>2. QED
      BY <1>2, <2>2, <3>1, ApplyTop
  <2>4. Apply(u) \in NewCalls(op)
    BY <2>3, ApplyFrames DEF NewCalls, Cleanup
  <2>5. QED
    BY <1>1, <2>2, <2>4 DEF Proceeds
<1>5. QED
  BY <1>1, <1>3, <1>4

LEMMA ClosingCalls ==
  ASSUME EInv, CloseBlocked \/ CloseAfterCancel \/ CloseCreate \/ CloseRecheck
  PROVE  \E op \in {"close", "close_recheck"} :
           Running(op) /\ Proceeds(op) /\ UNCHANGED <<started, reconciliation_ok>>
<1>1. PICK op \in {"close", "close_recheck"} :
        /\ Running(op) /\ UNCHANGED <<started, reconciliation_ok>>
        /\ \/ agenda' = Then(<<>>)
           \/ agenda' = Then(<<Call("pause")>>)
           \/ agenda' = Then(<<CallOn("submit", Top.id)>>)
           \/ agenda' = Then(<<Call("cancel_all"), CallOn("close_recheck", Top.id)>>)
  BY DEF CloseBlocked, CloseAfterCancel, CloseCreate, CloseRecheck, CreateCloseOf, CreateClose,
     Internal, Local, storeVars, gateVars
<1>2. Top.id \in PositionIds /\ Rest \in Seq(Low) /\ op \in Calls \ {"pause", "unreconciled", "reconcile"}
  BY <1>1, TopCall DEF Typed, Calls
<1>3. CASE agenda' = Then(<<>>)
  BY <1>1, <1>3 DEF Proceeds
<1>4. /\ Call("pause") \in NewCalls(op) /\ Call("cancel_all") \in NewCalls(op)
      /\ CallOn("submit", Top.id) \in NewCalls(op)
      /\ CallOn("close_recheck", Top.id) \in NewCalls(op) \cap Low
  <2>1. /\ Call("pause") \in Frames /\ Call("pause").op = "pause"
        /\ Call("cancel_all") \in Frames /\ Call("cancel_all").op = "cancel_all"
    BY CallFrames DEF PlainOps, Low
  <2>2. CallOn("submit", Top.id) \in Frames /\ CallOn("submit", Top.id).op = "submit"
    BY <1>2, IntentFrames DEF IntentOps, IntentIds
  <2>3. CallOn("close_recheck", Top.id) \in Low /\ CallOn("close_recheck", Top.id).op = "close_recheck"
    BY <1>2, PositionFrames
  <2>4. QED
    BY <2>1, <2>2, <2>3 DEF NewCalls, Cleanup, Low
<1>5. CASE \E f \in NewCalls(op) : agenda' = Then(<<f>>)
  <2>1. PICK f \in NewCalls(op) : agenda' = Then(<<f>>)
    BY <1>5
  <2>2. agenda' = Above(f, Rest)
    BY <2>1, Calls1
  <2>3. QED
    BY <1>1, <2>2 DEF Proceeds
<1>6. CASE agenda' = Then(<<Call("cancel_all"), CallOn("close_recheck", Top.id)>>)
  <2> DEFINE f == Call("cancel_all")
             g == CallOn("close_recheck", Top.id)
  <2>1. f \in NewCalls(op) /\ g \in NewCalls(op) \cap Low /\ agenda' = Then(<<f, g>>)
    BY <1>4, <1>6
  <2> HIDE DEF f, g
  <2>2. agenda' = Above(f, Above(g, Rest))
    <3>1. Then(<<f, g>>) = <<f, g>> \o Rest
      BY DEF Then
    <3>2. QED
      BY <1>2, <2>1, <3>1, NewAbove
  <2>3. QED
    BY <1>1, <2>1, <2>2 DEF Proceeds
<1>7. QED
  BY <1>1, <1>3, <1>4, <1>5, <1>6

-----------------------------------------------------------------------------
(* What such a call does to a stack of frames of some kind.                *)

(* A kind of frames that calls, and a failing loop of reconcile(), keep.   *)
Lenient(L) ==
  /\ L \subseteq Frames
  /\ \A f \in Frames : f.op \notin {"reconcile", "end_incident"} => f \in L
  /\ \A f \in L : f.op = "reconcile" => [f EXCEPT !.clean = FALSE] \in L

(* The calls that wait are of that kind too.                               *)
LEMMA LenientRest ==
  ASSUME agenda \in Stacks, NEW L, agenda \in Seq(L), NEW op, Running(op),
         op \notin {"pause", "unreconciled"}
  PROVE  /\ Top \in L /\ Top \in Frames /\ Top.op = op /\ Rest \in Seq(L \cap Low)
         /\ agenda = Above(Top, Rest) /\ Typed(Top)
         /\ Reconciling(agenda) <=> op = "reconcile" \/ Reconciling(Rest)
<1>1. agenda # <<>> /\ Top.op = op
  BY DEF Running
<1>2. Top \in Frames /\ Typed(Top) /\ Rest \in Seq(Low) /\ agenda = Above(Top, Rest)
  BY <1>1, Topmost
<1>3. Top \in L /\ Rest \in Seq(L)
  BY <1>1, TopAndRest DEF Top, Rest
<1>4. Len(Rest) \in Nat /\ \A k \in 1..Len(Rest) : Rest[k] \in L \cap Low
  <2>1. Len(Rest) \in Nat /\ \A k \in 1..Len(Rest) : Rest[k] \in L
    BY <1>3, LenProperties, ElementOfSeq
  <2>2. \A k \in 1..Len(Rest) : Rest[k] \in Low
    BY <1>2, ElementOfSeq
  <2>3. QED
    BY <2>1, <2>2
<1>5. ASSUME NEW K, NEW M, NEW t \in Seq(K), \A k \in 1..Len(t) : t[k] \in M PROVE t \in Seq(M)
  BY <1>5
<1>6. Rest \in Seq(L \cap Low)
  BY <1>2, <1>4, <1>5
<1>7. Reconciling(agenda) <=> op = "reconcile" \/ Reconciling(Rest)
  BY <1>1, <1>2, ReconcilingAbove
<1>8. QED
  BY <1>1, <1>2, <1>3, <1>6, <1>7

(* An exception leaves a stack of that kind.                               *)
LEMMA LenientRaise ==
  ASSUME NEW L, Lenient(L), NEW s \in Seq(L \cap Low)
  PROVE  /\ Raise(s) \in Seq(L) /\ (Reconciling(s) => Reconciling(Raise(s)))
         /\ Raise(s) # <<>> => Head(Raise(s)).op # "apply"
<1> DEFINE low == L \cap Low
<1>0. low \in SUBSET Low /\ low \subseteq L /\ Low \subseteq Frames
  BY DEF Low
<1>1. Call("pause") \in low /\ Call("unreconciled") \in low
  <2>1. /\ Call("pause") \in Low /\ Call("pause").op = "pause"
        /\ Call("unreconciled") \in Low /\ Call("unreconciled").op = "unreconciled"
    BY CallFrames DEF PlainOps
  <2>2. QED
    BY <1>0, <2>1 DEF Lenient
<1>2. s \in Seq(low)
  OBVIOUS
<1> HIDE DEF low
<1>3. ASSUME NEW t \in Seq(low) PROVE t \in Seq(L)
  BY <1>0, SeqMonotonic
<1>4. ASSUME Raise(s) = <<>>, ~Reconciling(s)
      PROVE  /\ Raise(s) \in Seq(L) /\ (Reconciling(s) => Reconciling(Raise(s)))
             /\ Raise(s) # <<>> => Head(Raise(s)).op # "apply"
  BY <1>4
<1>5. ASSUME NEW f \in low, NEW below \in Seq(low), f.op = "reconcile",
             Raise(s) = Above([f EXCEPT !.clean = FALSE], below)
      PROVE  /\ Raise(s) \in Seq(L) /\ (Reconciling(s) => Reconciling(Raise(s)))
             /\ Raise(s) # <<>> => Head(Raise(s)).op # "apply"
  <2> DEFINE left == [f EXCEPT !.clean = FALSE]
  <2>1. f \in Frames /\ f.op \in Loops /\ f.todo \in SUBSET f.todo /\ FALSE \in BOOLEAN
    BY <1>0, <1>5 DEF Loops
  <2>2. left.op = "reconcile"
    BY <1>5, <2>1, LoopGoesOn
  <2>3. left \in L /\ below \in Seq(L)
    BY <1>0, <1>3, <1>5 DEF Lenient
  <2> HIDE DEF left
  <2>4. Raise(s) = Above(left, below)
    BY <1>5 DEF left
  <2>5. Above(left, below) \in Seq(L) /\ Head(Above(left, below)) = left
    BY <2>3, AboveProperties
  <2>6. Reconciling(Above(left, below))
    BY <2>2, <2>3, ReconcilingAbove
  <2>7. QED
    BY <2>2, <2>4, <2>5, <2>6
<1>6. ASSUME NEW i \in IntentIds, NEW guard, NEW below \in Seq(low),
             Raise(s) = Interrupted(i, guard, below), Reconciling(s) => Reconciling(below)
      PROVE  /\ Raise(s) \in Seq(L) /\ (Reconciling(s) => Reconciling(Raise(s)))
             /\ Raise(s) # <<>> => Head(Raise(s)).op # "apply"
  <2> DEFINE f == CallOn("to_unknown", i)
             lower == AmbiguityCalls(guard) \o below
  <2>1. f \in Frames /\ f.op = "to_unknown"
    BY IntentFrames DEF IntentOps
  <2>2. f \in L
    BY <2>1 DEF Lenient
  <2>3. lower \in Seq(low) /\ (Reconciling(below) => Reconciling(lower))
    BY <1>0, <1>1, Ambiguity
  <2>4. Raise(s) = Above(f, lower)
    BY <1>6 DEF Interrupted
  <2> HIDE DEF f, lower
  <2>5. lower \in Seq(L)
    BY <1>3, <2>3
  <2>6. Above(f, lower) \in Seq(L) /\ Head(Above(f, lower)) = f
    BY <2>2, <2>5, AboveProperties
  <2>7. Reconciling(lower) => Reconciling(Above(f, lower))
    BY <2>5, ReconcilingAbove
  <2>8. QED
    BY <1>6, <2>1, <2>3, <2>4, <2>6, <2>7
<1>7. \/ Raise(s) = <<>> /\ ~Reconciling(s)
      \/ \E f \in low, below \in Seq(low) :
           f.op = "reconcile" /\ Raise(s) = Above([f EXCEPT !.clean = FALSE], below)
      \/ \E i \in IntentIds, guard \in Guards, below \in Seq(low) :
           /\ Raise(s) = Interrupted(i, guard, below)
           /\ Reconciling(s) => Reconciling(below)
  BY <1>0, <1>2, Raises
<1>8. CASE Raise(s) = <<>> /\ ~Reconciling(s)
  BY <1>4, <1>8
<1>9. CASE \E f \in low, below \in Seq(low) :
             f.op = "reconcile" /\ Raise(s) = Above([f EXCEPT !.clean = FALSE], below)
  BY <1>5, <1>9
<1>10. CASE \E i \in IntentIds, guard \in Guards, below \in Seq(low) :
              /\ Raise(s) = Interrupted(i, guard, below)
              /\ Reconciling(s) => Reconciling(below)
  BY <1>6, <1>10
<1>11. QED
  BY <1>7, <1>8, <1>9, <1>10

(* A new call above waiting calls.                                         *)
LEMMA LenientAbove ==
  ASSUME NEW L, Lenient(L), NEW f \in Frames, f.op \notin {"reconcile", "end_incident"},
         NEW below \in Seq(L \cap Low)
  PROVE  /\ Above(f, below) \in Seq(L) /\ (Reconciling(below) => Reconciling(Above(f, below)))
         /\ Above(f, below) # <<>> /\ Head(Above(f, below)) = f
         /\ f \in Low => Above(f, below) \in Seq(L \cap Low)
<1>1. f \in L
  BY DEF Lenient
<1>2. below \in Seq(L)
  <2>1. L \cap Low \subseteq L
    OBVIOUS
  <2>2. QED
    BY <2>1, SeqMonotonic
<1>3. Above(f, below) \in Seq(L) /\ Above(f, below) # <<>> /\ Head(Above(f, below)) = f
  BY <1>1, <1>2, AboveProperties
<1>4. f \in Low => Above(f, below) \in Seq(L \cap Low)
  <2>1. f \in Low => f \in L \cap Low
    BY <1>1
  <2>2. QED
    BY <2>1, AboveProperties
<1>5. Reconciling(below) => Reconciling(Above(f, below))
  BY <1>2, ReconcilingAbove
<1>6. QED
  BY <1>3, <1>4, <1>5

(* The calls keep a kind of frames, and the loop of reconcile() below.      *)
LEMMA LenientCalls ==
  ASSUME EInv, NEW L, Lenient(L), agenda \in Seq(L),
         NEW op \in Calls \ {"pause", "unreconciled", "reconcile"}, Running(op), Proceeds(op)
  PROVE  /\ agenda' \in Seq(L) /\ (Reconciling(agenda) => Reconciling(agenda'))
         /\ agenda' # <<>> /\ Head(agenda').op = "apply" => op \in {"send", "ask_cancel"}
<1> DEFINE low == L \cap Low
           Fine(s) == /\ s \in Seq(L) /\ (Reconciling(Rest) => Reconciling(s))
                      /\ s # <<>> /\ Head(s).op = "apply" => op \in {"send", "ask_cancel"}
<1>1. /\ Rest \in Seq(low) /\ (Reconciling(agenda) => Reconciling(Rest))
  BY LenientRest DEF EInv
<1>2. ASSUME NEW s \in Seq(low) PROVE s \in Seq(L) /\ (s # <<>> => Head(s).op # "apply")
  <2>1. low \subseteq L
    OBVIOUS
  <2>2. s # <<>> => Head(s) \in low
    BY TopAndRest
  <2>3. QED
    BY <2>1, <2>2, SeqMonotonic DEF Low, TopOnly
<1>3. ASSUME NEW f \in NewCalls(op), NEW s \in Seq(low), Reconciling(Rest) => Reconciling(s)
      PROVE  Fine(Above(f, s)) /\ (f \in Low => Above(f, s) \in Seq(low))
             /\ (Reconciling(Rest) => Reconciling(Above(f, s)))
  <2>1. /\ f \in Frames /\ f.op \notin {"reconcile", "end_incident"}
        /\ f.op = "apply" => op \in {"send", "ask_cancel"}
    BY DEF NewCalls
  <2>2. /\ Above(f, s) \in Seq(L) /\ (Reconciling(s) => Reconciling(Above(f, s)))
        /\ Head(Above(f, s)) = f /\ (f \in Low => Above(f, s) \in Seq(low))
    BY <2>1, LenientAbove
  <2>3. QED
    BY <1>3, <2>1, <2>2
<1>4. ASSUME NEW s \in Seq(low), Reconciling(Rest) => Reconciling(s) PROVE Fine(Raise(s))
  BY <1>4, LenientRaise
<1>5. Fine(Then(<<>>))
  <2>1. Then(<<>>) \in Seq(low) /\ (Reconciling(Rest) => Reconciling(Then(<<>>)))
    BY <1>1, Returns
  <2>2. QED
    BY <1>2, <2>1
<1>6. ASSUME NEW g \in NewCalls(op) \cap Low, NEW h \in NewCalls(op) \cap Low
      PROVE  /\ Above(h, Rest) \in Seq(low) /\ (Reconciling(Rest) => Reconciling(Above(h, Rest)))
             /\ Above(g, Above(h, Rest)) \in Seq(low)
             /\ Reconciling(Rest) => Reconciling(Above(g, Above(h, Rest)))
  <2>1. Above(h, Rest) \in Seq(low) /\ (Reconciling(Rest) => Reconciling(Above(h, Rest)))
    BY <1>1, <1>3
  <2>2. QED
    BY <1>3, <2>1
<1>7. ASSUME Rest # <<>>, Head(Rest).op \in Guards
      PROVE  Tail(Rest) \in Seq(low) /\ (Reconciling(Rest) => Reconciling(Tail(Rest)))
  <2>1. Tail(Rest) \in Seq(low) /\ Rest = Above(Head(Rest), Tail(Rest))
    BY <1>1, <1>7, TopAndRest
  <2>2. Reconciling(Rest) <=> Head(Rest).op = "reconcile" \/ Reconciling(Tail(Rest))
    BY <2>1, ReconcilingAbove
  <2>3. QED
    BY <1>7, <2>1, <2>2 DEF Guards
<1> HIDE DEF low, Fine
<1>8. Fine(agenda')
  <2>1. CASE agenda' = Then(<<>>)
    BY <1>5, <2>1
  <2>2. CASE agenda' = Raise(Rest)
    BY <1>1, <1>4, <2>2
  <2>3. CASE \E f \in NewCalls(op) : agenda' = Above(f, Rest)
    BY <1>1, <1>3, <2>3
  <2>4. CASE \E f \in NewCalls(op), g \in NewCalls(op) \cap Low : agenda' = Above(f, Above(g, Rest))
    <3>1. PICK f \in NewCalls(op), g \in NewCalls(op) \cap Low : agenda' = Above(f, Above(g, Rest))
      BY <2>4
    <3>2. Above(g, Rest) \in Seq(low) /\ (Reconciling(Rest) => Reconciling(Above(g, Rest)))
      BY <1>6
    <3>3. QED
      BY <1>3, <3>1, <3>2
  <2>5. CASE \E f \in NewCalls(op), g, h \in NewCalls(op) \cap Low :
               agenda' = Above(f, Above(g, Above(h, Rest)))
    <3>1. PICK f \in NewCalls(op), g \in NewCalls(op) \cap Low, h \in NewCalls(op) \cap Low :
                 agenda' = Above(f, Above(g, Above(h, Rest)))
      BY <2>5
    <3>2. /\ Above(g, Above(h, Rest)) \in Seq(low)
          /\ Reconciling(Rest) => Reconciling(Above(g, Above(h, Rest)))
      BY <1>6
    <3>3. QED
      BY <1>3, <3>1, <3>2
  <2>6. CASE \E g, h \in NewCalls(op) \cap Low :
               g.op \in Guards /\ agenda' = Raise(Above(g, Above(h, Rest)))
    <3>1. PICK g \in NewCalls(op) \cap Low, h \in NewCalls(op) \cap Low :
                 agenda' = Raise(Above(g, Above(h, Rest)))
      BY <2>6
    <3>2. QED
      BY <1>4, <1>6, <3>1
  <2>7. CASE \E f \in NewCalls(op) :
               Rest # <<>> /\ Head(Rest).op \in Guards /\ agenda' = Above(f, Tail(Rest))
    <3>1. PICK f \in NewCalls(op) :
                 Rest # <<>> /\ Head(Rest).op \in Guards /\ agenda' = Above(f, Tail(Rest))
      BY <2>7
    <3>2. QED
      BY <1>3, <1>7, <3>1
  <2>8. QED
    BY <2>1, <2>2, <2>3, <2>4, <2>5, <2>6, <2>7 DEF Proceeds
<1>9. QED
  BY <1>1, <1>8 DEF Fine

(* The gate's own calls, which only return.                                *)
LEMMA LenientGate ==
  ASSUME agenda # <<>>, Top.op \in {"pause", "unreconciled"}, NEW L, agenda \in Seq(L),
         agenda' = Then(<<>>)
  PROVE  /\ Rest \in Seq(L) /\ agenda' \in Seq(L)
         /\ Reconciling(agenda) => Reconciling(agenda')
<1>1. Rest \in Seq(L) /\ agenda = Above(Top, Rest)
  BY TopAndRest DEF Top, Rest
<1>2. Reconciling(agenda) <=> Reconciling(Rest)
  BY <1>1, ReconcilingAbove
<1>3. QED
  BY <1>1, <1>2, Returns

-----------------------------------------------------------------------------
(* The stack of an incident.                                               *)
EndCall == Call("end_incident")

(* No incident; an incident that has closed the position, and one that has *)
(* yet to close p, perhaps with calls to cancel its entries before it does. *)
Ordinary == {f \in Frames : f.op # "end_incident"}

Concluded == {Above(EndCall, s) : s \in Seq(Ordinary \cap Low)}
Concluding == Concluded \cup {Above(Call("pause"), s) : s \in Concluded}

CleanupCalls == {f \in Frames : f.op \in Cleanup}
CloseCalls(p) == {CallOn("close", p), CallOn("close_recheck", p)}
AtClose(p) == {Above(f, s) : f \in CloseCalls(p), s \in Concluded}
Managing(p) == {calls \o s : calls \in Seq(CleanupCalls), s \in AtClose(p)}

(* The end of an incident returns to what it interrupted.                  *)
LEMMA ConcludedStack ==
  ASSUME NEW s \in Concluded
  PROVE  /\ s \in Seq(Low) /\ s # <<>> /\ Head(s) = EndCall /\ Head(s).op = "end_incident"
         /\ Tail(s) \in Seq(Ordinary \cap Low) /\ s = Above(EndCall, Tail(s))
         /\ 1 \in 1..Len(s) /\ s[1].op = "end_incident"
<1>1. PICK rest \in Seq(Ordinary \cap Low) : s = Above(EndCall, rest)
  BY DEF Concluded
<1>2. EndCall \in Low /\ EndCall.op = "end_incident"
  BY CallFrames DEF EndCall, PlainOps
<1>3. rest \in Seq(Low)
  <2>1. Ordinary \cap Low \subseteq Low
    OBVIOUS
  <2>2. QED
    BY <2>1, SeqMonotonic
<1>4. /\ s # <<>> /\ Head(s) = EndCall /\ Tail(s) = rest /\ s \in Seq(Low)
      /\ Len(s) = Len(rest) + 1
  BY <1>1, <1>2, <1>3, AboveProperties
<1>5. s[1] = Head(s) /\ Len(s) \in Nat /\ Len(s) # 0
  BY <1>4, LenProperties, EmptySeq
<1>6. 1 \in 1..Len(s) /\ Head(s).op = "end_incident" /\ s[1].op = "end_incident"
  BY <1>2, <1>4, <1>5
<1>7. Tail(s) \in Seq(Ordinary \cap Low) /\ s = Above(EndCall, Tail(s))
  BY <1>1, <1>4
<1>8. QED
  BY <1>4, <1>6, <1>7

(* Calls of the cleanup above it.                                          *)
LEMMA ManagingStack ==
  ASSUME NEW p, NEW calls \in Seq(CleanupCalls), NEW s \in AtClose(p)
  PROVE  calls \o s \in Managing(p)
<1>1. \E c \in Seq(CleanupCalls), t \in AtClose(p) : calls \o s = c \o t
  OBVIOUS
<1>2. ASSUME NEW x, \E c \in Seq(CleanupCalls), t \in AtClose(p) : x = c \o t
      PROVE  x \in Managing(p)
  BY <1>2 DEF Managing
<1>3. QED
  BY <1>1, <1>2

(* The calls that close are frames and may wait.                           *)
LEMMA AtCloseStack ==
  ASSUME NEW p \in PositionIds, NEW s \in AtClose(p)
  PROVE  /\ s \in Seq(Low) /\ s # <<>> /\ Head(s).op \in {"close", "close_recheck"} /\ Head(s).id = p
         /\ Tail(s) \in Concluded /\ s \in Managing(p)
         /\ 2 \in 1..Len(s) /\ s[2].op = "end_incident"
<1>1. PICK f \in CloseCalls(p), rest \in Concluded : s = Above(f, rest)
  BY DEF AtClose
<1>2. f \in Low /\ f.op \in {"close", "close_recheck"} /\ f.id = p
  BY PositionFrames DEF CloseCalls
<1>3. rest \in Seq(Low) /\ 1 \in 1..Len(rest) /\ rest[1].op = "end_incident"
  BY <1>1, ConcludedStack
<1>4. /\ s # <<>> /\ Head(s) = f /\ Tail(s) = rest /\ s \in Seq(Low)
      /\ Len(s) = Len(rest) + 1
  BY <1>1, <1>2, <1>3, AboveProperties
<1>5. s = <<>> \o s /\ <<>> \in Seq(CleanupCalls)
  BY <1>4
<1>6. s \in Managing(p)
  BY <1>5, ManagingStack
<1>7. Len(rest) \in Nat /\ s[2] = rest[1]
  <2>1. Len(rest) \in Nat /\ Len(Tail(s)) = Len(rest) /\ 1 \in 1..Len(Tail(s))
    BY <1>3, <1>4, LenProperties
  <2>2. Tail(s)[1] = s[1 + 1]
    BY <1>4, <2>1, HeadTailProperties
  <2>3. QED
    BY <1>4, <2>1, <2>2
<1>8. 2 \in 1..Len(s)
  BY <1>3, <1>4, <1>7
<1>9. QED
  BY <1>2, <1>3, <1>4, <1>6, <1>7, <1>8, <1>1

(* A call of the cleanup above such a stack.                               *)
LEMMA ManagingAbove ==
  ASSUME NEW p \in PositionIds, NEW s \in Managing(p), NEW f \in CleanupCalls
  PROVE  Above(f, s) \in Managing(p)
<1>1. PICK calls \in Seq(CleanupCalls), t \in AtClose(p) : s = calls \o t
  BY DEF Managing
<1>2. t \in Seq(Frames) /\ calls \in Seq(Frames) /\ <<f>> \in Seq(Frames)
  <2>1. Low \subseteq Frames /\ CleanupCalls \subseteq Frames
    BY DEF Low, CleanupCalls
  <2>2. t \in Seq(Low)
    BY AtCloseStack
  <2>3. QED
    BY <2>1, <2>2, SeqMonotonic
<1>3. Above(f, s) = Above(f, calls) \o t
  BY <1>1, <1>2, ConcatAssociative DEF Above
<1> DEFINE more == Above(f, calls)
<1>4. more \in Seq(CleanupCalls) /\ Above(f, s) = more \o t
  BY <1>3, AboveProperties
<1> HIDE DEF more
<1>5. more \o t \in Managing(p)
  BY <1>4, ManagingStack
<1>6. QED
  BY <1>4, <1>5

(* Its topmost call either closes the position or is one of the cleanup.    *)
LEMMA ManagingTop ==
  ASSUME NEW p \in PositionIds, NEW s \in Managing(p)
  PROVE  /\ s # <<>> /\ s \in Seq(Frames)
         /\ s \in AtClose(p) \/ (Head(s) \in CleanupCalls /\ Tail(s) \in Managing(p))
         /\ \E k \in 1..Len(s) : s[k].op = "end_incident"
<1>1. PICK calls \in Seq(CleanupCalls), t \in AtClose(p) : s = calls \o t
  BY DEF Managing
<1>2. Low \subseteq Frames /\ CleanupCalls \subseteq Frames
  BY DEF Low, CleanupCalls
<1>3. t \in Seq(Frames) /\ calls \in Seq(Frames) /\ t # <<>>
  <2>1. t \in Seq(Low) /\ t # <<>>
    BY AtCloseStack
  <2>2. QED
    BY <1>2, <2>1, SeqMonotonic
<1>4. s \in Seq(Frames) /\ s # <<>>
  <2>1. Len(s) = Len(calls) + Len(t) /\ Len(calls) \in Nat /\ Len(t) \in Nat /\ Len(t) # 0
    BY <1>1, <1>3, ConcatProperties, LenProperties, EmptySeq
  <2>2. s \in Seq(Frames)
    BY <1>1, <1>3, ConcatProperties
  <2>3. QED
    BY <2>1, <2>2, EmptySeq
<1>5. CASE calls = <<>>
  <2>1. s = t
    BY <1>1, <1>3, <1>5
  <2>2. QED
    BY <1>4, <2>1, AtCloseStack
<1>6. CASE calls # <<>>
  <2>1. /\ Head(calls) \in CleanupCalls /\ Tail(calls) \in Seq(CleanupCalls)
        /\ calls = Above(Head(calls), Tail(calls))
    BY <1>6, TopAndRest
  <2> DEFINE rest == Tail(calls) \o t
  <2>2. rest \in Managing(p)
    BY <2>1, ManagingStack
  <2>3. rest \in Seq(Frames) /\ Tail(calls) \in Seq(Frames) /\ <<Head(calls)>> \in Seq(Frames)
    <3>1. Tail(calls) \in Seq(Frames) /\ Head(calls) \in Frames
      BY <1>2, <2>1, SeqMonotonic
    <3>2. rest \in Seq(Frames)
      BY <1>3, <3>1, ConcatProperties
    <3>3. QED
      BY <3>1, <3>2
  <2>4. s = Above(Head(calls), rest)
    BY <1>1, <1>3, <2>1, <2>3, ConcatAssociative DEF Above
  <2> HIDE DEF rest
  <2>5. Head(s) = Head(calls) /\ Tail(s) = rest
    BY <2>3, <2>4, AboveProperties
  <2>6. \E k \in 1..Len(s) : s[k].op = "end_incident"
    <3>1. /\ t[2].op = "end_incident" /\ 2 \in 1..Len(t)
          /\ Len(calls) \in Nat /\ Len(t) \in Nat
      BY <1>3, AtCloseStack, LenProperties
    <3>2. /\ Len(s) = Len(calls) + Len(t)
          /\ \A k \in 1..Len(s) : s[k] = IF k <= Len(calls) THEN calls[k] ELSE t[k - Len(calls)]
      BY <1>1, <1>3, ConcatProperties
    <3>3. /\ Len(calls) + 2 \in 1..Len(s) /\ ~ (Len(calls) + 2 <= Len(calls))
          /\ (Len(calls) + 2) - Len(calls) = 2
      BY <3>1, <3>2
    <3>4. s[Len(calls) + 2] = t[2]
      BY <3>2, <3>3
    <3>5. QED
      BY <3>1, <3>3, <3>4
  <2>7. QED
    BY <1>4, <2>1, <2>2, <2>5, <2>6
<1>7. QED
  BY <1>5, <1>6

(* A call of the cleanup returns to it.                                    *)
LEMMA ManagingReturn ==
  ASSUME NEW p \in PositionIds, Rest \in Managing(p)
  PROVE  Then(<<>>) \in Managing(p)
<1>1. Rest \in AtClose(p) \/ Tail(Rest) \in Managing(p)
  BY ManagingTop
<1>2. Head(Rest).op \in Guards => Tail(Rest) \in Managing(p)
  <2>1. Rest \in AtClose(p) => Head(Rest).op \notin Guards
    BY AtCloseStack DEF Guards
  <2>2. QED
    BY <1>1, <2>1
<1>3. QED
  BY <1>2 DEF Then

(* An exception inside it is handled inside it.                            *)
LEMMA ManagingRaise ==
  ASSUME NEW p \in PositionIds, NEW s \in Managing(p), s \in Seq(Low), Head(s).op \in Guards
  PROVE  Raise(s) \in Managing(p)
<1>1. s # <<>> /\ Head(s) \in CleanupCalls /\ Tail(s) \in Managing(p)
  <2>1. s # <<>> /\ (s \in AtClose(p) \/ (Head(s) \in CleanupCalls /\ Tail(s) \in Managing(p)))
    BY ManagingTop
  <2>2. s \in AtClose(p) => Head(s).op \notin Guards
    BY AtCloseStack DEF Guards
  <2>3. QED
    BY <2>1, <2>2
<1>2. Tail(s) \in Seq(Low) /\ Head(s) \in Low
  BY <1>1, TopAndRest
<1>3. Head(s).id \in IntentIds
  BY <1>2, FrameFields DEF Typed, IntentOps, Guards, Low
<1>4. Raise(s) = Interrupted(Head(s).id, Head(s).op, Tail(s))
  BY <1>1, RaiseHandled
<1>5. /\ Call("pause") \in CleanupCalls /\ Call("unreconciled") \in CleanupCalls
      /\ CallOn("to_unknown", Head(s).id) \in CleanupCalls
      /\ Call("pause") \in Low /\ Call("unreconciled") \in Low
  <2>1. /\ Call("pause") \in Low /\ Call("pause").op = "pause"
        /\ Call("unreconciled") \in Low /\ Call("unreconciled").op = "unreconciled"
    BY CallFrames DEF PlainOps
  <2>2. /\ CallOn("to_unknown", Head(s).id) \in Frames
        /\ CallOn("to_unknown", Head(s).id).op = "to_unknown"
    BY <1>3, IntentFrames DEF IntentOps
  <2>3. QED
    BY <2>1, <2>2 DEF CleanupCalls, Cleanup, Low
<1> DEFINE lower == AmbiguityCalls(Head(s).op) \o Tail(s)
<1>6. lower \in Managing(p)
  <2>1. \/ lower = Above(Call("pause"), Above(Call("unreconciled"), Tail(s)))
        \/ lower = Above(Call("unreconciled"), Above(Call("pause"), Tail(s)))
    BY <1>2, <1>5, Ambiguity
  <2> HIDE DEF lower
  <2>2. /\ Above(Call("unreconciled"), Tail(s)) \in Managing(p)
        /\ Above(Call("pause"), Tail(s)) \in Managing(p)
    BY <1>1, <1>5, ManagingAbove
  <2>3. /\ Above(Call("pause"), Above(Call("unreconciled"), Tail(s))) \in Managing(p)
        /\ Above(Call("unreconciled"), Above(Call("pause"), Tail(s))) \in Managing(p)
    BY <1>5, <2>2, ManagingAbove
  <2>4. QED
    BY <2>1, <2>3
<1>7. Raise(s) = Above(CallOn("to_unknown", Head(s).id), lower)
  BY <1>4 DEF Interrupted
<1> HIDE DEF lower
<1>8. QED
  BY <1>5, <1>6, <1>7, ManagingAbove

(* What the calls of the cleanup do.                                       *)
LEMMA ManagingCalls ==
  ASSUME EInv, Ahead(agenda), NEW p \in PositionIds, agenda \in Managing(p),
         NEW op \in Cleanup \ {"pause", "unreconciled"}, Running(op), Proceeds(op)
  PROVE  agenda' \in Managing(p)
<1>1. Rest \in Seq(Low) /\ Top.op = op /\ agenda # <<>> /\ Typed(Top)
  BY TopCall
<1>2. Rest \in Managing(p)
  <2>1. agenda \in AtClose(p) => Top.op \notin Cleanup
    BY AtCloseStack DEF Cleanup, Top
  <2>2. QED
    BY <1>1, <2>1, ManagingTop DEF Rest
<1>3. ASSUME NEW f \in NewCalls(op) PROVE f \in CleanupCalls
  BY DEF NewCalls, CleanupCalls
<1>4. ASSUME NEW f \in NewCalls(op), NEW s \in Managing(p) PROVE Above(f, s) \in Managing(p)
  BY <1>3, ManagingAbove
<1>5. op \in Raising => Rest # <<>> /\ Head(Rest).op \in Guards
  <2>1. op \in Raising => op \in {"apply", "ask_cancel"}
    BY DEF Raising, Urgent, Cleanup
  <2>2. op \in {"apply", "ask_cancel"} => Tried(Top, Rest) \/ Queried(Rest)
    BY <1>1 DEF Ahead, AheadCall, Urgent, Top, Rest
  <2>3. ~Queried(Rest)
    <3>1. Rest \in AtClose(p) \/ Head(Rest) \in CleanupCalls
      BY <1>2, ManagingTop
    <3>2. Rest \in AtClose(p) => Head(Rest).op # "reconcile"
      BY AtCloseStack
    <3>3. QED
      BY <3>1, <3>2 DEF Queried, CleanupCalls, Cleanup
  <2>4. QED
    BY <2>1, <2>2, <2>3 DEF Tried
<1>6. CASE agenda' = Then(<<>>)
  BY <1>2, <1>6, ManagingReturn
<1>7. CASE op \in Raising /\ agenda' = Raise(Rest)
  BY <1>1, <1>2, <1>5, <1>7, ManagingRaise
<1>8. CASE \E f \in NewCalls(op) : agenda' = Above(f, Rest)
  BY <1>2, <1>4, <1>8
<1>9. ASSUME NEW g \in NewCalls(op), NEW h \in NewCalls(op)
      PROVE  Above(h, Rest) \in Managing(p) /\ Above(g, Above(h, Rest)) \in Managing(p)
  <2>1. Above(h, Rest) \in Managing(p)
    BY <1>2, <1>4
  <2>2. QED
    BY <1>4, <2>1
<1>10. CASE \E f \in NewCalls(op), g \in NewCalls(op) \cap Low : agenda' = Above(f, Above(g, Rest))
  BY <1>9, <1>10
<1>11. CASE \E f \in NewCalls(op), g, h \in NewCalls(op) \cap Low :
              agenda' = Above(f, Above(g, Above(h, Rest)))
  <2>1. PICK f \in NewCalls(op), g \in NewCalls(op), h \in NewCalls(op) :
               agenda' = Above(f, Above(g, Above(h, Rest)))
    BY <1>11
  <2>2. Above(g, Above(h, Rest)) \in Managing(p)
    BY <1>9
  <2>3. QED
    BY <1>4, <2>1, <2>2
<1>12. CASE \E g, h \in NewCalls(op) \cap Low :
              g.op \in Guards /\ agenda' = Raise(Above(g, Above(h, Rest)))
  <2>1. PICK g \in NewCalls(op) \cap Low, h \in NewCalls(op) \cap Low :
              g.op \in Guards /\ agenda' = Raise(Above(g, Above(h, Rest)))
    BY <1>12
  <2> DEFINE lower == Above(h, Rest)
             s == Above(g, lower)
  <2>2. lower \in Seq(Low) /\ s \in Managing(p)
    BY <1>1, <1>9, AboveProperties
  <2> HIDE DEF lower
  <2>3. s \in Seq(Low) /\ Head(s) = g
    BY <2>2, AboveProperties
  <2>4. agenda' = Raise(s)
    BY <2>1 DEF lower
  <2> HIDE DEF s
  <2>5. QED
    BY <2>1, <2>2, <2>3, <2>4, ManagingRaise
<1>13. CASE \E f \in NewCalls(op) :
              Rest # <<>> /\ Head(Rest).op \in Guards /\ agenda' = Above(f, Tail(Rest))
  <2>1. PICK f \in NewCalls(op) :
              Rest # <<>> /\ Head(Rest).op \in Guards /\ agenda' = Above(f, Tail(Rest))
    BY <1>13
  <2>2. Tail(Rest) \in Managing(p)
    <3>1. Rest \in AtClose(p) \/ Tail(Rest) \in Managing(p)
      BY <1>2, ManagingTop
    <3>2. Rest \in AtClose(p) => Head(Rest).op \notin Guards
      BY AtCloseStack DEF Guards
    <3>3. QED
      BY <2>1, <3>1, <3>2
  <2>3. QED
    BY <1>4, <2>1, <2>2
<1>14. QED
  BY <1>6, <1>7, <1>8, <1>10, <1>11, <1>12, <1>13 DEF Proceeds

(* A call that handles nothing is passed by.                               *)
LEMMA RaisePast ==
  ASSUME NEW s \in Seq(Low), NEW f \in Low, f.op \notin Handlers
  PROVE  Raise(Above(f, s)) = Raise(s)
<1> DEFINE t == Above(f, s)
           found == {k \in 1..Len(s) : s[k].op \in Handlers}
           shifted == {k \in 1..Len(t) : t[k].op \in Handlers}
           least == CHOOSE k \in found : \A l \in found : k <= l
           next == CHOOSE k \in shifted : \A l \in shifted : k <= l
<1>1. t \in Seq(Low) /\ t # <<>> /\ Head(t) = f /\ Tail(t) = s /\ Len(t) = Len(s) + 1
  BY AboveProperties
<1>2. Len(s) \in Nat /\ t[1] = f /\ \A k \in 1..Len(s) : t[k + 1] = s[k]
  <2>1. Len(s) \in Nat /\ t[1] = Head(t)
    BY <1>1, LenProperties
  <2>2. \A k \in 1..Len(Tail(t)) : Tail(t)[k] = t[k + 1]
    BY <1>1, HeadTailProperties
  <2>3. QED
    BY <1>1, <2>1, <2>2
<1> HIDE DEF t
<1>3. \A k \in Nat : /\ k \in found => k + 1 \in shifted
                     /\ k \in shifted => k >= 2 /\ k - 1 \in found
  <2>1. ASSUME NEW k \in Nat, k \in found PROVE k + 1 \in shifted
    BY <1>1, <1>2, <2>1
  <2>2. ASSUME NEW k \in Nat, k \in shifted PROVE k >= 2 /\ k - 1 \in found
    <3>1. k # 1
      BY <1>2, <2>2
    <3>2. k - 1 \in 1..Len(s) /\ (k - 1) + 1 = k /\ k >= 2
      BY <1>1, <1>2, <2>2, <3>1
    <3>3. s[k - 1] = t[k]
      BY <1>2, <3>2
    <3>4. QED
      BY <2>2, <3>2, <3>3
  <2>3. QED
    BY <2>1, <2>2
<1>4. found \subseteq Nat /\ shifted \subseteq Nat
  BY <1>1, <1>2
<1>5. CASE found = {}
  <2>1. shifted = {}
    <3> HIDE DEF found, shifted
    <3>1. QED
      BY <1>3, <1>4, <1>5
  <2>2. QED
    BY <1>5, <2>1 DEF Raise, t
<1>6. CASE found # {}
  <2>1. PICK m \in found : \A l \in found : m <= l
    <3> HIDE DEF found
    <3>1. QED
      BY <1>4, <1>6, LeastElement
  <2>2. /\ m \in 1..Len(s) /\ m \in Nat /\ m + 1 \in shifted
        /\ \A l \in shifted : m + 1 <= l
    <3>1. m \in 1..Len(s) /\ m \in Nat
      BY <1>2
    <3> HIDE DEF found, shifted
    <3>2. m + 1 \in shifted
      BY <1>3, <3>1
    <3>3. ASSUME NEW l \in shifted PROVE m + 1 <= l
      <4>1. l \in Nat /\ l >= 2 /\ l - 1 \in found
        BY <1>3, <1>4
      <4>2. m <= l - 1
        BY <2>1, <4>1
      <4>3. QED
        BY <3>1, <4>1, <4>2
    <3>4. QED
      BY <3>1, <3>2, <3>3
  <2>3. least = m
    <3>1. ASSUME NEW k \in found, \A l \in found : k <= l PROVE k = m
      BY <1>4, <2>1, <2>2, <3>1
    <3> HIDE DEF found
    <3>2. QED
      BY <2>1, <3>1
  <2>4. next = m + 1
    <3>1. ASSUME NEW k \in shifted, \A l \in shifted : k <= l PROVE k = m + 1
      BY <1>4, <2>2, <3>1
    <3> HIDE DEF shifted
    <3>2. QED
      BY <2>2, <3>1
  <2>5. shifted # {}
    BY <2>2
  <2>6. t[m + 1] = s[m]
    BY <1>2, <2>2
  <2>7. SubSeq(t, (m + 1) + 1, Len(t)) = SubSeq(s, m + 1, Len(s))
    BY <1>1, <1>2, <2>2
  <2>8. Raise(s) = IF s[least].op = "reconcile"
                   THEN <<[s[least] EXCEPT !.clean = FALSE]>> \o SubSeq(s, least + 1, Len(s))
                   ELSE <<CallOn("to_unknown", s[least].id)>> \o AmbiguityCalls(s[least].op)
                          \o SubSeq(s, least + 1, Len(s))
    BY <1>6 DEF Raise
  <2>9. Raise(t) = IF t[next].op = "reconcile"
                   THEN <<[t[next] EXCEPT !.clean = FALSE]>> \o SubSeq(t, next + 1, Len(t))
                   ELSE <<CallOn("to_unknown", t[next].id)>> \o AmbiguityCalls(t[next].op)
                          \o SubSeq(t, next + 1, Len(t))
    BY <2>5 DEF Raise
  <2> HIDE DEF least, next, found, shifted
  <2>10. /\ t[next] = s[least]
         /\ SubSeq(t, next + 1, Len(t)) = SubSeq(s, least + 1, Len(s))
    BY <2>3, <2>4, <2>6, <2>7
  <2> DEFINE handler == s[least]
             below == SubSeq(s, least + 1, Len(s))
  <2>11. /\ Raise(s) = IF handler.op = "reconcile"
                       THEN <<[handler EXCEPT !.clean = FALSE]>> \o below
                       ELSE <<CallOn("to_unknown", handler.id)>> \o AmbiguityCalls(handler.op) \o below
         /\ Raise(t) = IF handler.op = "reconcile"
                       THEN <<[handler EXCEPT !.clean = FALSE]>> \o below
                       ELSE <<CallOn("to_unknown", handler.id)>> \o AmbiguityCalls(handler.op) \o below
    BY <2>8, <2>9, <2>10
  <2> HIDE DEF handler, below
  <2>12. Raise(t) = Raise(s)
    BY <2>11
  <2>13. QED
    BY <2>12 DEF t
<1>7. QED
  BY <1>5, <1>6

-----------------------------------------------------------------------------
(* The steps of the executor and of its owner.                             *)

(* The first two calls of __enter__: entries are about to be unreconciled.  *)
Warned(s) ==
  s # <<>> /\ \/ Head(s).op = "unreconciled"
              \/ Head(s).op = "pause" /\ Tail(s) # <<>> /\ Head(Tail(s)).op = "unreconciled"

(* What the owner's operations begin with.                                 *)
Opening == {f \in Frames : f.op \notin {"end_incident", "reconcile"} \cup Urgent}

LEMMA OpeningCalls ==
  ASSUME EInv, Operations
  PROVE  /\ agenda' \in Seq(Opening) /\ started'
         /\ (Idle /\ UNCHANGED reconciliation_ok) \/ (~started /\ Warned(agenda'))
<1>1. /\ \A op \in PlainOps \ {"end_incident"} : Call(op) \in Opening
      /\ \A p \in PositionIds : CallOn("close", p) \in Opening
      /\ \A s \in Symbols : CallOn("prepare", s) \in Opening
      /\ \A p \in PositionIds, stop \in StopPrices :
           Frame("set_protection", p, {}, TRUE, stop) \in Opening
  <2>1. \A op \in PlainOps \ {"end_incident"} : Call(op) \in Frames /\ Call(op).op = op
    BY CallFrames DEF Low
  <2>2. \A p \in PositionIds : CallOn("close", p) \in Frames /\ CallOn("close", p).op = "close"
    BY PositionFrames DEF Low
  <2>3. \A s \in Symbols : CallOn("prepare", s) \in Frames /\ CallOn("prepare", s).op = "prepare"
    BY IntentFrames DEF IntentOps, IntentIds
  <2>4. \A p \in PositionIds, stop \in StopPrices :
          /\ Frame("set_protection", p, {}, TRUE, stop) \in Frames
          /\ Frame("set_protection", p, {}, TRUE, stop).op = "set_protection"
    BY StopFrames DEF StopFrame, Low
  <2>5. QED
    BY <2>1, <2>2, <2>3, <2>4 DEF Opening, PlainOps, Urgent
<1>2. /\ Call("pause") \in Opening /\ Call("cancel_all") \in Opening /\ Call("flatten_all") \in Opening
      /\ Call("reconcile_all") \in Opening /\ Call("confirm_flat") \in Opening
      /\ Call("release") \in Opening /\ Call("unreconciled") \in Opening
  BY <1>1 DEF PlainOps
<1>3. CASE Enter
  <2> DEFINE todo == {e \in Snapshot : e.state \in {"SUBMITTING", "CREATED", "APPROVED"}}
             loop == Loop("recover", todo)
  <2>1. todo \in SUBSET Entries
    BY SnapshotRows DEF EInv
  <2>2. loop \in Opening
    <3>1. LoopFrame("recover", todo, TRUE) \in Frames /\ LoopFrame("recover", todo, TRUE).op = "recover"
      BY <2>1, LoopFrames DEF Loops, LoopEntries
    <3>2. QED
      BY <3>1 DEF Opening, Urgent, LoopFrame, Loop
  <2>3. /\ agenda' = <<Call("pause"), Call("unreconciled"), loop, Call("reconcile_all")>>
        /\ ~started /\ started'
    BY <1>3 DEF Enter
  <2>4. /\ Head(agenda') = Call("pause") /\ Tail(agenda') # <<>> /\ agenda' # <<>>
        /\ Head(Tail(agenda')) = Call("unreconciled")
    <3> HIDE DEF loop
    <3>1. QED
      BY <2>3
  <2>5. Call("pause").op = "pause" /\ Call("unreconciled").op = "unreconciled"
    BY CallFrames DEF PlainOps
  <2> HIDE DEF loop
  <2>6. agenda' \in Seq(Opening)
    BY <1>2, <2>2, <2>3
  <2>7. QED
    BY <2>3, <2>4, <2>5, <2>6 DEF Warned
<1>4. CASE ~Enter
  <2>1. Idle /\ UNCHANGED reconciliation_ok
    BY <1>4 DEF Operations, SubmitEntry, CreateEntry, ArmOffline, Pause, Operation, FlattenOwned,
       TightenStop, Exit, Internal, storeVars, gateVars
  <2>2. started'
    BY <1>4, <2>1 DEF Operations, SubmitEntry, ArmOffline, Operation, FlattenOwned,
       TightenStop, Exit, Internal, Local, Idle
  <2>3. \/ agenda' = <<>>
        \/ \E f \in Opening : agenda' = <<f>>
        \/ \E f, g \in Opening : agenda' = <<f, g>>
        \/ \E f, g, h \in Opening : agenda' = <<f, g, h>>
        \/ agenda' = <<Call("pause"), Call("cancel_all"), Call("flatten_all"),
                       Call("reconcile_all"), Call("confirm_flat")>>
    <3>1. CASE \E s \in Symbols, n \in Units, stop \in StopPrices : SubmitEntry(s, n, stop)
      BY <1>1, <3>1 DEF SubmitEntry
    <3>2. CASE ArmOffline
      BY <3>2 DEF ArmOffline
    <3>3. CASE \/ Operation(<<Call("pause")>>) \/ Operation(<<Call("reconcile_all")>>)
               \/ Operation(<<Call("cancel_all")>>)
               \/ \E p \in PositionIds : Operation(<<CallOn("close", p)>>)
      BY <1>1, <1>2, <3>3 DEF Operation
    <3>4. CASE FlattenOwned \/ Exit
      BY <1>2, <3>4 DEF FlattenOwned, Exit, Operation
    <3>5. CASE \E p \in OpenPositions, stop \in StopPrices : TightenStop(p, stop)
      <4>1. PICK p \in PositionIds, stop \in StopPrices : TightenStop(p, stop)
        BY <3>5 DEF OpenPositions
      <4>2. \/ agenda' = <<Frame("set_protection", p, {}, TRUE, stop)>>
            \/ agenda' = <<Call("pause"), Call("cancel_all"), CallOn("close", p)>>
        BY <4>1 DEF TightenStop
      <4>3. QED
        BY <1>1, <1>2, <4>2
    <3>6. QED
      BY <1>4, <3>1, <3>2, <3>3, <3>4, <3>5 DEF Operations
  <2>4. agenda' \in Seq(Opening)
    <3>1. ASSUME NEW L
          PROVE  /\ <<>> \in Seq(L) /\ \A a \in L : <<a>> \in Seq(L)
                 /\ \A a, b \in L : <<a, b>> \in Seq(L)
                 /\ \A a, b, c \in L : <<a, b, c>> \in Seq(L)
                 /\ \A a, b, c, d, e \in L : <<a, b, c, d, e>> \in Seq(L)
      OBVIOUS
    <3>2. CASE agenda' = <<Call("pause"), Call("cancel_all"), Call("flatten_all"),
                           Call("reconcile_all"), Call("confirm_flat")>>
      BY <1>2, <3>1, <3>2
    <3>3. CASE \/ agenda' = <<>>
               \/ \E f \in Opening : agenda' = <<f>>
               \/ \E f, g \in Opening : agenda' = <<f, g>>
               \/ \E f, g, h \in Opening : agenda' = <<f, g, h>>
      BY <3>1, <3>3
    <3>4. QED
      BY <2>3, <3>2, <3>3
  <2>5. QED
    BY <2>1, <2>2, <2>4
<1>5. QED
  BY <1>3, <1>4

(* The executor's steps by what they do to the stack.                      *)
LEMMA ExecutorCalls ==
  ASSUME EInv, EInv', ExecutorSteps
  PROVE  \/ PauseCall \/ UnreconciledCall \/ Release \/ ApplyReport
         \/ ReconcileAll \/ QueryAnswered \/ QueryUnseen \/ QueryFailed \/ ReconcileEnds
         \/ \E op \in Calls \ {"pause", "unreconciled", "reconcile"} :
              Running(op) /\ Proceeds(op) /\ UNCHANGED <<started, reconciliation_ok>>
<1>1. CASE \/ EndIncident \/ LoopEnds("recover") \/ LoopEnds("cancel") \/ LoopEnds("flatten")
           \/ SetProtectionCall \/ ToUnknown \/ CloseNothing \/ CloseStillPending \/ ConfirmFlat
           \/ ApplyRefused \/ AskCancelFailed \/ SendFailed \/ CloseRefused
  BY <1>1, ReturningCalls
<1>2. CASE Recover \/ CancelAll \/ CancelUnsent \/ CancelSent \/ FlattenAll \/ FlattenNext
  BY <1>2, LoopingCalls
<1>3. CASE Prepare \/ Submit \/ Reject \/ SendRefused
  BY <1>3, SubmittingCalls
<1>4. CASE SendAccepted \/ AskCancel
  BY <1>4, AskingCalls DEF Calls
<1>5. CASE CloseBlocked \/ CloseAfterCancel \/ CloseCreate \/ CloseRecheck
  BY <1>5, ClosingCalls DEF Calls
<1>6. QED
  BY <1>1, <1>2, <1>3, <1>4, <1>5 DEF ExecutorSteps

-----------------------------------------------------------------------------
(* What a report says of the protection.                                   *)

(* A report of the only unprotected entry, with the fills its order has,   *)
(* says of its protection what is; any other one of fills is protected.    *)
Heard(only) ==
  agenda # <<>> /\ Top.op = "apply" /\ Top.id \in Symbols =>
    /\ Top.id = only /\ Top.report.filled_units = orders[only].filled_units
         => Top.report.protected = orders[only].protected
    /\ Top.id # only /\ Top.report.filled_units > 0 => Top.report.protected

(* No report on top.                                                       *)
LEMMA NothingHeard ==
  ASSUME NEW only, agenda' # <<>> => Head(agenda').op # "apply"
  PROVE  Heard(only)'
BY DEF Heard, Top

(* A report made of the order as it is.                                    *)
LEMMA HeardAnswer ==
  ASSUME NEW only \in Symbols, ProtectedBut(only)', NEW u \in Reports, NEW below \in Seq(Low),
         agenda' = Above(Apply(u), below),
         u.intent_id \in Symbols => /\ u.filled_units = orders'[u.intent_id].filled_units
                                    /\ u.protected = orders'[u.intent_id].protected
  PROVE  Heard(only)'
<1>1. Apply(u).report = u /\ Apply(u).id = u.intent_id
  BY ApplyFrames
<1>2. Top' = Apply(u)
  BY AboveProperties DEF Top
<1>3. u.intent_id \in Symbols /\ u.intent_id # only /\ orders'[u.intent_id].filled_units > 0
        => orders'[u.intent_id].protected
  BY DEF ProtectedBut
<1>4. QED
  BY <1>1, <1>2, <1>3 DEF Heard

(* The answers of the broker.                                              *)
LEMMA HeardAnswers ==
  ASSUME EInv, EInv', NEW only \in Symbols, ProtectedBut(only)',
         SendAccepted \/ AskCancel \/ QueryAnswered
  PROVE  Heard(only)'
<1>1. agenda' \in Stacks
  BY DEF EInv
<1>2. Lenient(Frames) /\ Frames \cap Low = Low
  BY LoopGoesOn DEF Lenient, Loops, Low
<1>3. CASE SendAccepted
  <2>1. Running("send") /\ Rest \in Seq(Low) /\ Top.id \in IntentIds
    BY <1>3, TopCall DEF SendAccepted, Typed, IntentOps
  <2>2. CASE agenda' = Raise(Rest)
    <3>1. agenda' # <<>> => Head(agenda').op # "apply"
      BY <1>2, <2>1, <2>2, LenientRaise
    <3>2. QED
      BY <3>1, NothingHeard
  <2>3. CASE agenda' # Raise(Rest)
    <3>1. \E n \in IF Etoro THEN {0} ELSE 0..intents[Top.id].units, protected \in Protection,
             lost \in BOOLEAN :
            LET o == [state |-> FillState(intents[Top.id].units, n), filled_units |-> n,
                      protected |-> protected]
            IN /\ orders' = [orders EXCEPT ![Top.id] = o]
               /\ agenda' = IF lost THEN Raise(Rest)
                            ELSE <<Apply(ReportAt(Top.id, o, held', clock'))>> \o Rest
      BY <1>3, Zenon DEF SendAccepted
    <3>7. PICK n, protected :
            LET o == [state |-> FillState(intents[Top.id].units, n), filled_units |-> n,
                      protected |-> protected]
            IN /\ orders' = [orders EXCEPT ![Top.id] = o]
               /\ agenda' = <<Apply(ReportAt(Top.id, o, held', clock'))>> \o Rest
      BY <2>3, <3>1, Zenon
    <3> DEFINE o == [state |-> FillState(intents[Top.id].units, n), filled_units |-> n,
                     protected |-> protected]
               u == ReportAt(Top.id, o, held', clock')
    <3>2. orders'[Top.id] = o
      BY <2>1, <3>7 DEF EInv, BrokerOK, BrokerTyped
    <3>3. /\ u.intent_id = Top.id /\ u.filled_units = orders'[Top.id].filled_units
          /\ u.protected = orders'[Top.id].protected
      BY <3>2 DEF ReportAt
    <3>4. agenda' = Above(Apply(u), Rest)
      BY <3>7 DEF Above
    <3> HIDE DEF u
    <3>5. u \in Reports
      BY <1>1, <2>1, <3>4, ApplyTop
    <3>6. QED
      BY <2>1, <3>3, <3>4, <3>5, HeardAnswer
  <2>4. QED
    BY <2>2, <2>3
<1>4. CASE AskCancel
  <2>1. Running("ask_cancel") /\ Rest \in Seq(Low) /\ Top.id \in Symbols /\ Top.id \in IntentIds
    BY <1>4, TopCall DEF AskCancel, Typed, IntentIds
  <2>2. CASE agenda' = Raise(Rest)
    <3>1. agenda' # <<>> => Head(agenda').op # "apply"
      BY <1>2, <2>1, <2>2, LenientRaise
    <3>2. QED
      BY <3>1, NothingHeard
  <2>3. CASE agenda' # Raise(Rest)
    <3>1. PICK outcome \in CancelOutcomes(orders[Top.id]) :
            /\ orders' = [orders EXCEPT ![Top.id] = outcome.order]
            /\ agenda' = <<Apply([ReportOn(Top.id, outcome.order) EXCEPT
                                       !.state = outcome.reported])>> \o Rest
      BY <1>4, <2>3 DEF AskCancel
    <3> DEFINE u == [ReportOn(Top.id, outcome.order) EXCEPT !.state = outcome.reported]
    <3>2. orders'[Top.id] = outcome.order
      BY <2>1, <3>1 DEF EInv, BrokerOK, BrokerTyped
    <3>3. /\ u.intent_id = Top.id /\ u.filled_units = orders'[Top.id].filled_units
          /\ u.protected = orders'[Top.id].protected
      BY <3>2 DEF ReportOn, ReportAt
    <3>4. agenda' = Above(Apply(u), Rest)
      BY <3>1 DEF Above
    <3> HIDE DEF u
    <3>5. u \in Reports
      BY <1>1, <2>1, <3>4, ApplyTop
    <3>6. QED
      BY <2>1, <3>3, <3>4, <3>5, HeardAnswer
  <2>4. QED
    BY <2>2, <2>3
<1>5. CASE QueryAnswered
  <2>1. Running("reconcile") /\ Rest \in Seq(Low) /\ Top.todo \in SUBSET Entries
    BY <1>5, TopCall DEF QueryAnswered, Typed
  <2>2. PICK e \in Top.todo :
          /\ Accepted(e.id) /\ UNCHANGED orders
          /\ \E u \in Answers(e.id) :
               agenda' = <<Apply(u), [Without(e) EXCEPT !.clean = @ /\ u.state # "UNKNOWN"]>> \o Rest
    BY <1>5 DEF QueryAnswered, Internal, Local, brokerVars
  <2>8. PICK u \in Answers(e.id), value \in BOOLEAN :
          agenda' = <<Apply(u), [Without(e) EXCEPT !.clean = value]>> \o Rest
    <3>1. PICK u \in Answers(e.id) :
            agenda' = <<Apply(u), [Without(e) EXCEPT !.clean = @ /\ u.state # "UNKNOWN"]>> \o Rest
      BY <2>2
    <3>2. /\ (Without(e).clean /\ u.state # "UNKNOWN") \in BOOLEAN
          /\ [Without(e) EXCEPT !.clean = @ /\ u.state # "UNKNOWN"]
               = [Without(e) EXCEPT !.clean = Without(e).clean /\ u.state # "UNKNOWN"]
      OBVIOUS
    <3>3. QED
      BY <3>1, <3>2
  <2> DEFINE left == [Without(e) EXCEPT !.clean = value]
  <2>3. left \in Low
    <3>1. left \in Frames /\ left.op = "reconcile"
      BY <2>1, LoopLeft DEF Loops
    <3>2. QED
      BY <3>1 DEF Low, TopOnly
  <2> HIDE DEF left
  <2>4. agenda' = Above(Apply(u), Above(left, Rest)) /\ Above(left, Rest) \in Seq(Low)
    <3>1. agenda' = <<Apply(u), left>> \o Rest
      BY <2>8 DEF left
    <3>2. QED
      BY <2>1, <2>3, <3>1, TwoAbove, AboveProperties
  <2>5. e.id \in IntentIds /\ u \in Reports /\ u.intent_id = e.id
    <3>1. e.id \in IntentIds
      BY <2>1 DEF Entries
    <3>2. QED
      BY <2>2, <3>1, AnswersAreReports DEF EInv
  <2>6. e.id \in Symbols => /\ u.filled_units = orders[e.id].filled_units
                            /\ u.protected = orders[e.id].protected
    <3>1. ASSUME e.id \in Symbols
          PROVE  \E v \in {ReportOn(e.id, orders[e.id])} :
                   u \in {v, WithoutSnapshot(v), [v EXCEPT !.state = "UNKNOWN"]}
      BY <3>1 DEF Answers, Kind
    <3> DEFINE v == ReportOn(e.id, orders[e.id])
    <3>2. /\ v.filled_units = orders[e.id].filled_units /\ v.protected = orders[e.id].protected
          /\ WithoutSnapshot(v).filled_units = v.filled_units
          /\ WithoutSnapshot(v).protected = v.protected
          /\ [v EXCEPT !.state = "UNKNOWN"].filled_units = v.filled_units
          /\ [v EXCEPT !.state = "UNKNOWN"].protected = v.protected
      BY DEF ReportOn, ReportAt, WithoutSnapshot
    <3>3. e.id \in Symbols => u \in {v, WithoutSnapshot(v), [v EXCEPT !.state = "UNKNOWN"]}
      BY <3>1
    <3> HIDE DEF v
    <3>4. QED
      BY <3>2, <3>3
  <2>7. QED
    BY <2>2, <2>4, <2>5, <2>6, HeardAnswer
<1>6. QED
  BY <1>3, <1>4, <1>5

(* Which steps send and ask.                                               *)
LEMMA ExecutorTops ==
  ASSUME ExecutorSteps, Top.op \in {"send", "ask_cancel"}
  PROVE  SendAccepted \/ SendFailed \/ SendRefused \/ AskCancel \/ AskCancelFailed
BY DEF ExecutorSteps, Running, PauseCall, UnreconciledCall, ToUnknown, SetProtectionCall, Release,
   EndIncident, LoopEnds, Recover, Prepare, Submit, Reject, ApplyReport, ApplyRefused,
   ReconcileAll, QueryAnswered, QueryUnseen, QueryFailed, ReconcileEnds, CancelAll, CancelUnsent,
   CancelSent, CloseNothing, CloseBlocked, CloseAfterCancel, CloseCreate, CloseStillPending,
   CloseRefused, CloseRecheck, FlattenAll, FlattenNext, ConfirmFlat

(* The broker's own moves: more fills make the report an older one.         *)
LEMMA HeardMoves ==
  ASSUME EInv, AgreeInv, NEW only \in Symbols, Heard(only), BrokerMoves
  PROVE  Heard(only)'
<1>1. UNCHANGED agenda
  BY DEF BrokerMoves, BrokerFills, BrokerEnds, StopOut, MoveOf
<1>2. /\ orders \in [IntentIds -> Order] /\ only \in IntentIds
      /\ orders[only].filled_units \in Nat
  BY FlatTypes
<1>3. \/ /\ orders'[only].filled_units = orders[only].filled_units
         /\ orders'[only].protected = orders[only].protected
      \/ orders'[only].filled_units \in Nat /\ orders'[only].filled_units > orders[only].filled_units
  <2>1. CASE \E i \in IntentIds, n \in Units, protected \in Protection : BrokerFills(i, n, protected)
    <3>1. PICK i \in IntentIds, n \in Units, protected \in Protection : BrokerFills(i, n, protected)
      BY <2>1
    <3>2. /\ orders' = [orders EXCEPT ![i] = [state |-> FillState(intents[i].units, n),
                                              filled_units |-> n, protected |-> protected]]
          /\ n \in (orders[i].filled_units + 1)..intents[i].units /\ n \in Nat
      BY <3>1 DEF BrokerFills, Units
    <3>3. CASE i = only
      <4>1. orders'[only].filled_units = n
        BY <1>2, <3>2, <3>3
      <4>2. n > orders[only].filled_units
        BY <1>2, <3>2, <3>3
      <4>3. QED
        BY <3>2, <4>1, <4>2
    <3>4. CASE i # only
      BY <1>2, <3>2, <3>4
    <3>5. QED
      BY <3>3, <3>4
  <2>2. CASE \E i \in IntentIds, state \in {"CANCELLED", "EXPIRED", "REJECTED"} : BrokerEnds(i, state)
    <3>1. PICK i \in IntentIds, state \in {"CANCELLED", "EXPIRED", "REJECTED"} :
            orders' = [orders EXCEPT ![i].state = state]
      BY <2>2 DEF BrokerEnds
    <3>2. QED
      BY <1>2, <3>1 DEF Order
  <2>3. CASE \E s \in Symbols : StopOut(s)
    BY <2>3 DEF StopOut
  <2>4. QED
    BY <2>1, <2>2, <2>3 DEF BrokerMoves
<1>4. ASSUME agenda # <<>>, Top.op = "apply", Top.id = only
      PROVE  Top.report.filled_units \in Nat /\ Top.report.filled_units <= orders[only].filled_units
  <2>1. Told(Top.report, Top.id)
    BY <1>4 DEF AgreeInv, Ahead, AheadCall, Top, Rest, Urgent
  <2>2. Top.report \in Reports
    BY <1>4, Topmost DEF EInv, Typed
  <2>3. Top.report.filled_units \in Nat
    BY <2>2 DEF Reports, BrokerOrder, Units
  <2>4. QED
    BY <1>4, <2>1, <2>3 DEF Told
<1>5. Top' = Top
  BY <1>1 DEF Top
<1>6. QED
  BY <1>1, <1>2, <1>3, <1>4, <1>5 DEF Heard

(* Every step.                                                             *)
LEMMA HeardNext ==
  ASSUME EInv, EInv', AgreeInv, NEW only \in Symbols, ProtectedBut(only)', Heard(only),
         [Next]_vars
  PROVE  Heard(only)'
<1>1. ASSUME NEW s \in Seq(Low), agenda' = s PROVE Heard(only)'
  <2>1. s # <<>> => Head(s) \in Low
    BY TopAndRest
  <2>2. QED
    BY <1>1, <2>1, NothingHeard DEF Low, TopOnly
<1>2. Lenient(Frames) /\ Frames \cap Low = Low
  BY LoopGoesOn DEF Lenient, Loops, Low
<1>3. agenda \in Seq(Frames)
  BY StacksOfFrames DEF EInv
<1>4. CASE Operations
  <2>1. agenda' \in Seq(Opening)
    BY <1>4, OpeningCalls
  <2>2. agenda' # <<>> => Head(agenda') \in Opening
    BY <2>1, TopAndRest
  <2>3. QED
    BY <2>2, NothingHeard DEF Opening, Urgent
<1>5. CASE BrokerMoves
  BY <1>5, HeardMoves
<1>6. CASE Crash \/ Release
  BY <1>6, NothingHeard DEF Crash, Release
<1>7. CASE UNCHANGED vars
  BY <1>7 DEF vars, brokerVars, Heard, Top
<1>8. CASE SendAccepted \/ AskCancel \/ QueryAnswered
  BY <1>8, HeardAnswers
<1>9. CASE PauseCall \/ UnreconciledCall
  <2>1. (Running("pause") \/ Running("unreconciled")) /\ agenda' = Then(<<>>)
    BY <1>9 DEF PauseCall, UnreconciledCall
  <2>2. Orderly(Then(<<>>), Due, Known)
    BY <2>1, OrderlyBlocked DEF EInv, AgreeInv
  <2>3. QED
    BY <2>1, <2>2, NothingHeard DEF Orderly, Urgent
<1>10. CASE ApplyReport
  <2>1. Running("apply") /\ agenda' = Then(IncidentCalls(Top.report))
    BY <1>10 DEF ApplyReport
  <2>2. Top.report \in Reports /\ Rest \in Seq(Low)
    BY <2>1, TopCall DEF Typed
  <2>3. QED
    BY <1>1, <2>1, <2>2, IncidentStack
<1>11. CASE ReconcileAll
  <2> DEFINE todo == {e \in Snapshot : e.state \notin {"CREATED", "APPROVED", "REJECTED"}}
  <2>1. todo \in SUBSET Entries
    BY SnapshotRows DEF EInv
  <2>2. /\ LoopFrame("reconcile", todo, TRUE) \in Low
    BY <2>1, LoopFrames DEF Loops, LoopEntries
  <2>3. agenda' = Above(LoopFrame("reconcile", todo, TRUE), Rest)
    BY <1>11 DEF ReconcileAll, Loop, LoopFrame, Above
  <2>4. Rest \in Seq(Low)
    BY <1>11, TopCall DEF ReconcileAll
  <2> HIDE DEF todo
  <2>5. QED
    BY <1>1, <2>2, <2>3, <2>4, AboveProperties
<1>12. CASE QueryUnseen \/ QueryFailed
  <2>1. Running("reconcile")
    BY <1>12 DEF QueryUnseen, QueryFailed
  <2>2. PICK e \in Top.todo, value \in BOOLEAN :
          agenda' = <<[Without(e) EXCEPT !.clean = value]>> \o Rest
    <3>1. CASE QueryUnseen
      <4>1. PICK e \in Top.todo : 
              agenda' = <<[Without(e) EXCEPT !.clean = @ /\ e.state \notin ACTIVE_STATES]>> \o Rest
        BY <3>1 DEF QueryUnseen
      <4> DEFINE value == Without(e).clean /\ e.state \notin ACTIVE_STATES
      <4>2. value \in BOOLEAN
        OBVIOUS
      <4>3. [Without(e) EXCEPT !.clean = @ /\ e.state \notin ACTIVE_STATES]
              = [Without(e) EXCEPT !.clean = value]
        OBVIOUS
      <4>4. agenda' = <<[Without(e) EXCEPT !.clean = value]>> \o Rest
        BY <4>1, <4>3
      <4> HIDE DEF value
      <4>5. QED
        BY <4>2, <4>4, Zenon
    <3>2. CASE QueryFailed
      <4>1. PICK e \in Top.todo : agenda' = <<[Without(e) EXCEPT !.clean = FALSE]>> \o Rest
        BY <3>2 DEF QueryFailed
      <4>2. FALSE \in BOOLEAN
        OBVIOUS
      <4>3. QED
        BY <4>1, <4>2, Zenon
    <3>3. QED
      BY <1>12, <3>1, <3>2
  <2> DEFINE left == [Without(e) EXCEPT !.clean = value]
  <2>3. left \in Low
    <3>1. left \in Frames /\ left.op = "reconcile"
      BY <2>1, LoopLeft DEF Loops
    <3>2. QED
      BY <3>1 DEF Low, TopOnly
  <2>4. agenda' = Above(left, Rest)
    BY <2>2 DEF Above
  <2> HIDE DEF left
  <2>5. QED
    BY <1>1, <2>1, <2>3, <2>4, TopCall, AboveProperties
<1>13. CASE ReconcileEnds
  <2>1. Running("reconcile") /\ (agenda' = Then(<<>>) \/ agenda' = Then(<<Call("pause")>>))
    BY <1>13 DEF ReconcileEnds
  <2>2. Rest \in Seq(Low)
    BY <2>1, TopCall
  <2>3. Call("pause") \in Low
    BY CallFrames DEF PlainOps
  <2>4. Then(<<>>) \in Seq(Low) /\ Then(<<Call("pause")>>) \in Seq(Low)
    BY <2>2, <2>3, Returns, Calls1, AboveProperties
  <2>5. QED
    BY <1>1, <2>1, <2>4
<1>14. ASSUME ExecutorSteps, ~(SendAccepted \/ AskCancel),
              NEW op \in Calls \ {"pause", "unreconciled", "reconcile"}, Running(op), Proceeds(op)
       PROVE  Heard(only)'
  <2>1. CASE op \notin {"send", "ask_cancel"}
    BY <1>2, <1>3, <1>14, <2>1, LenientCalls, NothingHeard
  <2>2. CASE op \in {"send", "ask_cancel"}
    <3>1. SendFailed \/ SendRefused \/ AskCancelFailed
      <4>1. Top.op \in {"send", "ask_cancel"}
        BY <1>14, <2>2 DEF Running
      <4>2. QED
        BY <1>14, <4>1, ExecutorTops
    <3>2. Rest \in Seq(Low)
      BY <1>14, TopCall
    <3>3. CASE SendFailed \/ AskCancelFailed
      <4>1. agenda' = Raise(Rest)
        BY <3>3 DEF SendFailed, AskCancelFailed
      <4>2. QED
        BY <1>2, <3>2, <4>1, LenientRaise, NothingHeard
    <3>4. CASE SendRefused
      <4>1. agenda' = <<CallOn("reject", Top.id)>> \o Tail(Rest) /\ Running("send")
        BY <3>4 DEF SendRefused
      <4>2. Rest # <<>> /\ Top.id \in IntentIds
        BY <4>1, TopCall DEF EInv, Ready, ReadyCall, Running, Top, Rest, Typed, IntentOps
      <4>3. Tail(Rest) \in Seq(Low) /\ CallOn("reject", Top.id).op = "reject"
        BY <3>2, <4>2, TopAndRest, IntentFrames DEF IntentOps
      <4>4. Head(agenda') = CallOn("reject", Top.id)
        BY <4>1, <4>3, AboveProperties DEF Above
      <4>5. QED
        BY <4>3, <4>4, NothingHeard
    <3>5. QED
      BY <3>1, <3>3, <3>4
  <2>3. QED
    BY <2>1, <2>2
<1>15. CASE ExecutorSteps
  BY <1>6, <1>8, <1>9, <1>10, <1>11, <1>12, <1>13, <1>14, <1>15, ExecutorCalls
<1>16. QED
  BY <1>4, <1>5, <1>6, <1>7, <1>15 DEF Next

-----------------------------------------------------------------------------
(* A position nobody protects.                                             *)

(* The entry's position is open, unprotected in the books and, with all its *)
(* fills, at the broker, and could be closed: but it never was asked to.   *)
Bare(s) ==
  LET p == PositionOf[s] IN
  /\ positions[p].units > 0 /\ positions[p].accounting_complete /\ ~Active(s)
  /\ ~positions[p].protected /\ ~orders[s].protected
  /\ intents[s].filled_units = orders[s].filled_units
  /\ ~Row(p)

(* The store makes no position bare: no units are booked, no protection is  *)
(* lost, no row vanishes, and no entry with fills ends.                    *)
StoreSteady(s) ==
  LET p == PositionOf[s] IN
  /\ positions'[p].units = positions[p].units
  /\ positions'[p].accounting_complete = positions[p].accounting_complete
  /\ positions[p].protected => positions'[p].protected
  /\ intents'[s].filled_units = intents[s].filled_units
  /\ Active(s) => Active(s)' \/ intents[s].filled_units = 0
  /\ Row(p) => Row(p)'

(* The broker makes none bare: its protection stays, or it has filled more  *)
(* than the books know.                                                    *)
BrokerSteady(s) ==
  \/ /\ orders'[s].filled_units = orders[s].filled_units
     /\ orders[s].protected => orders'[s].protected
  \/ intents[s].filled_units # orders'[s].filled_units
  \/ intents[s].filled_units = 0

LEMMA BareStays ==
  ASSUME EInv, Ledger, NEW s \in Symbols, StoreSteady(s), BrokerSteady(s), Bare(s)'
  PROVE  Bare(s)
<1>1. PositionOf' = PositionOf
  OBVIOUS
<1> DEFINE p == PositionOf[s]
<1>2. /\ positions'[p].units > 0 /\ positions'[p].accounting_complete /\ ~Active(s)'
      /\ ~positions'[p].protected /\ ~orders'[s].protected
      /\ intents'[s].filled_units = orders'[s].filled_units
      /\ ~Row(p)'
  BY DEF Bare
<1>3. /\ positions[p].units > 0 /\ positions[p].accounting_complete /\ ~positions[p].protected
      /\ ~Row(p) /\ intents[s].filled_units = orders'[s].filled_units
  BY <1>2 DEF StoreSteady
<1>4. intents[s].filled_units # 0
  <2>1. /\ p \in PositionIds /\ positions[p].units \in Nat /\ intents[p].filled_units \in Nat
    BY FlatTypes
  <2>2. positions[p].units + intents[p].filled_units = intents[s].filled_units
    BY DEF Ledger
  <2> HIDE DEF p
  <2>3. QED
    BY <1>3, <2>1, <2>2
<1>5. ~Active(s)
  BY <1>2, <1>4 DEF StoreSteady
<1>6. ~orders[s].protected /\ intents[s].filled_units = orders[s].filled_units
  BY <1>2, <1>3, <1>4 DEF BrokerSteady
<1>7. QED
  BY <1>3, <1>5, <1>6 DEF Bare

(* The calls of the store but the booking of a report are steady.          *)
LEMMA SteadyCalls ==
  ASSUME EInv, Books, NEW s \in Symbols
  PROVE  /\ UNCHANGED <<intents, positions>> => StoreSteady(s)
         /\ \A t \in Symbols, n \in Units, stop \in StopPrices :
              CreateEntry(t, n, stop) => StoreSteady(s)
         /\ \A q \in PositionIds : \A n : CreateClose(q, n) => StoreSteady(s)
         /\ \A i \in IntentIds : \A state \in OrderState :
              /\ Transition(i, state)
              /\ state \in ACTIVE_STATES \/ intents[i].filled_units = 0
              => StoreSteady(s)
         /\ \A q \in PositionIds : \A stop : SetProtection(q, stop, TRUE) => StoreSteady(s)
<1> DEFINE p == PositionOf[s]
<1>0. p \in PositionIds /\ p \in IntentIds /\ s \in IntentIds
  BY FlatTypes
<1>1. UNCHANGED <<intents, positions>> => StoreSteady(s)
  BY DEF StoreSteady, Active, Row
<1>2. ASSUME NEW i \in IntentIds, NEW n, NEW stop, ~Row(i), UNCHANGED positions,
             intents' = [intents EXCEPT ![i] = NewIntent(n, stop)]
      PROVE  StoreSteady(s)
  <2>1. intents[i].filled_units = 0
    BY <1>2, NeverAccepted DEF Row, Unsent
  <2>2. /\ intents'[i].filled_units = 0 /\ intents'[i].state = "APPROVED"
        /\ \A j \in IntentIds : j # i => intents'[j] = intents[j]
    BY <1>2, FlatTypes DEF NewIntent
  <2>3. "APPROVED" \in ACTIVE_STATES /\ "APPROVED" # Nil
    BY NilDistinct DEF ACTIVE_STATES
  <2>4. intents'[s].filled_units = intents[s].filled_units
    BY <1>0, <2>1, <2>2
  <2>5. Active(s) => Active(s)'
    BY <1>0, <2>2, <2>3 DEF Active
  <2>6. Row(p) => Row(p)'
    BY <1>0, <2>2, <2>3 DEF Row
  <2>7. QED
    BY <1>2, <2>4, <2>5, <2>6 DEF StoreSteady
<1>3. ASSUME NEW i \in IntentIds, NEW state \in OrderState, Transition(i, state),
             state \in ACTIVE_STATES \/ intents[i].filled_units = 0
      PROVE  StoreSteady(s)
  <2>1. intents' = [intents EXCEPT ![i].state = state] /\ UNCHANGED positions /\ Row(i)
    BY <1>3 DEF Transition, bookVars
  <2>2. /\ intents'[i].state = state /\ intents'[i].filled_units = intents[i].filled_units
        /\ \A j \in IntentIds : j # i => intents'[j] = intents[j]
    BY <2>1, FlatTypes DEF OrderIntent
  <2>3. intents'[s].filled_units = intents[s].filled_units
    BY <1>0, <2>2
  <2>4. Active(s) => Active(s)' \/ intents[s].filled_units = 0
    BY <1>0, <1>3, <2>2 DEF Active
  <2>5. Row(p) => Row(p)'
    BY <1>0, <2>2, NilDistinct DEF Row
  <2>6. QED
    BY <2>1, <2>3, <2>4, <2>5 DEF StoreSteady
<1>4. ASSUME NEW q \in PositionIds, NEW stop, SetProtection(q, stop, TRUE) PROVE StoreSteady(s)
  <2>1. /\ UNCHANGED intents
        /\ positions' = [positions EXCEPT ![q].stop_price = stop, ![q].protected = TRUE]
    BY <1>4 DEF SetProtection, orderVars
  <2>2. /\ positions'[p].units = positions[p].units
        /\ positions'[p].accounting_complete = positions[p].accounting_complete
        /\ positions[p].protected => positions'[p].protected
    BY <1>0, <2>1, FlatTypes DEF Position
  <2>3. QED
    BY <2>1, <2>2 DEF StoreSteady, Active, Row
<1>5. Symbols \subseteq IntentIds /\ PositionIds \subseteq IntentIds
  BY FlatTypes
<1>6. QED
  BY <1>1, <1>2, <1>3, <1>4, <1>5 DEF CreateEntry, CreateClose, bookVars

(* A report about another entry leaves the position alone.                 *)
LEMMA SteadyReport ==
  ASSUME EInv, NEW s \in Symbols, NEW u \in Reports, ApplyBrokerOrder(u, clock),
         u.filled_units > 0 => u.position_id = PositionOfIntent(u.intent_id),
         u.intent_id # s
  PROVE  StoreSteady(s) \/ Row(PositionOf[s])'
<1> DEFINE p == PositionOf[s]
<1>0. p \in PositionIds /\ p \in IntentIds /\ s \in IntentIds
  BY FlatTypes
<1>1. PICK i \in IntentIds : i = u.intent_id
  BY DEF Reports, BrokerOrder
<1>2. u \in ReportsOf[i] /\ IInv /\ Commits(u, clock)
  BY <1>1 DEF ReportsOf, EInv, ApplyBrokerOrder
<1>3. intents' = [intents EXCEPT ![i] = Updated(u)] /\ positions' = Observed(u)
  BY <1>1 DEF ApplyBrokerOrder
<1>4. intents'[s] = intents[s]
  BY <1>0, <1>1, <1>3, FlatTypes
<1>5. CASE i = p
  <2>1. intents'[p].state = u.state /\ u.state \in OrderState
    BY <1>0, <1>2, <1>3, <1>5, FlatTypes, ReportFields DEF Updated
  <2>2. QED
    BY <2>1, NilDistinct DEF Row
<1>6. CASE i # p
  <2>1. intents'[p] = intents[p]
    BY <1>0, <1>3, <1>6, FlatTypes
  <2>2. u.filled_units > 0 => u.position_id # p
    <3>1. i \in Symbols => PositionOf[i] # p
      BY <1>1, ExecutorAssumption
    <3>2. QED
      BY <1>1, <1>6, <3>1 DEF PositionOfIntent, Kind
  <2>3. Delta(u) > 0 => u.filled_units > 0
    <3>1. /\ Delta(u) = u.filled_units - intents[i].filled_units
          /\ intents[i].filled_units \in Nat /\ u.filled_units \in Nat
      BY <1>1, <1>2, DeltaTyped, FlatTypes, ReportFields DEF Units
    <3>2. QED
      BY <3>1
  <2>4. Observes(u) => u.filled_units > 0
    BY DEF Observes, Reports, Report
  <2>5. /\ Booked(u)[p].units = positions[p].units
        /\ Booked(u)[p].accounting_complete = positions[p].accounting_complete
        /\ Booked(u)[p].protected = positions[p].protected
    <3>1. CASE Delta(u) > 0
      <4>1. u.position_id # p
        BY <2>2, <2>3, <3>1
      <4>2. Booked(u)[p] = positions[p]
        BY <1>0, <3>1, <4>1, FlatTypes DEF Booked
      <4>3. QED
        BY <4>2
    <3>2. CASE ~(Delta(u) > 0)
      <4>1. Booked(u) \in {positions, [positions EXCEPT ![u.intent_id].realized_pnl = @ - CostDelta(u)]}
        BY <3>2 DEF Booked
      <4>2. QED
        BY <1>0, <1>1, <1>6, <4>1, FlatTypes
    <3>3. QED
      BY <3>1, <3>2
  <2>6. Observed(u)[p] = Booked(u)[p]
    <3>1. CASE ~Observes(u)
      BY <3>1 DEF Observed
    <3>2. CASE Observes(u)
      <4>1. u.position_id # p
        BY <2>2, <2>4, <3>2
      <4>2. Booked(u) \in [PositionIds -> Position]
        BY <1>2, BookedPositions
      <4>3. QED
        BY <1>0, <3>2, <4>1, <4>2 DEF Observed
    <3>3. QED
      BY <3>1, <3>2
  <2>7. QED
    BY <1>3, <1>4, <2>1, <2>5, <2>6 DEF StoreSteady, Active, Row
<1>7. QED
  BY <1>5, <1>6

(* No step makes the entry's position bare but the booking of its report.   *)
LEMMA StoreSteadyNext ==
  ASSUME EInv, AgreeInv, ExposureInv, NEW s \in Symbols, [Next]_vars
  PROVE  StoreSteady(s) \/ Row(PositionOf[s])' \/ (ApplyReport /\ Top.id = s)
<1>0. Books
  BY DEF AgreeInv
<1>2. UNCHANGED <<intents, positions>> => StoreSteady(s)
  BY <1>0, SteadyCalls
<1>3. ASSUME NEW i \in IntentIds, NEW state \in OrderState, Transition(i, state),
             state \in ACTIVE_STATES \/ intents[i].filled_units = 0 \/ dispatched[i] = 0
      PROVE  StoreSteady(s)
  <2>1. dispatched[i] = 0 => intents[i].filled_units = 0
    BY <1>0, NeverAccepted
  <2>2. QED
    BY <1>0, <1>3, <2>1, SteadyCalls
<1>4. ASSUME NEW t \in Symbols, NEW n \in Units, NEW stop \in StopPrices, CreateEntry(t, n, stop)
      PROVE  StoreSteady(s)
  BY <1>0, <1>4, SteadyCalls
<1>16. /\ \A state \in ACTIVE_STATES : state \in OrderState
       /\ {"SUBMITTING", "UNKNOWN", "CANCEL_PENDING"} \subseteq ACTIVE_STATES
       /\ {"EXPIRED", "REJECTED"} \subseteq OrderState
  BY DEF OrderState, ACTIVE_STATES, TERMINAL_STATES
<1>5. CASE Operations
  <2>1. CASE \E t \in Symbols, n \in Units, stop \in StopPrices : SubmitEntry(t, n, stop)
    BY <1>4, <2>1 DEF SubmitEntry
  <2>2. CASE UNCHANGED <<intents, positions>>
    BY <1>2, <2>2
  <2>3. QED
    BY <1>5, <2>1, <2>2 DEF Operations, Enter, ArmOffline, Operation, FlattenOwned,
       TightenStop, Exit, Pause, Internal, storeVars, orderVars, bookVars
<1>6. CASE BrokerMoves \/ Crash \/ UNCHANGED vars
  BY <1>2, <1>6 DEF BrokerMoves, BrokerFills, BrokerEnds, StopOut, MoveOf, Crash, vars,
     storeVars, orderVars, bookVars
<1>7. CASE \/ PauseCall \/ UnreconciledCall \/ Release
           \/ EndIncident \/ LoopEnds("recover") \/ LoopEnds("cancel") \/ LoopEnds("flatten")
           \/ ReconcileEnds \/ CloseNothing \/ CloseBlocked \/ CloseAfterCancel
           \/ CloseStillPending \/ ConfirmFlat \/ ReconcileAll \/ QueryFailed \/ CancelAll
           \/ FlattenAll \/ FlattenNext
  BY <1>2, <1>7 DEF PauseCall, UnreconciledCall, Release, EndIncident, LoopEnds,
     ReconcileEnds, CloseNothing, CloseBlocked, CloseAfterCancel, CloseStillPending, ConfirmFlat,
     ReconcileAll, QueryFailed, CancelAll, FlattenAll, FlattenNext, Pause, SetReconciliation,
     Internal, storeVars, orderVars, bookVars
<1>8. CASE \/ SendRefused \/ ApplyRefused \/ QueryAnswered \/ AskCancelFailed \/ CloseRefused
           \/ Prepare \/ SendAccepted \/ SendFailed \/ AskCancel
  BY <1>2, <1>8 DEF SendRefused, ApplyRefused, QueryAnswered, AskCancelFailed, CloseRefused,
     Prepare, SendAccepted, SendFailed, AskCancel, Internal, storeVars, orderVars, bookVars
<1>9. CASE SetProtectionCall
  <2>1. Running("set_protection") /\ SetProtection(Top.id, Top.report, TRUE)
    BY <1>9 DEF SetProtectionCall
  <2>2. Top.id \in PositionIds
    BY <2>1, TopCall DEF Typed
  <2>3. QED
    BY <1>0, <2>1, <2>2, SteadyCalls
<1>10. CASE ToUnknown \/ Reject \/ Submit
  <2>1. /\ Running("to_unknown") \/ Running("reject") \/ Running("submit")
        /\ \/ \E state \in {"UNKNOWN", "SUBMITTING", "REJECTED"} :
                /\ Transition(Top.id, state)
                /\ state = "REJECTED" => intents[Top.id].filled_units = 0
           \/ UNCHANGED <<intents, positions>>
    BY <1>10 DEF ToUnknown, Reject, Submit, Internal, storeVars, orderVars, bookVars
  <2>2. Top.id \in IntentIds
    BY <2>1, TopCall DEF Typed, IntentOps
  <2>3. QED
    BY <1>2, <1>3, <1>16, <2>1, <2>2
<1>11. CASE Recover \/ QueryUnseen \/ CancelUnsent \/ CancelSent
  <2>0. agenda # <<>> => Top \in Fresh(dispatched)
    BY TopAndRest DEF ExposureInv, Top
  <2>1. /\ Running("recover") \/ Running("reconcile") \/ Running("cancel")
        /\ \/ \E e \in Top.todo : \E state \in {"UNKNOWN", "CANCEL_PENDING", "EXPIRED"} :
                Transition(e.id, state) /\ (state = "EXPIRED" => dispatched[e.id] = 0)
           \/ UNCHANGED <<intents, positions>>
    <3>1. CASE Recover
      <4>1. Running("recover") /\ \E e \in Top.todo : Transition(e.id, RecoveredState(e.state))
        BY <3>1 DEF Recover
      <4>2. \A e \in Top.todo : e.state = "SUBMITTING" \/ dispatched[e.id] = 0
        BY <2>0, <4>1 DEF Fresh, Running
      <4>3. QED
        BY <4>1, <4>2 DEF RecoveredState
    <3>2. CASE CancelUnsent
      <4>1. Running("cancel") /\ \E e \in Top.todo : /\ e.state \in {"CREATED", "APPROVED"}
                                                     /\ Transition(e.id, "EXPIRED")
        BY <3>2 DEF CancelUnsent
      <4>2. \A e \in Top.todo : e.state \in Unsent => dispatched[e.id] = 0
        BY <2>0, <4>1 DEF Fresh, Running
      <4>3. QED
        BY <4>1, <4>2 DEF Unsent
    <3>3. CASE QueryUnseen \/ CancelSent
      BY <3>3 DEF QueryUnseen, CancelSent, storeVars, orderVars, bookVars
    <3>4. QED
      BY <1>11, <3>1, <3>2, <3>3
  <2>2. \A e \in Top.todo : e.id \in IntentIds
    BY <2>1, TopCall DEF Typed, Entries, PendingEntries, IntentIds
  <2>3. QED
    BY <1>2, <1>3, <1>16, <2>1, <2>2
<1>12. CASE ApplyReport
  <2>1. Running("apply") /\ ApplyBrokerOrder(Top.report, clock)
    BY <1>12 DEF ApplyReport
  <2>2. /\ Top.report \in Reports /\ Top.id = Top.report.intent_id /\ agenda # <<>>
    BY <2>1, TopCall DEF Typed
  <2>3. Told(Top.report, Top.id)
    BY <2>1, <2>2 DEF AgreeInv, Ahead, AheadCall, Running, Top, Rest
  <2>4. QED
    BY <1>12, <2>1, <2>2, <2>3, SteadyReport DEF Told
<1>13. CASE CloseCreate \/ CloseRecheck
  <2>1. CASE CreateCloseOf(Top.id)
    <3>1. Top.id \in PositionIds /\ CreateClose(Top.id, positions[Top.id].units)
      BY <1>13, <2>1, CloseCreateStep DEF CloseCreate, CloseRecheck
    <3>2. QED
      BY <1>0, <3>1, SteadyCalls
  <2>2. CASE Internal
    BY <1>2, <2>2 DEF Internal, storeVars, orderVars, bookVars
  <2>3. QED
    BY <1>13, <2>1, <2>2 DEF CloseCreate, CloseRecheck
<1>14. QED
  BY <1>5, <1>6, <1>7, <1>8, <1>9, <1>10, <1>11, <1>12, <1>13 DEF Next, ExecutorSteps

LEMMA BrokerSteadyNext ==
  ASSUME EInv, AgreeInv, NEW s \in Symbols, [Next]_vars
  PROVE  BrokerSteady(s)
<1>0. Books
  BY DEF AgreeInv
<1>1. orders \in [IntentIds -> Order] /\ s \in IntentIds /\ orders[s].filled_units \in Nat
      /\ intents[s].filled_units \in Nat
  BY FlatTypes
<1>2. UNCHANGED orders => BrokerSteady(s)
  BY DEF BrokerSteady
<1>3. CASE \E p \in OpenPositions, stop \in StopPrices : TightenStop(p, stop)
  <2>1. PICK p \in OpenPositions, stop \in StopPrices : TightenStop(p, stop)
    BY <1>3
  <2>2. orders' \in {orders, [orders EXCEPT ![positions[p].owner_intent_id].protected = TRUE]}
    BY <2>1 DEF TightenStop
  <2>3. QED
    BY <1>1, <2>2 DEF BrokerSteady, Order
<1>4. CASE SendAccepted
  <2>1. Running("send")
    BY <1>4 DEF SendAccepted
  <2>2. \E o : orders' = [orders EXCEPT ![Top.id] = o]
    BY <1>4, Zenon DEF SendAccepted
  <2>3. dispatched[Top.id] = 0 /\ Top.id \in IntentIds
    BY <2>1, TopCall DEF EInv, Ready, ReadyCall, Running, Top, Rest, Typed, IntentOps
  <2>4. CASE Top.id = s
    BY <1>0, <2>3, <2>4, NeverAccepted DEF BrokerSteady
  <2>5. CASE Top.id # s
    BY <1>1, <2>2, <2>5 DEF BrokerSteady
  <2>6. QED
    BY <2>4, <2>5
<1>5. CASE AskCancel
  <2>1. Running("ask_cancel") /\ Accepted(Top.id)
    BY <1>5 DEF AskCancel
  <2>2. Top.id \in IntentIds
    BY <2>1, TopCall DEF Typed, IntentIds
  <2>3. PICK outcome \in CancelOutcomes(orders[Top.id]) : orders' = [orders EXCEPT ![Top.id] = outcome.order]
    BY <1>5 DEF AskCancel
  <2>4. /\ outcome.order.filled_units = orders[Top.id].filled_units
        /\ outcome.order.protected = orders[Top.id].protected
    BY <1>1, <2>1, <2>2, CancelOutcome DEF Accepted
  <2>5. QED
    BY <1>1, <2>2, <2>3, <2>4 DEF BrokerSteady
<1>6. CASE BrokerMoves
  <2>1. CASE \E i \in IntentIds, n \in Units, protected \in Protection : BrokerFills(i, n, protected)
    <3>1. PICK i \in IntentIds, n \in Units, protected \in Protection : BrokerFills(i, n, protected)
      BY <2>1
    <3>2. /\ orders' = [orders EXCEPT ![i] = [state |-> FillState(intents[i].units, n),
                                              filled_units |-> n, protected |-> protected]]
          /\ n \in (orders[i].filled_units + 1)..intents[i].units /\ n \in Nat
      BY <3>1 DEF BrokerFills, Units
    <3>3. CASE i = s
      <4>1. orders'[s].filled_units = n
        BY <1>1, <3>2, <3>3
      <4>2. n > orders[s].filled_units
        BY <1>1, <3>2, <3>3
      <4>3. intents[s].filled_units <= orders[s].filled_units
        BY <1>0, <1>1 DEF Books, BooksOf
      <4>4. intents[s].filled_units # orders'[s].filled_units
        BY <1>1, <3>2, <4>1, <4>2, <4>3
      <4>5. QED
        BY <4>4 DEF BrokerSteady
    <3>4. CASE i # s
      BY <1>1, <3>2, <3>4 DEF BrokerSteady
    <3>5. QED
      BY <3>3, <3>4
  <2>2. CASE \E i \in IntentIds, state \in {"CANCELLED", "EXPIRED", "REJECTED"} : BrokerEnds(i, state)
    <3>1. PICK i \in IntentIds, state \in {"CANCELLED", "EXPIRED", "REJECTED"} :
            orders' = [orders EXCEPT ![i].state = state]
      BY <2>2 DEF BrokerEnds
    <3>2. QED
      BY <1>1, <3>1 DEF Order, BrokerSteady
  <2>3. CASE \E t \in Symbols : StopOut(t)
    BY <1>2, <2>3 DEF StopOut
  <2>4. QED
    BY <1>6, <2>1, <2>2, <2>3 DEF BrokerMoves
<1>7. CASE Operations
  BY <1>2, <1>3, <1>7 DEF Operations, Enter, ArmOffline, Operation, FlattenOwned,
       SubmitEntry, Exit, Internal, Local, brokerVars
<1>8. CASE Crash \/ UNCHANGED vars
  BY <1>2, <1>8 DEF Crash, vars, brokerVars
<1>9. CASE ExecutorSteps /\ ~SendAccepted /\ ~AskCancel
  BY <1>2, <1>9 DEF ExecutorSteps, PauseCall, UnreconciledCall, ToUnknown, SetProtectionCall, Release,
     EndIncident, LoopEnds, Recover, Prepare, Submit, Reject, SendRefused, SendFailed, ApplyReport,
     ApplyRefused, ReconcileAll, QueryAnswered, QueryUnseen, QueryFailed, ReconcileEnds, CancelAll,
     CancelUnsent, CancelSent, AskCancelFailed, CloseNothing, CloseBlocked, CloseAfterCancel,
     CloseCreate, CreateCloseOf, CloseStillPending, CloseRefused, CloseRecheck, FlattenAll,
     FlattenNext, ConfirmFlat, Internal, Local, brokerVars
<1>10. QED
  BY <1>4, <1>5, <1>6, <1>7, <1>8, <1>9 DEF Next

LEMMA BareKept ==
  ASSUME EInv, AgreeInv, ExposureInv, Ledger, NEW s \in Symbols, [Next]_vars, Bare(s)'
  PROVE  Bare(s) \/ (ApplyReport /\ Top.id = s)
<1>1. ~Row(PositionOf[s])'
  BY DEF Bare
<1>2. StoreSteady(s) \/ (ApplyReport /\ Top.id = s)
  BY <1>1, StoreSteadyNext
<1>3. BrokerSteady(s)
  BY BrokerSteadyNext
<1>4. QED
  BY <1>2, <1>3, BareStays

-----------------------------------------------------------------------------
(* What the stack holds while the position was not asked to close.         *)

(* A clean loop of reconcile() has the entry ahead of it.                   *)
Asking(s) == Covers({s}, IntentIds)

LEMMA LenientKinds == Lenient(Ordinary) /\ \A s : Lenient(Asking(s))
<1>1. Lenient(Ordinary)
  <2>1. \A f \in Ordinary : f.op = "reconcile" => [f EXCEPT !.clean = FALSE] \in Ordinary
    BY LoopGoesOn DEF Ordinary, Loops
  <2>2. QED
    BY <2>1 DEF Lenient, Ordinary
<1>2. ASSUME NEW s PROVE Lenient(Asking(s))
  <2>1. \A f \in Asking(s) : f.op = "reconcile" => [f EXCEPT !.clean = FALSE] \in Asking(s)
    BY CoverUnclean DEF Asking
  <2>2. QED
    BY <2>1 DEF Lenient, Asking, Covers, Covering
<1>3. QED
  BY <1>1, <1>2

(* The rows of closes stay.                                                *)
LEMMA RowKept ==
  ASSUME EInv, AgreeInv, ExposureInv, NEW s \in Symbols, [Next]_vars, Row(PositionOf[s])
  PROVE  Row(PositionOf[s])'
<1>1. PositionOf[s] \in IntentIds /\ PositionOf[s] # s
  BY FlatTypes
<1>2. CASE StoreSteady(s)
  BY <1>2 DEF StoreSteady
<1>3. CASE ApplyReport /\ Top.id = s
  <2>1. Running("apply") /\ ApplyBrokerOrder(Top.report, clock)
    BY <1>3 DEF ApplyReport
  <2>2. Top.report.intent_id = s
    BY <1>3, <2>1, TopCall DEF Typed
  <2>3. intents' = [intents EXCEPT ![s] = Updated(Top.report)]
    BY <2>1, <2>2 DEF ApplyBrokerOrder
  <2>4. intents'[PositionOf[s]] = intents[PositionOf[s]]
    BY <1>1, <2>3, FlatTypes
  <2>5. QED
    BY <2>4 DEF Row
<1>4. QED
  BY <1>2, <1>3, StoreSteadyNext

(* A bare position belongs to the entry, which ended with fills.           *)
LEMMA BareOwner ==
  ASSUME EInv, AgreeInv, Ledger, NEW s \in Symbols, Bare(s)
  PROVE  /\ positions[PositionOf[s]].owner_intent_id = s /\ ~Active(s)
         /\ intents[s].filled_units > 0 /\ Accepted(s) /\ intents[s].broker_order_id # Nil
         /\ intents[s].state \in TERMINAL_STATES \ {"REJECTED"}
<1> DEFINE p == PositionOf[s]
<1>1. /\ positions[p].units > 0 /\ ~Active(s) /\ ~Row(p)
      /\ intents[s].filled_units = orders[s].filled_units
  BY DEF Bare
<1>2. /\ p \in PositionIds /\ p \in IntentIds /\ s \in IntentIds
      /\ positions[p].units \in Nat /\ intents[p].filled_units \in Nat
      /\ intents[s].filled_units \in Nat
  BY FlatTypes
<1>3. intents[s].filled_units > 0
  <2>1. positions[p].units + intents[p].filled_units = intents[s].filled_units
    BY DEF Ledger
  <2> HIDE DEF p
  <2>2. QED
    BY <1>1, <1>2, <2>1
<1>4. positions[p].owner_intent_id = s
  <2>1. positions[p].owner_intent_id \in Symbols \cup {Nil}
    BY <1>2, FlatTypes DEF Position
  <2>2. positions[p].owner_intent_id # Nil
    BY <1>1, <1>2 DEF EInv, IInv, NeverOversold
  <2>3. PICK t \in Symbols : positions[p].owner_intent_id = t
    BY <2>1, <2>2
  <2>4. PositionOf[t] = PositionOf[s]
    BY <1>2, <2>3 DEF Ledger
  <2>5. QED
    BY <2>3, <2>4, ExecutorAssumption
<1>5. Accepted(s) /\ orders[s].filled_units > 0
  BY <1>1, <1>2, <1>3 DEF EInv, BrokerOK, BrokerOrders
<1>6. BooksOf(s)
  BY <1>2 DEF AgreeInv, Books
<1>7. intents[s].state \in TERMINAL_STATES
  <2>1. intents[s].state # Nil
    <3>1. CASE intents[s].state = Nil
      <4>1. intents[s].filled_units = 0
        BY <1>2, <3>1, NeverAccepted DEF AgreeInv, Unsent
      <4>2. QED
        BY <1>3, <4>1
    <3>2. QED
      BY <3>1
  <2>2. intents[s].state \in OrderState \cup {Nil}
    BY <1>2, FlatTypes DEF OrderIntent
  <2>3. QED
    BY <1>1, <2>1, <2>2 DEF OrderState, Active
<1>8. intents[s].state # "REJECTED"
  <2>1. orders[s].state # "REJECTED"
    BY <1>5, <1>6 DEF BooksOf
  <2>2. QED
    BY <1>5, <1>6, <2>1 DEF BooksOf, Accepted
<1>9. intents[s].broker_order_id # Nil
  BY <1>5, <1>6, <1>7 DEF BooksOf
<1>10. QED
  BY <1>1, <1>3, <1>4, <1>5, <1>7, <1>8, <1>9

(* Putting four calls on the stack puts them one above the other.          *)
LEMMA FourAbove ==
  ASSUME NEW L, NEW f, NEW g, NEW h, NEW k, NEW below \in Seq(L)
  PROVE  <<f, g, h, k>> \o below = Above(f, Above(g, Above(h, Above(k, below))))
<1> DEFINE K == L \cup {f, g, h, k}
<1>1. <<f>> \in Seq(K) /\ <<g, h, k>> \in Seq(K) /\ below \in Seq(K)
  OBVIOUS
<1>2. <<f, g, h, k>> = <<f>> \o <<g, h, k>>
  OBVIOUS
<1>3. <<g, h, k>> \o below = Above(g, Above(h, Above(k, below)))
  BY ThreeAbove
<1>4. QED
  BY <1>1, <1>2, <1>3, ConcatAssociative DEF Above

(* An incident begins.                                                     *)
LEMMA BeginsIncident ==
  ASSUME NEW u \in Reports, Incident(u), ~InIncident, Rest \in Seq(Ordinary \cap Low)
  PROVE  Then(IncidentCalls(u)) \in Managing(u.position_id)
<1> DEFINE p == u.position_id
           close == CallOn("close", p)
           s == Above(close, Above(EndCall, Rest))
<1>1. p \in PositionIds
  BY DEF Incident, Reports, Report, BrokerOrder
<1>2. close \in CloseCalls(p)
  BY DEF CloseCalls
<1>3. Call("pause") \in CleanupCalls /\ Call("cancel_all") \in CleanupCalls
  <2>1. /\ Call("pause") \in Frames /\ Call("pause").op = "pause"
        /\ Call("cancel_all") \in Frames /\ Call("cancel_all").op = "cancel_all"
    BY CallFrames DEF PlainOps, Low
  <2>2. QED
    BY <2>1 DEF CleanupCalls, Cleanup
<1>4. s \in AtClose(p)
  BY <1>2 DEF AtClose, Concluded
<1>5. IncidentCalls(u) = <<Call("pause"), Call("cancel_all"), close, EndCall>>
  BY DEF IncidentCalls, EndCall
<1> HIDE DEF close, p
<1>6. Then(IncidentCalls(u)) = <<Call("pause"), Call("cancel_all"), close, EndCall>> \o Rest
  BY <1>5 DEF Then
<1>7. Then(IncidentCalls(u)) = Above(Call("pause"), Above(Call("cancel_all"), s))
  BY <1>6, FourAbove
<1> HIDE DEF s
<1>8. s \in Managing(p)
  BY <1>1, <1>4, AtCloseStack
<1>9. Above(Call("cancel_all"), s) \in Managing(p)
  BY <1>1, <1>3, <1>8, ManagingAbove
<1>10. Above(Call("pause"), Above(Call("cancel_all"), s)) \in Managing(p)
  BY <1>1, <1>3, <1>9, ManagingAbove
<1>11. QED
  BY <1>7, <1>10 DEF p

(* Which steps a call that closes takes.                                   *)
LEMMA ClosingTops ==
  ASSUME ExecutorSteps, Top.op \in {"close", "close_recheck"}
  PROVE  \/ CloseNothing \/ CloseBlocked \/ CloseAfterCancel \/ CloseCreate
         \/ CloseStillPending \/ CloseRefused \/ CloseRecheck
BY DEF ExecutorSteps, Running, PauseCall, UnreconciledCall, ToUnknown, SetProtectionCall, Release,
   EndIncident, LoopEnds, Recover, Prepare, Submit, Reject, SendAccepted, SendFailed, SendRefused,
   ApplyReport, ApplyRefused, ReconcileAll, QueryAnswered, QueryUnseen, QueryFailed, ReconcileEnds,
   CancelAll, CancelUnsent, CancelSent, AskCancel, AskCancelFailed, FlattenAll, FlattenNext,
   ConfirmFlat

(* The call that closes does so, or the position was not bare.             *)
LEMMA ManagingCloses ==
  ASSUME EInv, AgreeInv, Ledger, NEW s \in Symbols, agenda \in AtClose(PositionOf[s]),
         ExecutorSteps, ~Row(PositionOf[s]), ~Row(PositionOf[s])'
  PROVE  \/ agenda' \in Managing(PositionOf[s])
         \/ ~Bare(s) /\ agenda' \in Seq(Ordinary) \cup Concluding
<1>1. PICK p : p = PositionOf[s] /\ p \in PositionIds
  BY FlatTypes
<1>2. /\ agenda # <<>> /\ Top.op \in {"close", "close_recheck"} /\ Top.id = p
      /\ Rest \in Concluded
  BY <1>1, AtCloseStack DEF Top, Rest
<1>3. /\ Rest \in Seq(Low) /\ Rest # <<>> /\ Head(Rest).op = "end_incident"
      /\ Tail(Rest) \in Seq(Ordinary \cap Low) /\ Rest = Above(EndCall, Tail(Rest))
  BY <1>2, ConcludedStack
<1>4. Then(<<>>) = Rest
  BY <1>3 DEF Then, Guards
<1>5. Bare(s) => /\ positions[p].units > 0 /\ positions[p].accounting_complete
                 /\ ~OwnerActive(p)
  BY <1>1, BareOwner DEF Bare, OwnerActive
<1>6. ~Row(p) /\ ~Row(p)'
  BY <1>1
<1>7. CASE CloseNothing \/ CloseStillPending
  <2>1. /\ agenda' = Then(<<>>)
        /\ Row(p) \/ positions[p].units = 0 \/ OwnerActive(p)
    BY <1>2, <1>7 DEF CloseNothing, CloseStillPending
  <2>2. ~Bare(s)
    BY <1>1, <1>5, <1>6, <2>1, FlatTypes
  <2>3. QED
    BY <1>2, <1>4, <2>1, <2>2 DEF Concluding
<1>8. CASE CloseBlocked
  <2>1. agenda' = Then(<<Call("pause")>>) /\ ~positions[p].accounting_complete
    BY <1>2, <1>8 DEF CloseBlocked
  <2>2. agenda' = Above(Call("pause"), Rest)
    BY <2>1, Calls1
  <2>3. QED
    BY <1>2, <1>5, <2>1, <2>2 DEF Concluding
<1>9. CASE CloseAfterCancel
  <2>1. agenda' = Then(<<Call("cancel_all"), CallOn("close_recheck", p)>>)
    BY <1>2, <1>9 DEF CloseAfterCancel
  <2> DEFINE recheck == CallOn("close_recheck", p)
  <2>2. /\ Call("cancel_all") \in Low /\ Call("cancel_all") \in CleanupCalls
        /\ recheck \in Low
    <3>1. Call("cancel_all") \in Low /\ Call("cancel_all").op = "cancel_all"
      BY CallFrames DEF PlainOps
    <3>2. QED
      BY <1>1, <3>1, PositionFrames DEF CleanupCalls, Cleanup, Low
  <2>3. agenda' = Above(Call("cancel_all"), Above(recheck, Rest))
    BY <1>3, <2>1, <2>2, Calls2
  <2>4. Above(recheck, Rest) \in AtClose(p)
    BY <1>2 DEF AtClose, CloseCalls
  <2> HIDE DEF recheck
  <2>5. Above(recheck, Rest) \in Managing(p)
    BY <1>1, <2>4, AtCloseStack
  <2>6. QED
    BY <1>1, <2>2, <2>3, <2>5, ManagingAbove
<1>10. CASE CloseCreate \/ CloseRecheck
  <2>1. CASE CreateCloseOf(Top.id)
    <3>1. intents' = [intents EXCEPT ![p] = NewIntent(positions[p].units, Nil)]
      BY <1>2, <2>1 DEF CreateCloseOf, CreateClose
    <3>2. intents'[p].state = "APPROVED" /\ "APPROVED" # Nil
      BY <1>1, <3>1, FlatTypes, NilDistinct DEF NewIntent, ACTIVE_STATES
    <3>3. QED
      BY <1>6, <3>2 DEF Row
  <2>2. QED
    BY <1>2, <1>6, <1>10, <2>1 DEF CloseCreate, CloseRecheck
<1>11. CASE CloseRefused
  <2>1. /\ agenda' = Raise(Rest)
        /\ positions[p].units = 0 \/ ~positions[p].accounting_complete
    BY <1>2, <1>11 DEF CloseRefused
  <2>2. ~Bare(s)
    BY <1>1, <1>5, <2>1, FlatTypes
  <2>3. EndCall \in Low /\ EndCall.op \notin Handlers
    BY CallFrames DEF EndCall, PlainOps, Handlers, Guards
  <2>4. Tail(Rest) \in Seq(Low)
    BY <1>3, TopAndRest
  <2>5. Raise(Rest) = Raise(Tail(Rest))
    BY <1>3, <2>3, <2>4, RaisePast
  <2>6. Raise(Tail(Rest)) \in Seq(Ordinary)
    BY <1>3, LenientKinds, LenientRaise
  <2>7. QED
    BY <2>1, <2>2, <2>5, <2>6
<1>12. QED
  BY <1>2, <1>7, <1>8, <1>9, <1>10, <1>11, ClosingTops

(* The steps of an incident before it closes the position.                 *)
LEMMA CleanupSteps ==
  ASSUME EInv, EInv', AgreeInv, NEW s \in Symbols, agenda \in Managing(PositionOf[s]),
         agenda \notin AtClose(PositionOf[s]), ExecutorSteps
  PROVE  agenda' \in Managing(PositionOf[s])
<1>0. PICK p : p = PositionOf[s] /\ p \in PositionIds
  BY FlatTypes
<1>1. Top \in CleanupCalls /\ Rest \in Managing(p) /\ Top.op \in Cleanup
  BY <1>0, ManagingTop DEF Top, Rest, CleanupCalls
<1>2. Then(<<>>) \in Managing(p)
  BY <1>0, <1>1, ManagingReturn
<1>3. CASE PauseCall \/ UnreconciledCall
  BY <1>0, <1>2, <1>3 DEF PauseCall, UnreconciledCall
<1>4. CASE ApplyReport
  <2>1. agenda' = Then(IncidentCalls(Top.report))
    BY <1>4 DEF ApplyReport
  <2>2. InIncident
    BY <1>0, ManagingTop DEF InIncident
  <2>3. IncidentCalls(Top.report) \in {<<>>, <<Call("pause")>>}
    BY <2>2 DEF IncidentCalls
  <2>4. Then(<<Call("pause")>>) = Above(Call("pause"), Rest)
    BY Calls1
  <2>5. Call("pause") \in CleanupCalls
    <3>1. Call("pause") \in Frames /\ Call("pause").op = "pause"
      BY CallFrames DEF PlainOps, Low
    <3>2. QED
      BY <3>1 DEF CleanupCalls, Cleanup
  <2>6. Above(Call("pause"), Rest) \in Managing(p)
    BY <1>0, <1>1, <2>5, ManagingAbove
  <2>7. QED
    BY <1>0, <1>2, <2>1, <2>3, <2>4, <2>6
<1>5. ASSUME NEW op \in Calls \ {"pause", "unreconciled", "reconcile"}, Running(op), Proceeds(op)
      PROVE  agenda' \in Managing(p)
  <2>1. op \in Cleanup \ {"pause", "unreconciled"}
    BY <1>1, <1>5 DEF Running
  <2>2. QED
    BY <1>0, <1>5, <2>1, ManagingCalls DEF AgreeInv
<1>6. ~(Release \/ ReconcileAll \/ QueryAnswered \/ QueryUnseen \/ QueryFailed \/ ReconcileEnds)
  BY <1>1 DEF Cleanup, Release, ReconcileAll, QueryAnswered, QueryUnseen, QueryFailed,
     ReconcileEnds, Running
<1>7. QED
  BY <1>0, <1>3, <1>4, <1>5, <1>6, ExecutorCalls

(* The steps of an incident that has yet to close the position.            *)
LEMMA ManagingSteps ==
  ASSUME EInv, EInv', AgreeInv, Ledger, NEW s \in Symbols, agenda \in Managing(PositionOf[s]),
         ExecutorSteps, ~Row(PositionOf[s]), ~Row(PositionOf[s])'
  PROVE  \/ agenda' \in Managing(PositionOf[s])
         \/ ~Bare(s) /\ agenda' \in Seq(Ordinary) \cup Concluding
BY CleanupSteps, ManagingCloses

(* What a query leaves on the stack.                                       *)
LEMMA QueryLeaves ==
  ASSUME EInv
  PROVE  /\ QueryAnswered =>
              \E e \in Top.todo, u \in BrokerOrder, value \in BOOLEAN :
                /\ Accepted(e.id) /\ u \in Answers(e.id)
                /\ value => Without(e).clean
                /\ agenda' = <<Apply(u), [Without(e) EXCEPT !.clean = value]>> \o Rest
         /\ QueryUnseen \/ QueryFailed =>
              \E e \in Top.todo, value \in BOOLEAN :
                /\ value => Without(e).clean /\ (~Accepted(e.id) \/ e.id \in unseen')
                /\ agenda' = <<[Without(e) EXCEPT !.clean = value]>> \o Rest
<1>1. ASSUME QueryAnswered
      PROVE  \E e \in Top.todo, u \in BrokerOrder, value \in BOOLEAN :
               /\ Accepted(e.id) /\ u \in Answers(e.id)
               /\ value => Without(e).clean
               /\ agenda' = <<Apply(u), [Without(e) EXCEPT !.clean = value]>> \o Rest
  <2>1. Running("reconcile") /\ Top.todo \in SUBSET Entries
    BY <1>1, TopCall DEF QueryAnswered, Typed
  <2>2. PICK e \in Top.todo :
          /\ Accepted(e.id)
          /\ \E u \in Answers(e.id) :
               agenda' = <<Apply(u), [Without(e) EXCEPT !.clean = @ /\ u.state # "UNKNOWN"]>> \o Rest
    BY <1>1 DEF QueryAnswered
  <2>3. PICK u \in Answers(e.id) :
          agenda' = <<Apply(u), [Without(e) EXCEPT !.clean = @ /\ u.state # "UNKNOWN"]>> \o Rest
    BY <2>2
  <2>4. u \in BrokerOrder
    <3>1. e.id \in IntentIds
      BY <2>1 DEF Entries
    <3>2. u \in Reports
      BY <2>2, <3>1, AnswersAreReports DEF EInv
    <3>3. QED
      BY <3>2 DEF Reports
  <2> DEFINE value == Without(e).clean /\ u.state # "UNKNOWN"
  <2>5. value \in BOOLEAN /\ (value => Without(e).clean)
    OBVIOUS
  <2>6. [Without(e) EXCEPT !.clean = @ /\ u.state # "UNKNOWN"] = [Without(e) EXCEPT !.clean = value]
    OBVIOUS
  <2>7. agenda' = <<Apply(u), [Without(e) EXCEPT !.clean = value]>> \o Rest
    BY <2>3, <2>6
  <2> HIDE DEF value
  <2>8. QED
    BY <2>2, <2>4, <2>5, <2>7, Zenon
<1>2. ASSUME QueryUnseen \/ QueryFailed
      PROVE  \E e \in Top.todo, value \in BOOLEAN :
               /\ value => Without(e).clean /\ (~Accepted(e.id) \/ e.id \in unseen')
               /\ agenda' = <<[Without(e) EXCEPT !.clean = value]>> \o Rest
  <2>1. CASE QueryUnseen
    <3>1. PICK e \in Top.todo :
            /\ agenda' = <<[Without(e) EXCEPT !.clean = @ /\ e.state \notin ACTIVE_STATES]>> \o Rest
            /\ Accepted(e.id) /\ e.state \notin ACTIVE_STATES => e.id \in unseen'
      BY <2>1 DEF QueryUnseen
    <3> DEFINE value == Without(e).clean /\ e.state \notin ACTIVE_STATES
    <3>2. /\ value \in BOOLEAN /\ (value => Without(e).clean)
          /\ value => ~Accepted(e.id) \/ e.id \in unseen'
      BY <3>1
    <3>3. [Without(e) EXCEPT !.clean = @ /\ e.state \notin ACTIVE_STATES]
            = [Without(e) EXCEPT !.clean = value]
      OBVIOUS
    <3>4. agenda' = <<[Without(e) EXCEPT !.clean = value]>> \o Rest
      BY <3>1, <3>3
    <3> HIDE DEF value
    <3>5. QED
      BY <3>1, <3>2, <3>4, Zenon
  <2>2. CASE QueryFailed
    <3>1. PICK e \in Top.todo : agenda' = <<[Without(e) EXCEPT !.clean = FALSE]>> \o Rest
      BY <2>2 DEF QueryFailed
    <3>2. FALSE \in BOOLEAN
      OBVIOUS
    <3>3. QED
      BY <3>1, <3>2, Zenon
  <2>3. QED
    BY <1>2, <2>1, <2>2
<1>3. QED
  BY <1>1, <1>2

(* The stack is that of no incident, of one that has yet to close the       *)
(* position, or of one that has.                                           *)
Shaped(p) == agenda \in Seq(Ordinary) \/ agenda \in Managing(p) \/ agenda \in Concluding

(* The stack while no incident is under way.                               *)
LEMMA OrdinarySteps ==
  ASSUME EInv, EInv', AgreeInv, NEW s \in Symbols, Heard(s), agenda \in Seq(Ordinary),
         ExecutorSteps
  PROVE  Shaped(PositionOf[s])'
<1>1. Lenient(Ordinary)
  BY LenientKinds
<1>2. ASSUME agenda' \in Seq(Ordinary) PROVE Shaped(PositionOf[s])'
  BY <1>2 DEF Shaped
<1>3. agenda \in Stacks
  BY DEF EInv
<1>4. ASSUME NEW op, Running(op), op \notin {"pause", "unreconciled"}
      PROVE  Rest \in Seq(Ordinary \cap Low) /\ Rest \in Seq(Ordinary)
  <2>1. Rest \in Seq(Ordinary \cap Low)
    BY <1>3, <1>4, LenientRest
  <2>2. Ordinary \cap Low \subseteq Ordinary
    OBVIOUS
  <2>3. QED
    BY <2>1, <2>2, SeqMonotonic
<1>5. CASE PauseCall \/ UnreconciledCall
  <2>1. agenda # <<>> /\ Top.op \in {"pause", "unreconciled"} /\ agenda' = Then(<<>>)
    BY <1>5 DEF PauseCall, UnreconciledCall, Running
  <2>2. QED
    BY <1>2, <2>1, LenientGate
<1>6. CASE Release
  BY <1>2, <1>6 DEF Release
<1>7. CASE ApplyReport
  <2>1. Running("apply") /\ agenda' = Then(IncidentCalls(Top.report)) /\ agenda # <<>> /\ Top.op = "apply"
    BY <1>7 DEF ApplyReport, Running
  <2>2. Top.report \in Reports /\ Top.id = Top.report.intent_id
    BY <2>1, TopCall DEF Typed
  <2>3. Rest \in Seq(Ordinary \cap Low) /\ Rest \in Seq(Ordinary)
    BY <1>4, <2>1
  <2>4. CASE ~Incident(Top.report)
    <3>1. agenda' = Then(<<>>)
      BY <2>1, <2>4 DEF IncidentCalls
    <3>2. QED
      BY <1>2, <2>3, <3>1, Returns
  <2>5. CASE Incident(Top.report) /\ InIncident
    <3>1. agenda' = Above(Call("pause"), Rest)
      BY <2>1, <2>5, Calls1 DEF IncidentCalls
    <3>2. Call("pause") \in Ordinary
      BY CallFrames DEF PlainOps, Low, Ordinary
    <3>3. QED
      BY <1>2, <2>3, <3>1, <3>2, AboveProperties
  <2>6. CASE Incident(Top.report) /\ ~InIncident
    <3>1. Top.id \in Symbols /\ Top.report.filled_units > 0 /\ ~Top.report.protected
      BY <2>2, <2>6 DEF Incident, Kind
    <3>2. Top.id = s
      BY <2>1, <3>1 DEF Heard
    <3>3. Told(Top.report, Top.id)
      BY <2>1 DEF AgreeInv, Ahead, AheadCall, Top, Rest
    <3>4. Top.report.position_id = PositionOf[s]
      BY <3>1, <3>2, <3>3 DEF Told, PositionOfIntent, Kind
    <3>5. agenda' \in Managing(PositionOf[s])
      BY <2>1, <2>2, <2>3, <2>6, <3>4, BeginsIncident
    <3>6. QED
      BY <3>5 DEF Shaped
  <2>7. QED
    BY <2>4, <2>5, <2>6
<1>8. CASE ReconcileAll
  <2> DEFINE todo == {e \in Snapshot : e.state \notin {"CREATED", "APPROVED", "REJECTED"}}
             loop == LoopFrame("reconcile", todo, TRUE)
  <2>1. todo \in SUBSET Entries
    BY SnapshotRows DEF EInv
  <2>2. loop \in Ordinary
    <3>1. loop \in Low /\ loop.op = "reconcile"
      BY <2>1, LoopFrames DEF Loops, LoopEntries
    <3>2. QED
      BY <3>1 DEF Ordinary, Low
  <2>3. agenda' = Above(loop, Rest) /\ Running("reconcile_all")
    BY <1>8 DEF ReconcileAll, Loop, LoopFrame, Above
  <2> HIDE DEF loop, todo
  <2>4. QED
    BY <1>2, <1>4, <2>2, <2>3, AboveProperties
<1>9. CASE QueryAnswered
  <2>1. Running("reconcile") /\ Rest \in Seq(Low)
    BY <1>9, TopCall DEF QueryAnswered
  <2>2. agenda' # <<>> => Head(agenda') \in Frames /\ Tail(agenda') \in Seq(Frames)
    <3>1. agenda' \in Seq(Frames)
      BY StacksOfFrames DEF EInv
    <3>2. QED
      BY <3>1, TopAndRest
  <2>3. PICK e \in Top.todo, u \in BrokerOrder, value \in BOOLEAN :
          agenda' = <<Apply(u), [Without(e) EXCEPT !.clean = value]>> \o Rest
    BY <1>9, QueryLeaves
  <2> DEFINE left == [Without(e) EXCEPT !.clean = value]
  <2>4. left \in Ordinary
    <3>1. left \in Frames /\ left.op = "reconcile"
      BY <2>1, LoopLeft DEF Loops
    <3>2. QED
      BY <3>1 DEF Ordinary
  <2>5. Rest \in Seq(Ordinary)
    BY <1>4, <2>1
  <2> HIDE DEF left
  <2>6. agenda' = Above(Apply(u), Above(left, Rest)) /\ Above(left, Rest) \in Seq(Ordinary)
    <3>1. agenda' = <<Apply(u), left>> \o Rest
      BY <2>3 DEF left
    <3>2. <<Apply(u), left>> \o Rest = Above(Apply(u), Above(left, Rest))
      BY <2>5, TwoAbove
    <3>3. Above(left, Rest) \in Seq(Ordinary)
      BY <2>4, <2>5, AboveProperties
    <3>4. QED
      BY <3>1, <3>2, <3>3
  <2>7. Apply(u) \in Frames /\ Apply(u).op = "apply"
    <3>1. agenda' # <<>> /\ Head(agenda') = Apply(u)
      BY <2>6, AboveProperties
    <3>2. QED
      BY <2>2, <3>1 DEF Apply, Frame
  <2>8. Apply(u) \in Ordinary
    BY <2>7 DEF Ordinary
  <2>9. QED
    BY <1>2, <2>6, <2>8, AboveProperties
<1>10. CASE QueryUnseen \/ QueryFailed
  <2>1. Running("reconcile")
    BY <1>10 DEF QueryUnseen, QueryFailed
  <2>2. PICK e \in Top.todo, value \in BOOLEAN :
          agenda' = <<[Without(e) EXCEPT !.clean = value]>> \o Rest
    BY <1>10, QueryLeaves
  <2> DEFINE left == [Without(e) EXCEPT !.clean = value]
  <2>4. left \in Ordinary
    <3>1. left \in Frames /\ left.op = "reconcile"
      BY <2>1, LoopLeft DEF Loops
    <3>2. QED
      BY <3>1 DEF Ordinary
  <2>5. agenda' = Above(left, Rest)
    BY <2>2 DEF Above
  <2> HIDE DEF left
  <2>6. QED
    BY <1>2, <1>4, <2>1, <2>4, <2>5, AboveProperties
<1>11. CASE ReconcileEnds
  <2>1. Running("reconcile") /\ (agenda' = Then(<<>>) \/ agenda' = Then(<<Call("pause")>>))
    BY <1>11 DEF ReconcileEnds
  <2>2. Rest \in Seq(Ordinary)
    BY <1>4, <2>1
  <2>3. Call("pause") \in Ordinary
    BY CallFrames DEF PlainOps, Low, Ordinary
  <2>4. QED
    BY <1>2, <2>1, <2>2, <2>3, Returns, Calls1, AboveProperties
<1>12. ASSUME NEW op \in Calls \ {"pause", "unreconciled", "reconcile"}, Running(op), Proceeds(op)
       PROVE  Shaped(PositionOf[s])'
  BY <1>1, <1>2, <1>12, LenientCalls
<1>13. QED
  BY <1>5, <1>6, <1>7, <1>8, <1>9, <1>10, <1>11, <1>12, ExecutorCalls

(* The end of an incident.                                                 *)
LEMMA ConcludingSteps ==
  ASSUME agenda \in Concluding, ExecutorSteps
  PROVE  agenda' \in Seq(Ordinary) \cup Concluding
<1>1. ASSUME NEW t \in Concluded
      PROVE  /\ t # <<>> /\ Head(t).op = "end_incident" /\ Tail(t) \in Seq(Ordinary)
             /\ t \in Seq(Low)
  <2>1. /\ t # <<>> /\ Head(t).op = "end_incident" /\ Tail(t) \in Seq(Ordinary \cap Low)
        /\ t \in Seq(Low)
    BY <1>1, ConcludedStack
  <2>2. Ordinary \cap Low \subseteq Ordinary
    OBVIOUS
  <2>3. QED
    BY <2>1, <2>2, SeqMonotonic
<1>2. CASE agenda \in Concluded
  <2>1. Top.op = "end_incident" /\ Rest \in Seq(Ordinary)
    BY <1>1, <1>2 DEF Top, Rest
  <2>2. agenda' = Then(<<>>)
    BY <2>1 DEF ExecutorSteps, Running, PauseCall, UnreconciledCall, ToUnknown, SetProtectionCall,
       Release, EndIncident, LoopEnds, Recover, Prepare, Submit, Reject, SendAccepted, SendFailed,
       SendRefused, ApplyReport, ApplyRefused, ReconcileAll, QueryAnswered, QueryUnseen,
       QueryFailed, ReconcileEnds, CancelAll, CancelUnsent, CancelSent, AskCancel, AskCancelFailed,
       CloseNothing, CloseBlocked, CloseAfterCancel, CloseCreate, CloseStillPending, CloseRefused,
       CloseRecheck, FlattenAll, FlattenNext, ConfirmFlat
  <2>3. QED
    BY <2>1, <2>2, Returns
<1>3. CASE agenda \in {Above(Call("pause"), t) : t \in Concluded}
  <2>1. PICK t \in Concluded : agenda = Above(Call("pause"), t)
    BY <1>3
  <2>2. Top = Call("pause") /\ Rest = t
    BY <1>1, <2>1, AboveProperties DEF Top, Rest
  <2>3. Top.op = "pause"
    BY <2>2, CallFrames DEF PlainOps
  <2>4. agenda' = Then(<<>>)
    BY <2>3 DEF ExecutorSteps, Running, PauseCall, UnreconciledCall, ToUnknown, SetProtectionCall,
       Release, EndIncident, LoopEnds, Recover, Prepare, Submit, Reject, SendAccepted, SendFailed,
       SendRefused, ApplyReport, ApplyRefused, ReconcileAll, QueryAnswered, QueryUnseen,
       QueryFailed, ReconcileEnds, CancelAll, CancelUnsent, CancelSent, AskCancel, AskCancelFailed,
       CloseNothing, CloseBlocked, CloseAfterCancel, CloseCreate, CloseStillPending, CloseRefused,
       CloseRecheck, FlattenAll, FlattenNext, ConfirmFlat
  <2>5. Then(<<>>) = t
    BY <1>1, <2>2 DEF Then, Guards
  <2>6. QED
    BY <2>4, <2>5 DEF Concluding
<1>4. QED
  BY <1>2, <1>3 DEF Concluding

(* What the owner's operations leave.                                      *)
LEMMA OpeningKinds ==
  /\ Opening \subseteq Ordinary /\ \A s : Opening \subseteq Asking(s)
  /\ \A t \in Seq(Opening) : t \in Seq(Ordinary) /\ \A s : t \in Seq(Asking(s))
<1>1. Opening \subseteq Ordinary /\ \A s : Opening \subseteq Asking(s)
  BY DEF Opening, Ordinary, Asking, Covers, Covering
<1>2. QED
  BY <1>1, SeqMonotonic

LEMMA ShapedNext ==
  ASSUME EInv, EInv', AgreeInv, Ledger, NEW s \in Symbols, Heard(s), Shaped(PositionOf[s]),
         [Next]_vars, ~Row(PositionOf[s]), ~Row(PositionOf[s])'
  PROVE  Shaped(PositionOf[s])'
<1>1. CASE Operations
  <2>1. agenda' \in Seq(Ordinary)
    BY <1>1, OpeningCalls, OpeningKinds
  <2>2. QED
    BY <2>1 DEF Shaped
<1>2. CASE BrokerMoves \/ UNCHANGED vars
  BY <1>2 DEF BrokerMoves, BrokerFills, BrokerEnds, StopOut, MoveOf, vars, Shaped
<1>3. CASE Crash
  BY <1>3 DEF Crash, Shaped
<1>4. CASE ExecutorSteps
  <2>1. CASE agenda \in Seq(Ordinary)
    BY <1>4, <2>1, OrdinarySteps
  <2>2. CASE agenda \in Managing(PositionOf[s])
    BY <1>4, <2>2, ManagingSteps DEF Shaped
  <2>3. CASE agenda \in Concluding
    BY <1>4, <2>3, ConcludingSteps DEF Shaped
  <2>4. QED
    BY <2>1, <2>2, <2>3 DEF Shaped
<1>5. QED
  BY <1>1, <1>2, <1>3, <1>4 DEF Next

-----------------------------------------------------------------------------
(* A bare position is on the executor's mind.                              *)

(* It is about to be closed, the report that shows it is about to be        *)
(* booked, or entries are blocked until a reconcile() has asked for it.     *)
Intended(s) ==
  \/ agenda \in Managing(PositionOf[s])
  \/ agenda # <<>> /\ Top.op = "apply" /\ Top.id = s
  \/ agenda \in Seq(Asking(s)) /\ (Reconciling(agenda) \/ ~reconciliation_ok \/ Warned(agenda))

Minded(s) == started /\ Bare(s) => Intended(s) \/ s \in unseen

(* The report that shows it begins its incident.                           *)
LEMMA BookedBare ==
  ASSUME EInv, EInv', AgreeInv, Ledger, Ledger', AgreeInv', NEW s \in Symbols, Heard(s),
         Shaped(PositionOf[s]), ~Row(PositionOf[s]), ~Row(PositionOf[s])',
         ApplyReport, Top.id = s, Bare(s)'
  PROVE  Intended(s)'
<1>1. /\ Running("apply") /\ ApplyBrokerOrder(Top.report, clock) /\ UNCHANGED orders
      /\ agenda' = Then(IncidentCalls(Top.report)) /\ agenda # <<>> /\ Top.op = "apply"
  BY DEF ApplyReport, Running, Local, brokerVars
<1>2. Top.report \in Reports /\ Top.report.intent_id = s /\ Top \in Frames
  BY <1>1, TopCall DEF Typed
<1>3. s \in IntentIds
  BY FlatTypes
<1>4. intents'[s].filled_units = Top.report.filled_units
  <2>1. intents' = [intents EXCEPT ![s] = Updated(Top.report)]
    BY <1>1, <1>2 DEF ApplyBrokerOrder
  <2>2. QED
    BY <1>3, <2>1, FlatTypes DEF Updated
<1>5. Top.report.filled_units = orders[s].filled_units /\ ~orders[s].protected
  BY <1>1, <1>4 DEF Bare
<1>6. ~Top.report.protected
  BY <1>1, <1>5 DEF Heard
<1>7. Top.report.filled_units > 0
  <2>1. (intents[s].filled_units > 0)'
    BY BareOwner, PTL
  <2>2. QED
    BY <1>4, <2>1
<1>8. Incident(Top.report)
  BY <1>2, <1>6, <1>7 DEF Incident, Kind
<1>9. CASE agenda \in Seq(Ordinary)
  <2>1. Rest \in Seq(Ordinary \cap Low)
    BY <1>1, <1>9, LenientRest DEF EInv
  <2>2. ~InIncident
    <3>1. \A k \in 1..Len(agenda) : agenda[k] \in Ordinary
      BY <1>9, ElementOfSeq
    <3>2. QED
      BY <3>1 DEF InIncident, Ordinary
  <2>3. Told(Top.report, Top.id)
    BY <1>1 DEF AgreeInv, Ahead, AheadCall, Top, Rest
  <2>4. Top.report.position_id = PositionOf[s]
    BY <1>7, <2>3 DEF Told, PositionOfIntent, Kind
  <2>5. agenda' \in Managing(PositionOf[s])
    BY <1>1, <1>2, <1>8, <2>1, <2>2, <2>4, BeginsIncident
  <2>6. QED
    BY <2>5 DEF Intended
<1>10. CASE agenda \in Managing(PositionOf[s])
  <2>1. agenda \notin AtClose(PositionOf[s])
    <3>1. PositionOf[s] \in PositionIds
      BY FlatTypes
    <3>2. QED
      BY <1>1, <3>1, AtCloseStack DEF Top
  <2>2. ExecutorSteps
    BY DEF ExecutorSteps
  <2>3. agenda' \in Managing(PositionOf[s])
    BY <1>10, <2>1, <2>2, CleanupSteps
  <2>4. QED
    BY <2>3 DEF Intended
<1>11. CASE agenda \in Concluding
  <2>1. Top.op # "apply"
    <3>1. CASE agenda \in Concluded
      BY <3>1, ConcludedStack DEF Top
    <3>2. CASE agenda \in {Above(Call("pause"), t) : t \in Concluded}
      <4>1. PICK t \in Concluded : agenda = Above(Call("pause"), t)
        BY <3>2
      <4>2. Top = Call("pause")
        BY <4>1, ConcludedStack, AboveProperties DEF Top
      <4>3. QED
        BY <4>2, CallFrames DEF PlainOps
    <3>3. QED
      BY <1>11, <3>1, <3>2 DEF Concluding
  <2>2. QED
    BY <1>1, <2>1
<1>12. QED
  BY <1>9, <1>10, <1>11 DEF Shaped

(* The report of a bare position that the store refuses, in reconcile().    *)
LEMMA RefusedAsks ==
  ASSUME EInv, AgreeInv, Ledger, NEW s \in Symbols, ApplyRefused, Top.id = s, Bare(s)
  PROVE  agenda' \in Seq(Asking(s)) /\ Reconciling(agenda')
<1>1. Running("apply") /\ agenda # <<>> /\ Top.op = "apply" /\ agenda' = Raise(Rest)
  BY DEF ApplyRefused, Running
<1>2. Rest \in Seq(Low) /\ agenda = Above(Top, Rest)
  BY <1>1, TopCall, Topmost DEF EInv
<1>3. ~Active(s)
  BY DEF Bare
<1>4. ~Tried(Top, Rest)
  BY <1>3 DEF Tried, Active, ACTIVE_STATES
<1>5. Rest # <<>> /\ Head(Rest).op = "reconcile"
  BY <1>1, <1>4 DEF AgreeInv, Ahead, AheadCall, Urgent, Queried, Top, Rest
<1>6. Once(Rest)
  BY <1>2, OnceAbove DEF AgreeInv
<1>7. Tail(Rest) \in Seq(Low) /\ ~Reconciling(Tail(Rest)) /\ Head(Rest) \in Low
  BY <1>2, <1>5, <1>6, OnceBelow, TopAndRest DEF Settlers
<1>8. Tail(Rest) \in Seq(Asking(s))
  <2>1. \A f \in Low : f.op # "reconcile" => f \in Asking(s)
    BY DEF Asking, Covers, Covering, Low
  <2>2. Len(Tail(Rest)) \in Nat /\ \A k \in 1..Len(Tail(Rest)) : Tail(Rest)[k] \in Low
    BY <1>7, LenProperties, ElementOfSeq
  <2>3. \A k \in 1..Len(Tail(Rest)) : Tail(Rest)[k].op # "reconcile"
    BY <1>7 DEF Reconciling
  <2>4. \A k \in 1..Len(Tail(Rest)) : Tail(Rest)[k] \in Asking(s)
    BY <2>1, <2>2, <2>3
  <2>5. ASSUME NEW K, NEW M, NEW t \in Seq(K), \A k \in 1..Len(t) : t[k] \in M PROVE t \in Seq(M)
    BY <2>5
  <2>6. QED
    BY <1>7, <2>4, <2>5
<1> DEFINE left == [Head(Rest) EXCEPT !.clean = FALSE]
<1>9. Raise(Rest) = Above(left, Tail(Rest))
  BY <1>2, <1>5, RaiseHandled
<1>10. left \in Asking(s) /\ left.op = "reconcile"
  <2>1. Head(Rest) \in Frames /\ Head(Rest).op \in Loops
    BY <1>5, <1>7 DEF Low, Loops
  <2>2. Head(Rest).todo \in SUBSET Entries
    BY <1>5, <2>1, FrameFields DEF Typed
  <2>3. left \in Frames /\ left.op = "reconcile" /\ left.todo = Head(Rest).todo /\ left.clean = FALSE
    BY <1>5, <2>1, LoopGoesOn
  <2> HIDE DEF left
  <2>4. \A e \in left.todo : e.id \in IntentIds
    BY <2>2, <2>3 DEF Entries
  <2>5. QED
    BY <2>3, <2>4 DEF Asking, Covers, Covering
<1> HIDE DEF left
<1>11. Above(left, Tail(Rest)) \in Seq(Asking(s))
  BY <1>8, <1>10, AboveProperties
<1>12. Reconciling(Above(left, Tail(Rest)))
  BY <1>8, <1>10, ReconcilingAbove
<1>13. QED
  BY <1>1, <1>9, <1>11, <1>12

(* A reconcile() that begins asks for a bare entry: its row is finished.    *)
LEMMA AsksAgain ==
  ASSUME EInv, AgreeInv, Ledger, NEW s \in Symbols, Bare(s), ReconcileAll
  PROVE  agenda' \in Seq(Asking(s)) /\ Reconciling(agenda')
<1> DEFINE todo == {e \in Snapshot : e.state \notin {"CREATED", "APPROVED", "REJECTED"}}
           loop == LoopFrame("reconcile", todo, TRUE)
           entry == [id |-> s, state |-> intents[s].state]
<1>1. todo \in SUBSET Entries
  BY SnapshotRows DEF EInv
<1>2. entry \in todo /\ entry.id = s
  <2>1. intents[s].state \in TERMINAL_STATES \ {"REJECTED"} /\ s \in IntentIds
    BY BareOwner, FlatTypes
  <2>2. intents[s].state \notin {Nil, "CREATED", "APPROVED", "REJECTED"}
    BY <2>1, NilDistinct DEF TERMINAL_STATES, OrderState
  <2>3. QED
    BY <2>1, <2>2 DEF Snapshot, Row
<1> HIDE DEF entry, todo
<1>3. loop \in Low /\ loop.op = "reconcile" /\ loop.todo = todo
  <2>1. "reconcile" \in Loops /\ LoopEntries("reconcile") = Entries /\ TRUE \in BOOLEAN
    BY DEF Loops, LoopEntries
  <2>2. QED
    BY <1>1, <2>1, LoopFrames
<1>4. agenda' = Above(loop, Rest) /\ Running("reconcile_all")
  BY DEF ReconcileAll, Loop, LoopFrame, Above, todo
<1> HIDE DEF loop
<1>5. loop \in Asking(s)
  <2>1. \A e \in loop.todo : e.id \in IntentIds
    BY <1>1, <1>3 DEF Entries
  <2>2. QED
    BY <1>2, <1>3, <2>1 DEF Asking, Covers, Covering, Low
<1>6. Rest \in Seq(Asking(s))
  <2>1. agenda \in Stacks /\ agenda \in Seq(Covers(Due, Known)) /\ Once(agenda)
    BY DEF EInv, AgreeInv
  <2>2. Rest \in Seq(CoverLow(Due, Known)) /\ ~Reconciling(Rest)
    BY <1>4, <2>1, CoverRest DEF Settlers
  <2>3. Rest \in Seq(Low)
    BY <2>2, SeqMonotonic DEF CoverLow
  <2>4. Rest \in Seq(CoverLow({s}, IntentIds))
    BY <2>2, <2>3, CoverNone
  <2>5. CoverLow({s}, IntentIds) \subseteq Asking(s)
    BY DEF CoverLow, Asking
  <2>6. QED
    BY <2>4, <2>5, SeqMonotonic
<1>7. QED
  BY <1>3, <1>4, <1>5, <1>6, AboveProperties, ReconcilingAbove

(* Steps while entries stay blocked until a reconcile() has asked for it.   *)
LEMMA AskingSteps ==
  ASSUME EInv, EInv', AgreeInv, Ledger, NEW s \in Symbols, Bare(s), agenda \in Seq(Asking(s)),
         Reconciling(agenda) \/ ~reconciliation_ok \/ Warned(agenda),
         ExecutorSteps, ~(ApplyReport /\ Top.id = s)
  PROVE  ~started' \/ Intended(s)' \/ s \in unseen'
<1>1. Lenient(Asking(s)) /\ agenda \in Stacks /\ Once(agenda)
  BY LenientKinds DEF EInv, AgreeInv
<1>2. ASSUME agenda' \in Seq(Asking(s)),
             Reconciling(agenda') \/ ~reconciliation_ok' \/ Warned(agenda')
      PROVE  Intended(s)'
  BY <1>2 DEF Intended
<1>3. ASSUME NEW op, Running(op), op \notin {"pause", "unreconciled"}
      PROVE  /\ Rest \in Seq(CoverLow({s}, IntentIds)) /\ Rest \in Seq(Asking(s))
             /\ Top \in Asking(s) /\ Once(Rest) /\ ~Warned(agenda)
             /\ Reconciling(agenda) <=> op = "reconcile" \/ Reconciling(Rest)
  <2>1. Rest \in Seq(CoverLow({s}, IntentIds)) /\ Top \in Asking(s) /\ Once(Rest)
    BY <1>1, <1>3, CoverRest DEF Asking
  <2>2. Reconciling(agenda) <=> op = "reconcile" \/ Reconciling(Rest)
    BY <1>1, <1>3, LenientRest
  <2>3. ~Warned(agenda)
    BY <1>3 DEF Warned, Running, Top
  <2>4. CoverLow({s}, IntentIds) \subseteq Asking(s)
    BY DEF CoverLow, Asking
  <2>5. QED
    BY <2>1, <2>2, <2>3, <2>4, SeqMonotonic
<1>4. Call("pause") \in Asking(s)
  BY CoverPlain DEF PlainOps, Asking
<1>5. CASE PauseCall
  <2>1. /\ Running("pause") /\ agenda # <<>> /\ Top.op = "pause" /\ agenda' = Then(<<>>)
        /\ UNCHANGED reconciliation_ok
    BY <1>5 DEF PauseCall, Running, Pause
  <2>2. agenda' \in Seq(Asking(s)) /\ (Reconciling(agenda) => Reconciling(agenda'))
    BY <1>1, <2>1, LenientGate
  <2>3. Warned(agenda) => Warned(agenda')
    <3>1. ASSUME Warned(agenda) PROVE Rest # <<>> /\ Head(Rest).op = "unreconciled"
      BY <2>1, <3>1 DEF Warned, Top, Rest
    <3>2. Rest # <<>> /\ Head(Rest).op = "unreconciled" => Then(<<>>) = Rest
      BY <1>1, <2>1, OrderlyBlocked DEF Asking
    <3>3. QED
      BY <2>1, <3>1, <3>2 DEF Warned
  <2>4. QED
    BY <1>2, <2>1, <2>2, <2>3
<1>6. CASE UnreconciledCall
  <2>1. /\ agenda # <<>> /\ Top.op = "unreconciled" /\ agenda' = Then(<<>>)
        /\ reconciliation_ok' = FALSE
    BY <1>6 DEF UnreconciledCall, Running, SetReconciliation
  <2>2. agenda' \in Seq(Asking(s))
    BY <1>1, <2>1, LenientGate
  <2>3. QED
    BY <1>2, <2>1, <2>2
<1>7. CASE Release
  BY <1>7 DEF Release
<1>8. CASE ApplyReport
  <2>1. /\ Running("apply") /\ agenda' = Then(IncidentCalls(Top.report))
        /\ ~reconciliation_ok => ~reconciliation_ok'
    BY <1>8 DEF ApplyReport, ApplyBrokerOrder
  <2>2. Top.report \in Reports /\ Rest \in Seq(Low)
    BY <2>1, TopCall DEF Typed
  <2>3. agenda' \in Seq(Asking(s))
    BY <1>3, <2>1, <2>2, IncidentCover DEF Orderly, Asking
  <2>4. Reconciling(Rest) => Reconciling(agenda')
    BY <2>1, <2>2, IncidentStack
  <2>5. QED
    BY <1>2, <1>3, <2>1, <2>3, <2>4
<1>9. CASE ReconcileAll
  <2>1. agenda' \in Seq(Asking(s)) /\ Reconciling(agenda')
    BY <1>9, AsksAgain
  <2>2. QED
    BY <1>2, <2>1
<1>10. ASSUME Running("reconcile"), NEW e, NEW value \in BOOLEAN, value => Without(e).clean,
              value => e.id # s
       PROVE  LET left == [Without(e) EXCEPT !.clean = value]
              IN /\ left \in Asking(s) /\ left.op = "reconcile"
                 /\ Above(left, Rest) \in Seq(Asking(s)) /\ Reconciling(Above(left, Rest))
  <2> DEFINE left == [Without(e) EXCEPT !.clean = value]
  <2>1. Rest \in Seq(Asking(s)) /\ Top \in Asking(s)
    BY <1>3, <1>10
  <2>2. Without(e).clean = Top.clean
    BY <1>10, LeftClean
  <2>3. left \in Asking(s) /\ left.op = "reconcile"
    <3>1. Top \in Covers({s}, IntentIds) /\ {s} \subseteq {s}
      BY <2>1 DEF Asking
    <3>2. value => Top.clean /\ e.id \notin {s}
      BY <1>10, <2>2
    <3>3. left \in Covers({s}, IntentIds) /\ left.op = "reconcile"
      BY <1>10, <3>1, <3>2, CoverLeft
    <3>4. QED
      BY <3>3 DEF Asking
  <2> HIDE DEF left
  <2>4. Above(left, Rest) \in Seq(Asking(s)) /\ Reconciling(Above(left, Rest))
    BY <2>1, <2>3, AboveProperties, ReconcilingAbove
  <2>5. QED
    BY <2>3, <2>4 DEF left
<1>11. CASE QueryAnswered
  <2>1. PICK e \in Top.todo, u \in BrokerOrder, value \in BOOLEAN :
          /\ Accepted(e.id) /\ u \in Answers(e.id)
          /\ value => Without(e).clean
          /\ agenda' = <<Apply(u), [Without(e) EXCEPT !.clean = value]>> \o Rest
    BY <1>11, QueryLeaves
  <2>2. Running("reconcile") /\ Top.todo \in SUBSET Entries
    BY <1>11, TopCall DEF QueryAnswered, Typed
  <2>3. e.id \in IntentIds /\ u \in Reports /\ u.intent_id = e.id
    <3>1. e.id \in IntentIds
      BY <2>2 DEF Entries
    <3>2. QED
      BY <2>1, <3>1, AnswersAreReports DEF EInv
  <2>4. Apply(u) \in Frames /\ Apply(u).op = "apply" /\ Apply(u).id = e.id
    BY <2>3, ApplyFrames
  <2> DEFINE left == [Without(e) EXCEPT !.clean = value]
  <2>6. Rest \in Seq(Asking(s))
    BY <1>3, <2>2
  <2>5. agenda' = Above(Apply(u), Above(left, Rest))
    <3>1. agenda' = <<Apply(u), left>> \o Rest
      BY <2>1
    <3> HIDE DEF left
    <3>2. <<Apply(u), left>> \o Rest = Above(Apply(u), Above(left, Rest))
      BY <2>6, TwoAbove
    <3>3. QED
      BY <3>1, <3>2
  <2>7. CASE e.id = s
    <3>1. Above(left, Rest) \in Seq({left} \cup Asking(s))
      <4>1. Rest \in Seq({left} \cup Asking(s))
        <5>1. Asking(s) \subseteq {left} \cup Asking(s)
          OBVIOUS
        <5>2. QED
          BY <2>6, <5>1, SeqMonotonic
      <4>2. QED
        BY <4>1, AboveProperties
    <3>2. agenda' # <<>> /\ Head(agenda') = Apply(u)
      BY <2>5, <3>1, AboveProperties
    <3>3. QED
      BY <2>4, <2>7, <3>2 DEF Intended, Top
  <2>8. CASE e.id # s
    <3>1. left \in Asking(s) /\ Above(left, Rest) \in Seq(Asking(s)) /\ Reconciling(Above(left, Rest))
      BY <1>10, <2>1, <2>2, <2>8
    <3>2. Apply(u) \in Asking(s)
      BY <2>4 DEF Asking, Covers, Covering
    <3> HIDE DEF left
    <3>3. agenda' \in Seq(Asking(s)) /\ Reconciling(agenda')
      BY <2>5, <3>1, <3>2, AboveProperties, ReconcilingAbove
    <3>4. QED
      BY <1>2, <3>3
  <2>9. QED
    BY <2>7, <2>8
<1>12. CASE QueryUnseen \/ QueryFailed
  <2>1. PICK e \in Top.todo, value \in BOOLEAN :
          /\ value => Without(e).clean /\ (~Accepted(e.id) \/ e.id \in unseen')
          /\ agenda' = <<[Without(e) EXCEPT !.clean = value]>> \o Rest
    BY <1>12, QueryLeaves
  <2>2. Running("reconcile")
    BY <1>12 DEF QueryUnseen, QueryFailed
  <2>3. CASE value /\ e.id = s
    BY <2>1, <2>3, BareOwner
  <2>4. CASE ~(value /\ e.id = s)
    <3> DEFINE left == [Without(e) EXCEPT !.clean = value]
    <3>1. Above(left, Rest) \in Seq(Asking(s)) /\ Reconciling(Above(left, Rest))
      BY <1>10, <2>1, <2>2, <2>4
    <3>2. agenda' = Above(left, Rest)
      BY <2>1 DEF Above
    <3> HIDE DEF left
    <3>3. QED
      BY <1>2, <3>1, <3>2
  <2>5. QED
    BY <2>3, <2>4
<1>13. CASE ReconcileEnds
  <2>1. /\ Running("reconcile") /\ Top.todo = {} /\ reconciliation_ok' = ReconciledCleanly
        /\ agenda' = Then(IF ReconciledCleanly THEN <<>> ELSE <<Call("pause")>>)
    BY <1>13 DEF ReconcileEnds, SetReconciliation
  <2>2. ~Top.clean
    <3>1. Top \in Asking(s) /\ Top.op = "reconcile"
      BY <1>3, <2>1 DEF Running
    <3>2. QED
      BY <2>1, <3>1 DEF Asking, Covers, Covering
  <2>3. ~ReconciledCleanly
    BY <2>2 DEF ReconciledCleanly
  <2>4. agenda' = Above(Call("pause"), Rest)
    BY <2>1, <2>3, Calls1
  <2>5. agenda' \in Seq(Asking(s))
    BY <1>3, <1>4, <2>1, <2>4, AboveProperties
  <2>6. QED
    BY <1>2, <2>1, <2>3, <2>5
<1>14. ASSUME NEW op \in Calls \ {"pause", "unreconciled", "reconcile"}, Running(op), Proceeds(op),
              UNCHANGED reconciliation_ok
       PROVE  Intended(s)'
  <2>1. agenda' \in Seq(Asking(s)) /\ (Reconciling(agenda) => Reconciling(agenda'))
    BY <1>1, <1>14, LenientCalls
  <2>2. ~Warned(agenda)
    BY <1>3, <1>14
  <2>3. QED
    BY <1>2, <1>14, <2>1, <2>2
<1>15. QED
  BY <1>5, <1>6, <1>7, <1>8, <1>9, <1>11, <1>12, <1>13, <1>14, ExecutorCalls

(* Booking its report, or hearing it refused, is all a report about it does. *)
LEMMA ExecutorApplies ==
  ASSUME ExecutorSteps, Top.op = "apply"
  PROVE  ApplyReport \/ ApplyRefused
BY DEF ExecutorSteps, Running, PauseCall, UnreconciledCall, ToUnknown, SetProtectionCall, Release,
   EndIncident, LoopEnds, Recover, Prepare, Submit, Reject, SendRefused, SendAccepted, SendFailed,
   ReconcileAll, QueryAnswered, QueryUnseen, QueryFailed, ReconcileEnds, CancelAll, CancelUnsent,
   CancelSent, AskCancel, AskCancelFailed, CloseNothing, CloseBlocked, CloseAfterCancel,
   CloseCreate, CloseStillPending, CloseRefused, CloseRecheck, FlattenAll, FlattenNext, ConfirmFlat

(* With nothing left to do, only a block on entries is a care for it.       *)
LEMMA IdleIntends ==
  ASSUME EInv, NEW s \in Symbols, agenda = <<>>, Intended(s)
  PROVE  ~reconciliation_ok
<1>1. PositionOf[s] \in PositionIds
  BY FlatTypes
<1>2. agenda \notin Managing(PositionOf[s])
  BY <1>1, ManagingTop
<1>3. ~Reconciling(agenda) /\ ~Warned(agenda)
  BY DEF Reconciling, Warned
<1>4. QED
  BY <1>2, <1>3 DEF Intended

(* The executor's steps never put it out of mind.                          *)
LEMMA MindedSteps ==
  ASSUME EInv, EInv', AgreeInv, Ledger, NEW s \in Symbols, ExecutorSteps, Bare(s), Intended(s),
         ~Row(PositionOf[s]), ~Row(PositionOf[s])', ~(ApplyReport /\ Top.id = s), Bare(s)'
  PROVE  ~started' \/ Intended(s)' \/ s \in unseen'
<1>1. CASE agenda \in Managing(PositionOf[s])
  <2>1. agenda' \in Managing(PositionOf[s])
    BY <1>1, ManagingSteps
  <2>2. QED
    BY <2>1 DEF Intended
<1>2. CASE agenda # <<>> /\ Top.op = "apply" /\ Top.id = s
  <2>1. ApplyRefused
    BY <1>2, ExecutorApplies
  <2>2. agenda' \in Seq(Asking(s)) /\ Reconciling(agenda')
    BY <1>2, <2>1, RefusedAsks
  <2>3. QED
    BY <2>2 DEF Intended
<1>3. CASE agenda \in Seq(Asking(s)) /\ (Reconciling(agenda) \/ ~reconciliation_ok \/ Warned(agenda))
  BY <1>3, AskingSteps
<1>4. QED
  BY <1>1, <1>2, <1>3 DEF Intended

(* An unseen order stays so until the next reconcile() begins.             *)
LEMMA UnseenStay ==
  ASSUME [Next]_vars, ~ReconcileAll
  PROVE  unseen \subseteq unseen'
<1>1. CASE \/ PauseCall \/ UnreconciledCall \/ ToUnknown \/ SetProtectionCall \/ Release
           \/ EndIncident \/ LoopEnds("recover") \/ LoopEnds("cancel") \/ LoopEnds("flatten")
           \/ Recover \/ Prepare \/ Submit \/ Reject \/ SendRefused \/ SendAccepted \/ SendFailed
  BY <1>1 DEF PauseCall, UnreconciledCall, ToUnknown, SetProtectionCall, Release, EndIncident,
     LoopEnds, Recover, Prepare, Submit, Reject, SendRefused, SendAccepted, SendFailed, Internal,
     Local, brokerVars
<1>2. CASE \/ ApplyReport \/ ApplyRefused \/ QueryAnswered \/ QueryUnseen
           \/ QueryFailed \/ ReconcileEnds \/ CancelAll \/ CancelUnsent \/ CancelSent
           \/ AskCancel \/ AskCancelFailed
  BY <1>2 DEF ApplyReport, ApplyRefused, QueryAnswered, QueryUnseen, QueryFailed, ReconcileEnds,
     CancelAll, CancelUnsent, CancelSent, AskCancel, AskCancelFailed, Internal, Local, brokerVars
<1>3. CASE \/ CloseNothing \/ CloseBlocked \/ CloseAfterCancel \/ CloseCreate
           \/ CloseStillPending \/ CloseRefused \/ CloseRecheck
           \/ FlattenAll \/ FlattenNext \/ ConfirmFlat
  BY <1>3 DEF CloseNothing, CloseBlocked, CloseAfterCancel, CloseCreate, CreateCloseOf,
     CloseStillPending, CloseRefused, CloseRecheck, FlattenAll, FlattenNext, ConfirmFlat, Internal,
     Local, brokerVars
<1>4. CASE Operations
  BY <1>4 DEF Operations, Enter, SubmitEntry, ArmOffline, Operation, FlattenOwned, TightenStop,
     Exit, Internal, Local, brokerVars
<1>5. CASE BrokerMoves \/ Crash \/ UNCHANGED vars
  BY <1>5 DEF BrokerMoves, BrokerFills, BrokerEnds, StopOut, MoveOf, Crash, vars, brokerVars
<1>6. QED
  BY <1>1, <1>2, <1>3, <1>4, <1>5 DEF Next, ExecutorSteps

(* Nor does any other step.                                                *)
LEMMA MindedNext ==
  ASSUME EInv, EInv', AgreeInv, AgreeInv', ExposureInv, Ledger, Ledger', NEW s \in Symbols,
         Heard(s), Shaped(PositionOf[s]), Minded(s), [Next]_vars,
         ~Row(PositionOf[s]), ~Row(PositionOf[s])'
  PROVE  Minded(s)'
<1>1. SUFFICES ASSUME started', Bare(s)', s \notin unseen' PROVE Intended(s)'
  BY DEF Minded
<1>2. CASE ApplyReport /\ Top.id = s
  BY <1>1, <1>2, BookedBare
<1>3. CASE ~(ApplyReport /\ Top.id = s) /\ ReconcileAll
  <2>1. Bare(s)
    BY <1>1, <1>3, BareKept
  <2>2. agenda' \in Seq(Asking(s)) /\ Reconciling(agenda')
    BY <1>3, <2>1, AsksAgain
  <2>3. QED
    BY <2>2 DEF Intended
<1>4. CASE ~(ApplyReport /\ Top.id = s) /\ ~ReconcileAll
  <2>1. Bare(s)
    BY <1>1, <1>4, BareKept
  <2>2. started => Intended(s)
    BY <1>1, <1>4, <2>1, UnseenStay DEF Minded
  <2>3. CASE Operations
    <3>1. agenda' \in Seq(Asking(s))
      BY <2>3, OpeningCalls, OpeningKinds
    <3>2. ~reconciliation_ok' \/ Warned(agenda')
      <4>1. CASE Idle /\ UNCHANGED reconciliation_ok
        BY <2>2, <4>1, IdleIntends DEF Idle
      <4>2. CASE ~started /\ Warned(agenda')
        BY <4>2
      <4>3. QED
        BY <2>3, <4>1, <4>2, OpeningCalls
    <3>3. QED
      BY <3>1, <3>2 DEF Intended
  <2>4. CASE BrokerMoves \/ UNCHANGED vars
    <3>1. UNCHANGED <<agenda, started, reconciliation_ok>>
      BY <2>4 DEF BrokerMoves, BrokerFills, BrokerEnds, StopOut, MoveOf, vars, storeVars,
                  gateVars
    <3>2. Intended(s)
      BY <1>1, <2>2, <3>1
    <3>3. QED
      BY <3>1, <3>2 DEF Intended, Top, Reconciling, Warned
  <2>5. CASE Crash
    BY <1>1, <2>5 DEF Crash
  <2>6. CASE ExecutorSteps
    <3>1. started
      BY <2>6 DEF ExecutorSteps, Running, PauseCall, UnreconciledCall, ToUnknown,
         SetProtectionCall, Release, EndIncident, LoopEnds, Recover, Prepare, Submit, Reject,
         SendRefused, SendAccepted, SendFailed, ApplyReport, ApplyRefused, ReconcileAll,
         QueryAnswered, QueryUnseen, QueryFailed, ReconcileEnds, CancelAll, CancelUnsent,
         CancelSent, AskCancel, AskCancelFailed, CloseNothing, CloseBlocked, CloseAfterCancel,
         CloseCreate, CloseStillPending, CloseRefused, CloseRecheck, FlattenAll, FlattenNext,
         ConfirmFlat
    <3>2. QED
      BY <1>1, <1>4, <2>1, <2>2, <2>6, <3>1, MindedSteps
  <2>7. QED
    BY <2>3, <2>4, <2>5, <2>6 DEF Next
<1>5. QED
  BY <1>2, <1>3, <1>4

-----------------------------------------------------------------------------
(* The invariant of one incident: its close has a row, or the stack is of   *)
(* one of three shapes and a bare position is on the executor's mind.       *)
CloseInv(s) ==
  /\ Heard(s)
  /\ Row(PositionOf[s]) \/ (Shaped(PositionOf[s]) /\ Minded(s))

LEMMA CloseInit ==
  ASSUME NEW s \in Symbols, Init
  PROVE  CloseInv(s)
<1>1. ~started /\ agenda = <<>> /\ <<>> \in Seq(Ordinary)
  BY DEF Init
<1>2. QED
  BY <1>1 DEF CloseInv, Heard, Shaped, Minded

LEMMA CloseNext ==
  ASSUME EInv, EInv', AgreeInv, AgreeInv', ExposureInv, Ledger, Ledger', NEW only \in Symbols,
         ProtectedBut(only)', CloseInv(only), [Next]_vars
  PROVE  CloseInv(only)'
<1>1. Heard(only) /\ Heard(only)'
  BY HeardNext DEF CloseInv
<1>2. CASE Row(PositionOf[only])'
  BY <1>1, <1>2 DEF CloseInv
<1>3. CASE ~Row(PositionOf[only])'
  <2>1. ~Row(PositionOf[only])
    BY <1>3, RowKept
  <2>2. Shaped(PositionOf[only]) /\ Minded(only)
    BY <2>1 DEF CloseInv
  <2>3. Shaped(PositionOf[only])' /\ Minded(only)'
    BY <1>1, <1>3, <2>1, <2>2, ShapedNext, MindedNext
  <2>4. QED
    BY <1>1, <2>3 DEF CloseInv
<1>4. QED
  BY <1>2, <1>3

(* An idle executor that trusts its books has closed what was bare.         *)
LEMMA IdleCloses ==
  ASSUME EInv, AgreeInv, Ledger, NEW only \in Symbols, ProtectedBut(only), CloseInv(only)
  PROVE  UnprotectedIsClosed
<1>1. SUFFICES ASSUME Idle, reconciliation_ok, NEW s \in Symbols, s \notin unseen, Bare(s)
               PROVE  FALSE
  BY DEF UnprotectedIsClosed, Bare
<1>2. CASE s = only
  <2>1. Intended(s)
    BY <1>1, <1>2 DEF CloseInv, Minded, Idle, Bare
  <2>2. QED
    BY <1>1, <2>1, IdleIntends DEF Idle
<1>3. CASE s # only
  <2>1. intents[s].filled_units > 0 /\ intents[s].filled_units = orders[s].filled_units
    BY <1>1, BareOwner DEF Bare
  <2>2. orders[s].protected
    BY <1>1, <1>3, <2>1 DEF ProtectedBut
  <2>3. QED
    BY <1>1, <2>2 DEF Bare
<1>4. QED
  BY <1>2, <1>3

(* What engine.py's _apply promises of a fill without protection: as long as *)
(* no other entry's fills are unprotected at the broker, an executor that is *)
(* idle and trusts its reconciliation has asked to close every position it   *)
(* has booked for a finished entry that the broker left unprotected, and     *)
(* showed to that reconciliation.  The hypothesis is what                    *)
(* _incident_management needs: it does not nest.                             *)
THEOREM OneIncidentIsClosed ==
  ASSUME NEW only \in Symbols
  PROVE  Spec /\ []ProtectedBut(only) => []UnprotectedIsClosed
<1>1. EInv /\ GateInv /\ ExposureInv /\ AgreeInv /\ [Next]_vars => AgreeInv'
  BY AgreedNext
<1>2. EInv /\ GateInv /\ [Next]_vars => GateInv'
  BY EInvNext, GateNext
<1>3. EInv /\ ExposureInv /\ [Next]_vars => ExposureInv'
  BY ExposureNext
<1>4. EInv /\ AgreeInv /\ FlatInv /\ [Next]_vars => FlatInv'
  BY FlatNext
<1>5. FlatInv => Ledger
  BY DEF FlatInv
<1>6. /\ EInv /\ EInv' /\ AgreeInv /\ AgreeInv' /\ ExposureInv /\ Ledger /\ Ledger'
      /\ ProtectedBut(only)' /\ CloseInv(only) /\ [Next]_vars
      => CloseInv(only)'
  BY CloseNext
<1>7. Init => CloseInv(only)
  BY CloseInit
<1>8. EInv /\ AgreeInv /\ Ledger /\ ProtectedBut(only) /\ CloseInv(only) => UnprotectedIsClosed
  BY IdleCloses
<1>9. QED
  BY <1>1, <1>2, <1>3, <1>4, <1>5, <1>6, <1>7, <1>8, AgreedInit, FlatInit, GateInit,
     ExposureInit, ExecutorInvariant, PTL DEF Spec

(* An executor of one symbol never meets a second incident: what it leaves   *)
(* unprotected and idle is being closed, or its last reconciliation was not  *)
(* shown the entry.                                                          *)
THEOREM LoneEntryIsClosed ==
  ASSUME NEW only \in Symbols, Symbols = {only}
  PROVE  Spec => []UnprotectedIsClosed
<1>1. ProtectedBut(only)
  BY DEF ProtectedBut
<1>2. Spec /\ []ProtectedBut(only) => []UnprotectedIsClosed
  BY OneIncidentIsClosed
<1>3. QED
  BY <1>1, <1>2, PTL
=============================================================================
