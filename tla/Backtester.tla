----------------------------- MODULE Backtester -----------------------------
(***************************************************************************)
(* run_backtest (backtesting/engine.py): the sessions are decided, by      *)
(* replay or at once, and then traded one event at a time against the      *)
(* dataset, each entry sized by the risk engine on the current books.      *)
(***************************************************************************)
EXTENDS ReplayAsOf, RiskSizing

CONSTANTS
  Friction,   \* half the spread and the slippage, in money per unit
  Latency     \* ticks between a signal and its submission

(* BacktestConfig: no friction pays, and an order takes time to arrive.    *)
ASSUME BacktestAssumption == Friction \in Nat /\ Latency \in Nat \ {0}

VARIABLES
  replayed,   \* run_backtest was given a replay
  session,    \* the session being traded: 0 before the first, Days + 1 after the last
  events,     \* its events not yet handled
  seen,       \* seen_intents
  reference, realized_start,
  book        \* cash, pending orders, positions, trades, rejections, incidents

tradeVars == <<session, events, seen, reference, realized_start, book>>
vars == <<replayVars, replayed, tradeVars>>

Executable(price, direction) == price + direction * Friction
Fee(u, price) == FixedPerSide + Commission(u) + HalfImpact * u * u

Of(set, s) == CHOOSE x \in set : x.signal.symbol = s
Holds(set, s) == \E x \in set : x.signal.symbol = s
Without(set, s) == {x \in set : x.signal.symbol # s}

Gross == Sum(LAMBDA p : p.mark * p.units, book.positions)

\* A result that forgets the fee paid at the entry.
NetOfExit(u, entry, entry_fee, exit, exit_fee) == u * (exit - entry) - exit_fee

Net(u, entry, entry_fee, exit, exit_fee) == u * (exit - entry) - entry_fee - exit_fee

Realized == Sum(LAMBDA t : t.net, book.trades)

\* close(): the position becomes a trade and its proceeds go to cash.
Closed(b, s, price, at, reason) ==
  LET p     == Of(b.positions, s)
      exit  == Executable(price, -1)
      fee   == Fee(p.units, exit)
  IN  [b EXCEPT !.positions = Without(@, s),
                !.cash = @ + p.units * exit - fee,
                !.trades = @ \cup {[signal |-> p.signal, sent |-> p.sent, entry_at |-> p.filled,
                                    exit_at |-> at, units |-> p.units, entry |-> p.entry,
                                    price |-> price, reason |-> reason,
                                    net |-> Net(p.units, p.entry, p.fee, exit, fee)]}]

Rejected(b, signal, reason) == [b EXCEPT !.rejects = @ \cup {[signal |-> signal, reason |-> reason]}]
Incident(b, symbols, at, reason) ==
  [b EXCEPT !.incidents = @ \cup {[symbols |-> symbols, at |-> at, reason |-> reason]}]

-----------------------------------------------------------------------------
(* Events: closes before opens before signals at one instant.              *)
ClosedAt(bar) == IF replayed THEN bar.available ELSE EndTime(bar)
CloseHappens(bar) == replayed => bar.available <= MarketClose(bar.day)

\* Instruments without a signal never have an order: their events change nothing.
Signalled == UNION {SymbolsOf(decisions[d].signals) : d \in Sessions}

EventsOf(d) ==
  LET today == {b \in bars : b.day = d /\ b.symbol \in Signalled}
  IN  {[kind |-> "open", at |-> b.at, order |-> 1, rank |-> 0, symbol |-> b.symbol, item |-> b] :
         b \in today}
        \cup {[kind |-> "close", at |-> ClosedAt(b), order |-> 0, rank |-> 0,
               symbol |-> b.symbol, item |-> b] : b \in {b \in today : CloseHappens(b)}}
        \cup {[kind |-> "signal", at |-> s.available + Latency, order |-> 2, rank |-> s.rank,
               symbol |-> s.symbol, item |-> s] : s \in decisions[d].signals}

\* Tuples of Python compare from the left; equal keys keep an order nobody chose.
NotAfter(e, f) ==
  \/ e.order < f.order
  \/ e.order = f.order /\ e.rank < f.rank
  \/ e.order = f.order /\ e.rank = f.rank /\ IndexOf(e.symbol) <= IndexOf(f.symbol)
Due ==
  LET soonest == Min({e.at : e \in events})
      now     == {e \in events : e.at = soonest}
  IN  {e \in now : \A f \in now : NotAfter(e, f)}

-----------------------------------------------------------------------------
(* What the risk engine is shown when a signal is submitted.               *)
Request(e) ==
  [ask |-> Executable(e.item.reference, 1), bid |-> Executable(e.item.reference, -1),
   stop |-> e.item.stop, reference |-> e.item.reference, now |-> e.at,
   available |-> e.item.available, expires |-> e.item.expires,
   window_open |-> e.at < EntriesEnd(session)]

Portfolio ==
  [reference     |-> Min({reference, Allocated}),
   equity        |-> book.cash + Gross,
   cash          |-> book.cash,
   gross         |-> Gross,
   reserved_cash |-> Sum(LAMBDA o : o.decision.notional + o.decision.cost, book.pending),
   reserved_risk |-> Sum(LAMBDA o : o.decision.risk, book.pending)
                       + Sum(LAMBDA p : p.risk, book.positions),
   positions     |-> Cardinality(book.pending) + Cardinality(book.positions),
   pnl           |-> Realized - realized_start
                       + Sum(LAMBDA p : (p.mark - p.entry) * p.units - p.fee, book.positions),
   paused        |-> \E p \in book.positions : p.signal.day # session]

Submit(e) ==
  IF e.item \in seen THEN book
  ELSE LET decision == Assess(Request(e), Portfolio)
       IN  IF decision.approved
           THEN [book EXCEPT !.pending =
                   Without(@, e.symbol) \cup {[signal |-> e.item, sent |-> e.at, decision |-> decision]}]
           ELSE Rejected(book, e.item, decision.reason)

-----------------------------------------------------------------------------
(* A bar opens: the scheduled close first, then the pending entry.         *)
ScheduledClose(b, bar) ==
  IF Holds(b.positions, bar.symbol) /\ bar.at >= FlattenAt(Of(b.positions, bar.symbol).signal.day)
  THEN Closed(b, bar.symbol, bar.open, bar.at, "SCHEDULED_CLOSE")
  ELSE b

Position(order, bar) ==
  LET price == Executable(bar.open, 1)
  IN  [signal |-> order.signal, sent |-> order.sent, units |-> order.decision.units,
       risk |-> order.decision.risk, filled |-> bar.at, entry |-> price,
       fee |-> Fee(order.decision.units, price), mark |-> bar.open]

Filled(b, order, bar) ==
  LET p    == Position(order, bar)
      held == [b EXCEPT !.pending = Without(@, bar.symbol),
                        !.cash = @ - (p.units * p.entry + p.fee),
                        !.positions = Without(@, bar.symbol) \cup {p}]
  IN  IF PostFillRisk(p.units, p.entry, p.signal.stop) > p.risk
      THEN Closed(Incident(held, {bar.symbol}, bar.at, "POST_FILL_RISK_EXCEEDED"),
                  bar.symbol, bar.open, bar.at, "POST_FILL_RISK_EXIT")
      ELSE held

Entered(b, bar) ==
  LET order == Of(b.pending, bar.symbol)
  IN  IF ~Holds(b.pending, bar.symbol) \/ bar.at <= order.sent THEN b
      ELSE IF bar.at >= EntriesEnd(session)
      THEN Rejected([b EXCEPT !.pending = Without(@, bar.symbol)], order.signal,
                    "PENDING_ENTRY_WINDOW_CLOSED")
      ELSE Filled(b, order, bar)

BarOpens(bar) == Entered(ScheduledClose(book, bar), bar)

\* Every bar seen while the position is held would count, the earlier minutes too.
ConcernsAny(bar, p) == bar.symbol = p.signal.symbol

\* A bar whose minute began before the fill says nothing about the position.
Concerns(bar, p) == p.filled <= bar.at

BarCloses(bar) ==
  IF ~Holds(book.positions, bar.symbol) \/ ~Concerns(bar, Of(book.positions, bar.symbol)) THEN book
  ELSE LET p      == Of(book.positions, bar.symbol)
           marked == [book EXCEPT !.positions = Without(@, bar.symbol) \cup {[p EXCEPT !.mark = bar.close]}]
       IN  IF bar.low > p.signal.stop THEN marked
           ELSE Closed(marked, bar.symbol, Min({bar.open, p.signal.stop}), ClosedAt(bar),
                       "STOP_CONSERVATIVE")

-----------------------------------------------------------------------------
Init ==
  /\ ReplayInit
  /\ replayed \in BOOLEAN
  /\ session = 0 /\ events = {} /\ seen = {}
  /\ reference = 0 /\ realized_start = 0
  /\ book = [cash |-> Allocated, pending |-> {}, positions |-> {}, trades |-> {},
             rejects |-> {}, incidents |-> {}]

Replay == replayed /\ ReplayStep /\ UNCHANGED <<replayed, tradeVars>>
Direct == ~replayed /\ DecidedAtOnce /\ UNCHANGED <<replayed, tradeVars>>

\* What the loop over sessions does first, with the books the last one left.
Begin(d) ==
  /\ session' = d
  /\ events' = IF d \in Sessions THEN EventsOf(d) ELSE {}
  /\ reference' = book.cash + Gross
  /\ realized_start' = Realized

FirstSession ==
  /\ session = 0 /\ Undecided = {} /\ raised = Unset
  /\ Begin(1)
  /\ UNCHANGED <<replayVars, replayed, seen, book>>

HandleEvent ==
  /\ events # {}
  /\ \E e \in Due :
       /\ events' = events \ {e}
       /\ book' = CASE e.kind = "signal" -> Submit(e)
                    [] e.kind = "open"   -> BarOpens(e.item)
                    [] e.kind = "close"  -> BarCloses(e.item)
       /\ seen' = IF e.kind = "signal" THEN seen \cup {e.item} ELSE seen
  /\ UNCHANGED <<replayVars, replayed, session, reference, realized_start>>

\* The end of a session: what is pending is rejected, what is open is an incident.
EndBook ==
  LET settled == [book EXCEPT !.pending = {},
                              !.rejects = @ \cup {[signal |-> o.signal,
                                                   reason |-> "UNFILLED_NO_EXECUTABLE_BAR"] :
                                                    o \in book.pending}]
  IN  IF book.positions = {} THEN settled
      ELSE Incident(settled, {p.signal.symbol : p \in book.positions}, MarketClose(session),
                    "UNRESOLVED_EXPOSURE_NO_EXIT_BAR")

EndSession ==
  /\ session \in Sessions /\ events = {}
  /\ book' = EndBook
  /\ Begin(session + 1)
  /\ UNCHANGED <<replayVars, replayed, seen>>

Next == Replay \/ Direct \/ FirstSession \/ HandleEvent \/ EndSession
Spec == Init /\ [][Next]_vars

-----------------------------------------------------------------------------
(* Fills are honest: an entry fills at the first open strictly after its   *)
(* submission and inside the entry window; a stop exit rests on a bar that *)
(* began with the position and was visible, at the worse of its open and   *)
(* the stop; no such bar seen before the exit had touched the stop; and    *)
(* nothing is held past the first open at or after the scheduled close.    *)
Touches(bar, t) == /\ bar.symbol = t.signal.symbol /\ bar.at >= t.entry_at
                   /\ bar.low <= t.signal.stop /\ CloseHappens(bar)
OpensOf(s) == {b.at : b \in {b \in bars : b.symbol = s}}

FillsAreHonest ==
  /\ \A t \in book.trades :
       /\ t.signal.available < t.sent /\ t.sent < t.entry_at /\ t.entry_at <= t.exit_at
       /\ t.entry_at < EntriesEnd(t.signal.day)
       /\ t.entry_at = Min({at \in OpensOf(t.signal.symbol) : at > t.sent})
       /\ t.reason = "STOP_CONSERVATIVE" =>
            \E b \in bars : /\ Touches(b, t) /\ ClosedAt(b) = t.exit_at
                           /\ t.price = Min({b.open, t.signal.stop})
       /\ t.reason = "SCHEDULED_CLOSE" => t.exit_at >= FlattenAt(t.signal.day)
       /\ \A b \in bars : Touches(b, t) =>
            \/ t.exit_at < ClosedAt(b) \/ t.exit_at <= b.at
            \/ t.exit_at = ClosedAt(b) /\ t.reason = "STOP_CONSERVATIVE"
       /\ \A at \in OpensOf(t.signal.symbol) : at >= FlattenAt(t.signal.day) => t.exit_at <= at
  /\ \A p \in book.positions, b \in bars :
       b.symbol = p.signal.symbol /\ b.at >= FlattenAt(p.signal.day) => b.day >= session

(* The books balance and no signal is lost: cash is the capital, plus the  *)
(* net of the trades, less what the open positions cost; and each decided  *)
(* signal is in exactly one place, still to come, pending, held, traded or *)
(* rejected, with at most one order or position per symbol.                *)
Spent(p) == p.units * p.entry + p.fee
Places(s) ==
  <<s.day > session, \E e \in events : e.kind = "signal" /\ e.item = s,
    \E x \in book.pending : x.signal = s, \E x \in book.positions : x.signal = s,
    \E x \in book.trades : x.signal = s, \E x \in book.rejects : x.signal = s>>

BooksBalance ==
  /\ book.cash = Allocated + Realized - Sum(Spent, book.positions)
  /\ \A d \in Sessions : decisions[d] # Unset =>
       \A s \in decisions[d].signals : LET places == Places(s) IN Cardinality({i \in DOMAIN places : places[i]}) = 1
  /\ \A x, y \in book.pending \cup book.positions : x.signal.symbol = y.signal.symbol => x = y

(* The bisection finds what it looks for: an entry is sized at the largest *)
(* number of units whose risk and cost fit the budgets of that moment, and *)
(* is refused as too small only when no acceptable number of units fits.   *)
SizedAsLargeAsAllowed ==
  \A e \in IF events = {} THEN {} ELSE Due : e.kind = "signal" =>
    LET r == Request(e)   p == Portfolio   decision == Assess(r, p)
        fits == {u \in 1..MaximumUnits : Feasible(u, r, p) /\ u * r.ask \in MinimumNotional..MaximumNotional}
    IN  /\ decision.approved => decision.units = Max(fits)
        /\ decision.reason = "MINIMUM_INCOMPATIBLE" => fits = {}
=============================================================================
