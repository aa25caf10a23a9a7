---------------------------- MODULE ORBStrategy ----------------------------
(***************************************************************************)
(* The opening-range breakout strategy (strategies/orb.py): one decision   *)
(* about a session, computed from the bars of a view.  It keeps no state;  *)
(* a bar is final, unrevised and carries the instant it became available.  *)
(* Time is counted in ticks, BarTicks to a bar, DayTicks to a day.         *)
(***************************************************************************)
EXTENDS Integers, FiniteSets, FiniteSetsExt, Sequences, Functions

CONSTANTS
  Symbols,          \* every instrument of the dataset, as the sequence of their alphabetical order
  Benchmarks,       \* the ETFs of the relative-strength filter, in the order they are asked
  BarTicks, SessionBars, DayTicks,
  OpeningBars,      \* bars of the opening range (five minutes)
  FlattenBars,      \* bars before the close at which positions are closed
  SelectionWait,    \* ticks waited for the opening bars (selection_wait_seconds)
  EntryWindow,      \* ticks after the open during which entries are taken
  WarmupSessions, MinClose, MinLiquidity, MinRvol, MaxSelected,
  RelativeStrength, \* TRUE in the variants that compare with the benchmarks
  SignalTTL

Listed == {Symbols[i] : i \in DOMAIN Symbols}

(* StrategyConfig's bounds: entries end after the selection and before the  *)
(* shortest session of the calendar flattens.                              *)
ASSUME ORBAssumption ==
  /\ {BarTicks, SessionBars, DayTicks, OpeningBars, WarmupSessions, MaxSelected, SignalTTL}
       \subseteq Nat \ {0}
  /\ {FlattenBars, SelectionWait, EntryWindow, MinRvol} \subseteq Nat
  /\ OpeningBars < SessionBars
  /\ SessionBars * BarTicks <= DayTicks
  /\ OpeningBars * BarTicks + SelectionWait < EntryWindow
  /\ EntryWindow <= (SessionBars - FlattenBars) * BarTicks
  /\ Symbols \in Seq(Listed) /\ Benchmarks \in Seq(Listed)

Stocks == Listed \ {Benchmarks[i] : i \in DOMAIN Benchmarks}
IndexOf(s) == CHOOSE i \in DOMAIN Symbols : Symbols[i] = s

MarketOpen(d)  == d * DayTicks
Minute(d, i)   == MarketOpen(d) + i * BarTicks
MarketClose(d) == Minute(d, SessionBars)
FlattenAt(d)   == Minute(d, SessionBars - FlattenBars)
Cutoff(d)      == Minute(d, OpeningBars) + SelectionWait
EntriesEnd(d)  == MarketOpen(d) + EntryWindow
EndTime(b)     == b.at + BarTicks

(* A dataset: finitely many bars of regular sessions, priced, published     *)
(* when or after their minute ends, and one per instrument and minute.     *)
Bar == [symbol : Listed, day : Int, at : Int, available : Int, volume : Nat,
        open : Nat \ {0}, high : Nat \ {0}, low : Nat \ {0}, close : Nat \ {0}]

SoundDataset(set) ==
  /\ IsFiniteSet(set) /\ set \subseteq Bar
  /\ \A b \in set : /\ \E i \in 0..(SessionBars - 1) : b.at = Minute(b.day, i)
                    /\ EndTime(b) <= b.available
  /\ \A b, c \in set : b.symbol = c.symbol /\ b.at = c.at => b = c

(* What the strategy says about a session (SessionDecision and its parts). *)
Signal == [symbol : Listed, day : Int, available : Int, expires : Int, reference : Int,
           stop : Int, rank : Int]
Selected == [symbol : Listed, rank : Int, volume : Int, usual : Int, liquidity : Int,
             or_high : Int, or_low : Int, or_open : Int, or_close : Int]
Reasons ==
  {"UNIVERSE_INELIGIBLE", "INSUFFICIENT_VALID_WARMUP_20", "PREVIOUS_CLOSE_TOO_LOW",
   "DOLLAR_LIQUIDITY_TOO_LOW", "INVALID_HISTORICAL_OPENING_VOLUME",
   "OPENING_RANGE_MISSING_OR_LATE", "INVALID_OPENING_VOLUME", "RVOL_BELOW_THRESHOLD",
   "OPENING_RANGE_NOT_BULLISH", "RS_SYNCHRONIZED_DATA_MISSING",
   "RS_BENCHMARK_INVALID_OR_UNAVAILABLE", "RS_NOT_STRONGER_THAN_BOTH"}
Refusals == [symbol : Listed, reason : Reasons]
Decision == [evaluable : SUBSET Listed, selection : SUBSET Selected, signals : SUBSET Signal,
             rejections : SUBSET Refusals]

BarsOf(view, s, d) == {b \in view : b.symbol = s /\ b.day = d}
OpeningOf(view, s, d) == {b \in BarsOf(view, s, d) : b.at < Minute(d, OpeningBars)}

(* A fold over a function, so that it can be proved about.                 *)
Sum(f(_), set) == SumFunction([x \in set |-> f(x)])
VolumeOf(set)  == Sum(LAMBDA b : b.volume, set)

\* The first n minutes of the session are all there, and were by the given time.
Covered(view, s, d, n, by) ==
  \A i \in 0..(n - 1) : \E b \in BarsOf(view, s, d) : b.at = Minute(d, i) /\ b.available <= by

WarmupDays(d) == (d - WarmupSessions)..(d - 1)
WarmupBars(view, s, d) == UNION {BarsOf(view, s, k) : k \in WarmupDays(d)}
WarmupOpening(view, s, d) == UNION {OpeningOf(view, s, k) : k \in WarmupDays(d)}

\* Sum of close times volume over the warm-up; the code divides it by a constant.
Liquidity(view, s, d) == Sum(LAMBDA b : b.close * b.volume, WarmupBars(view, s, d))

-----------------------------------------------------------------------------
(* The checks a symbol goes through before it is evaluable, in order.      *)
NoReason == "none"

Checks(view, s, d) ==
  << <<s \notin Stocks, "UNIVERSE_INELIGIBLE">>,
     <<\E k \in WarmupDays(d) : ~Covered(view, s, k, SessionBars, Cutoff(d)),
       "INSUFFICIENT_VALID_WARMUP_20">>,
     <<\E b \in BarsOf(view, s, d - 1) : EndTime(b) = MarketClose(d - 1) /\ b.close <= MinClose,
       "PREVIOUS_CLOSE_TOO_LOW">>,
     <<Liquidity(view, s, d) <= MinLiquidity, "DOLLAR_LIQUIDITY_TOO_LOW">>,
     <<\E k \in WarmupDays(d) : VolumeOf(OpeningOf(view, s, k)) = 0,
       "INVALID_HISTORICAL_OPENING_VOLUME">>,
     <<~Covered(view, s, d, OpeningBars, Cutoff(d)), "OPENING_RANGE_MISSING_OR_LATE">>,
     <<VolumeOf(OpeningOf(view, s, d)) = 0, "INVALID_OPENING_VOLUME">> >>

Reason(view, s, d) ==
  LET checks == Checks(view, s, d)
      failed == {i \in DOMAIN checks : checks[i][1]}
  IN  IF failed = {} THEN NoReason ELSE checks[Min(failed)][2]

SymbolsOf(set) == {x.symbol : x \in set}
Rejection(s, reason) == [symbol |-> s, reason |-> reason]
Refused(view, d) ==
  {r \in {Rejection(s, Reason(view, s, d)) : s \in Listed} : r.reason # NoReason}

-----------------------------------------------------------------------------
(* Selection: relative volume is a fraction, kept as its two sums.         *)
Candidate(view, s, d) ==
  LET opening == OpeningOf(view, s, d)
  IN  [symbol    |-> s, rank |-> 1,
       volume    |-> VolumeOf(opening) * WarmupSessions,
       usual     |-> VolumeOf(WarmupOpening(view, s, d)),
       liquidity |-> Liquidity(view, s, d),
       or_high   |-> Max({b.high : b \in opening}),
       or_low    |-> Min({b.low : b \in opening}),
       or_open   |-> (CHOOSE b \in opening : b.at = MarketOpen(d)).open,
       or_close  |-> (CHOOSE b \in opening : EndTime(b) = Minute(d, OpeningBars)).close]

Candidates(view, evaluable, d) ==
  {c \in {Candidate(view, s, d) : s \in evaluable} : c.volume >= MinRvol * c.usual}

Outranks(c, o) ==
  LET mine == c.volume * o.usual   other == o.volume * c.usual
  IN  \/ mine > other
      \/ mine = other /\ c.liquidity > o.liquidity
      \/ mine = other /\ c.liquidity = o.liquidity /\ IndexOf(c.symbol) < IndexOf(o.symbol)

RankIn(c, candidates) == 1 + Cardinality({o \in candidates : Outranks(o, c)})

Ranked(candidates) == {[c EXCEPT !.rank = RankIn(c, candidates)] : c \in candidates}
Selection(candidates) == {c \in Ranked(candidates) : c.rank <= MaxSelected}

-----------------------------------------------------------------------------
(* The entry: the first breakout to ARRIVE inside the window is terminal.  *)
Breakouts(view, c, d) ==
  {b \in BarsOf(view, c.symbol, d) : /\ b.at >= Minute(d, OpeningBars)
                                     /\ Cutoff(d) <= b.available
                                     /\ b.available < EntriesEnd(d)
                                     /\ b.close > c.or_high}

FirstOf(set) ==
  CHOOSE b \in set : \A o \in set : \/ b.available < o.available
                                    \/ b.available = o.available /\ b.at <= o.at

\* A benchmark counts only with bars of the same minutes received by the decision.
BenchmarkReason(view, s, c, bar, d) ==
  LET bars    == BarsOf(view, s, d)
      opening == {b \in bars : b.at = MarketOpen(d)}
      current == {b \in bars : b.at = bar.at}
      late    == {b \in opening \cup current : b.available > bar.available \/ b.volume = 0}
  IN  IF opening = {} \/ current = {} THEN "RS_SYNCHRONIZED_DATA_MISSING"
      ELSE IF late # {} THEN "RS_BENCHMARK_INVALID_OR_UNAVAILABLE"
      ELSE IF \E o \in opening, n \in current : bar.close * o.open <= n.close * c.or_open
           THEN "RS_NOT_STRONGER_THAN_BOTH"
      ELSE NoReason

RsReason(view, c, bar, d) ==
  LET reasons == [i \in DOMAIN Benchmarks |-> BenchmarkReason(view, Benchmarks[i], c, bar, d)]
      failed  == {i \in DOMAIN reasons : reasons[i] # NoReason}
  IN  IF ~RelativeStrength \/ failed = {} THEN NoReason ELSE reasons[Min(failed)]

\* What becomes of a selected candidate: NoReason for a signal, Waiting while none broke out.
Waiting == "waiting"
Outcome(view, c, d) ==
  LET breakouts == Breakouts(view, c, d)
  IN  IF c.or_close <= c.or_open THEN "OPENING_RANGE_NOT_BULLISH"
      ELSE IF breakouts = {} THEN Waiting
      ELSE RsReason(view, c, FirstOf(breakouts), d)

SignalOf(view, c, d) ==
  LET bar == FirstOf(Breakouts(view, c, d))
  IN  [symbol    |-> c.symbol, day |-> d,
       available |-> bar.available, expires |-> bar.available + SignalTTL,
       reference |-> bar.close, stop |-> c.or_low, rank |-> c.rank]

\* process_session: the whole decision about a session, given a view of the data.
ProcessSession(view, d) ==
  LET refused    == Refused(view, d)
      evaluable  == Listed \ SymbolsOf(refused)
      candidates == Candidates(view, evaluable, d)
      selection  == Selection(candidates)
      outcomes   == {[of |-> c, outcome |-> Outcome(view, c, d)] : c \in selection}
  IN  [evaluable  |-> evaluable,
       selection  |-> selection,
       signals    |-> {SignalOf(view, o.of, d) : o \in {o \in outcomes : o.outcome = NoReason}},
       rejections |-> refused
         \cup {Rejection(s, "RVOL_BELOW_THRESHOLD") : s \in evaluable \ SymbolsOf(candidates)}
         \cup {Rejection(o.of.symbol, o.outcome) :
                 o \in {o \in outcomes : o.outcome \notin {NoReason, Waiting}}}]
=============================================================================
