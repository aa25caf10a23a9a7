----------------------------- MODULE ReplayAsOf -----------------------------
(***************************************************************************)
(* Replay of a historical dataset in logical time (backtesting/replay.py). *)
(* The view holds exactly the bars published by the clock; the strategy is *)
(* asked once at the cutoff and again at every publication instant, and    *)
(* what it says first about a symbol is final.                             *)
(***************************************************************************)
EXTENDS ORBStrategy

CONSTANTS
  Datasets,   \* the datasets considered: sets of bars with their publication instants
  Days,       \* the number of evaluation sessions; day 0 and before are history
  Unset

(* What ReplayAsOf and process_session demand of a dataset and a session.  *)
Progress == [initial : Decision, signals : SUBSET Signal, rejections : SUBSET Refusals]

ASSUME ReplayAssumption ==
  /\ Days \in Nat
  /\ \A set \in Datasets : SoundDataset(set)
  /\ Unset \notin Decision \cup Progress

VARIABLES
  bars,       \* the dataset
  clock,      \* ReplayAsOf._clock
  current,    \* process_session's locals: its first decision and what it gathered since
  decisions,  \* the decisions returned so far, by session
  raised      \* the reason of the ValueError that ended the run

replayVars == <<bars, clock, current, decisions, raised>>

Sessions == 1..Days

\* As with bisect_left in place of bisect_right: bars published at the clock are missed.
ViewBefore(c) == {b \in bars : b.available < c}

\* view(clock): equal publication times become visible together.
View(c) == {b \in bars : b.available <= c}

Undecided == {d \in Sessions : decisions[d] = Unset}
Deciding  == Min(Undecided)

Terminal(local) == SymbolsOf(local.signals) \cup SymbolsOf(local.rejections)
Settled(local)  == SymbolsOf(local.initial.selection) \subseteq Terminal(local)

\* The publication instants process_session walks through.
Clocks(d) == {at \in {b.available : b \in bars} : Cutoff(d) < at /\ at < EntriesEnd(d)}
Later     == {at \in Clocks(Deciding) : at > clock}

ReplayInit ==
  /\ bars \in Datasets
  /\ clock = 0
  /\ current = Unset
  /\ decisions = [d \in Sessions |-> Unset]
  /\ raised = Unset

\* The first decision of a session, at its cutoff.
AtCutoff ==
  /\ raised = Unset /\ Undecided # {} /\ current = Unset
  /\ IF Cutoff(Deciding) < clock
     THEN raised' = "REPLAY_CLOCK_CANNOT_REWIND" /\ UNCHANGED <<clock, current>>
     ELSE LET initial == ProcessSession(View(Cutoff(Deciding)), Deciding)
          IN  /\ clock' = Cutoff(Deciding)
              /\ current' = [initial |-> initial, signals |-> initial.signals,
                             rejections |-> initial.rejections]
              /\ UNCHANGED raised
  /\ UNCHANGED <<bars, decisions>>

\* What a later decision adds: only symbols nothing was said about yet.
New(set) == {x \in set : x.symbol \notin Terminal(current)}

\* The next publication instant of the session.
AtPublication ==
  /\ raised = Unset /\ current # Unset /\ ~Settled(current) /\ Later # {}
  /\ LET at       == Min(Later)
         decision == ProcessSession(View(at), Deciding)
     IN  /\ clock' = at
         /\ raised' = IF \/ decision.selection # current.initial.selection
                         \/ decision.evaluable # current.initial.evaluable
                      THEN "REPLAY_SELECTION_CHANGED_AFTER_CUTOFF"
                      ELSE IF \E s \in New(decision.signals) : s.available # at
                      THEN "REPLAY_RETROACTIVE_SIGNAL_BLOCKED"
                      ELSE Unset
         /\ current' = [current EXCEPT !.signals = @ \cup New(decision.signals),
                                       !.rejections = @ \cup New(decision.rejections)]
  /\ UNCHANGED <<bars, decisions>>

\* Every selected symbol is settled, or the entry window has no instant left.
SessionDecided ==
  /\ raised = Unset /\ current # Unset /\ (Settled(current) \/ Later = {})
  /\ decisions' = [decisions EXCEPT ![Deciding] =
                     [current.initial EXCEPT !.signals = current.signals,
                                             !.rejections = current.rejections]]
  /\ current' = Unset
  /\ UNCHANGED <<bars, clock, raised>>

\* run_backtest without a replay: one decision over the whole bundle.
DecidedAtOnce ==
  /\ Undecided # {}
  /\ decisions' = [decisions EXCEPT ![Deciding] = ProcessSession(bars, Deciding)]
  /\ UNCHANGED <<bars, clock, current, raised>>

ReplayStep == AtCutoff \/ AtPublication \/ SessionDecided

-----------------------------------------------------------------------------
(* No look-ahead and nothing lost: replaying a session step by step, with  *)
(* only the bars already published, never stops with an error, has at any  *)
(* moment found only what the strategy finds in the complete data, and     *)
(* ends with exactly its decision, signals and rejections included.  One   *)
(* reason reads differently: a benchmark bar published too late is invalid *)
(* in the complete data, and simply missing from the view.                 *)
AsSeen(rejections) ==
  {[r EXCEPT !.reason = IF @ = "RS_BENCHMARK_INVALID_OR_UNAVAILABLE"
                        THEN "RS_SYNCHRONIZED_DATA_MISSING" ELSE @] : r \in rejections}
Same(d, e) == [d EXCEPT !.rejections = AsSeen(@)] = [e EXCEPT !.rejections = AsSeen(@)]

ReplayMatchesOneShot ==
  [][/\ raised' = Unset
     /\ \A d \in Sessions : decisions'[d] # decisions[d] => Same(decisions'[d], ProcessSession(bars, d))
     /\ current' # Unset =>
          LET whole == ProcessSession(bars, Deciding)
          IN  /\ current'.signals = {s \in whole.signals : s.available <= clock'}
              /\ AsSeen(current'.rejections) \subseteq AsSeen(whole.rejections)]_replayVars
=============================================================================
