-------------------------- MODULE ResearchPipeline --------------------------
(***************************************************************************)
(* The research pipeline: captures are downloaded, the approved ones are   *)
(* combined (approved_dataset, backtesting/a4.py) and replayed by the      *)
(* backtester.  A dataset with its own publication instants, which the     *)
(* replay takes as well, starts the pipeline at the replay.                *)
(***************************************************************************)
EXTENDS Backtester, HistoryDownload

CONSTANT Archived   \* the rows of the symbols captured earlier, on disk and sound

ASSUME ArchivedAssumption ==
  /\ SoundDataset(Archived)
  /\ \A b \in Archived : b.symbol \notin Range(Captured)

pipelineVars == <<vars, downloadVars>>

Requested == 0..Days

PipelineInit ==
  /\ Init /\ DownloadInit
  /\ bars = {} => replayed   \* persist_run replays

\* approved_dataset: every capture sound, of Massive, and all on the same minutes.
Approved ==
  /\ Massive
  /\ \A s \in Range(Captured) : Readable(s, Requested) /\ Quality(s, Requested)
  /\ \A s, t \in Range(Captured) : Times(Loaded(s, Requested)) = Times(Loaded(t, Requested))

\* BAR_CLOSE_SEMANTICS: a bar is published when its minute ends.
AtBarClose(r) == [symbol |-> r.symbol, day |-> r.day, at |-> r.at, available |-> EndTime(r),
                  open |-> r.open, high |-> r.high, low |-> r.low, close |-> r.close,
                  volume |-> r.volume]

Download == bars = {} /\ DownloadStep /\ UNCHANGED vars

Approve ==
  /\ bars = {} /\ job = Nothing /\ queue = << >> /\ runs > 0
  /\ Approved
  /\ bars' = Archived \cup {AtBarClose(r) : r \in UNION {Loaded(s, Requested) : s \in Range(Captured)}}
  /\ UNCHANGED <<clock, current, decisions, raised, replayed, tradeVars, downloadVars>>

Research == bars # {} /\ Next /\ UNCHANGED downloadVars

PipelineNext == Download \/ Approve \/ Research
PipelineSpec == PipelineInit /\ [][PipelineNext]_pipelineVars

-----------------------------------------------------------------------------
(* What is replayed is whole: whatever pages the server links, and however *)
(* often the download failed, was killed and run again, the bars that the  *)
(* backtester gets from captures are, for each symbol and each minute of   *)
(* the requested sessions, one bar, and one the server holds.              *)
LoadedIsWhole ==
  runs > 0 /\ bars # {} =>
    \A s \in Range(Captured) :
      LET mine == {b \in bars : b.symbol = s}
      IN  /\ \A t \in Minutes(Requested) : \E b \in mine : b.at = t
          /\ \A b, c \in mine : b.at = c.at => b = c
          /\ \A b \in mine : \E n \in DOMAIN catalogue[s] : \E r \in PageRows(s, n) : b = AtBarClose(r)
=============================================================================
