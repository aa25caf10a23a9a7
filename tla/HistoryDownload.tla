--------------------------- MODULE HistoryDownload ---------------------------
(***************************************************************************)
(* Downloads of historical bars (data/massive_http.py, alpaca_http.py) and *)
(* the offline readers of what they saved (data/massive.py, alpaca.py).    *)
(* One client captures one symbol after another, page by page, each into a *)
(* directory of its own; capture.json is written last, on success and on   *)
(* error alike, and not at all when the process is killed.                 *)
(* The clock is relative: only the time still to wait is kept.             *)
(***************************************************************************)
EXTENDS ORBStrategy, Functions

CONSTANTS
  Captured,             \* the symbols one client captures, in order
  Catalogues,           \* what the server may hold: symbol -> pages -> [rows, next]
  Waits,                \* Retry-After values the clients accept
  DefaultWait,          \* what the Alpaca client assumes without a header
  Pace,                 \* the Massive client's own pause after a page
  Attempts, PageLimit, MaxRuns, MaxFaults, Nothing

VARIABLES
  provider, catalogue,  \* external: who is asked and what it holds, open until the first client
  queue,                \* symbols still to capture by this client
  job,                  \* the capture under way, its locals
  wait,                 \* time left until _not_before
  owed,                 \* ghost: time left of what a 429 asked for or the pace demands
  allowance,            \* ghost: time left of what a page asked for, its allowance used up
  disk,                 \* the directory of each symbol's last capture
  runs, faults          \* bounds

downloadVars == <<provider, catalogue, queue, job, wait, owed, allowance, disk, runs, faults>>

Massive == provider = "massive"
Alpaca  == provider = "alpaca"

\* Values of next: the number of a page, no more pages, or a document without the field.
LastPage == 0
NoField  == -1

\* A 429 or an exhausted allowance says how long to wait, or nothing, or nonsense.
Absent   == -1
Unusable == -2
Headers  == Waits \cup {Absent, Unusable}

(* A server's pages are numbered from one, hold finitely many bars of one   *)
(* symbol, each dated by its day, and link to pages it holds; the waits are *)
(* times.                                                                  *)
ASSUME DownloadAssumption ==
  /\ Captured \in Seq(Range(Captured))
  /\ Waits \subseteq Nat /\ DefaultWait \in Nat /\ Pace \in Nat
  /\ \A c \in Catalogues, s \in Range(Captured) :
       /\ DOMAIN c[s] \subseteq Nat /\ 1 \in DOMAIN c[s]
       /\ \A n \in DOMAIN c[s] :
            /\ IsFiniteSet(c[s][n].rows) /\ c[s][n].rows \subseteq Bar
            /\ \A r \in c[s][n].rows :
                 /\ r.symbol = s
                 /\ MarketOpen(r.day) <= r.at /\ r.at < MarketOpen(r.day + 1)
            /\ c[s][n].next \in DOMAIN c[s] \cup {LastPage, NoField}

Minutes(days) == {Minute(d, i) : d \in days, i \in 0..(SessionBars - 1)}

DownloadInit ==
  /\ provider = Nothing /\ catalogue = Nothing
  /\ queue = << >> /\ job = Nothing /\ wait = 0 /\ owed = 0 /\ allowance = 0
  /\ disk = [s \in Range(Captured) |-> Nothing]
  /\ runs = 0 /\ faults = 0

-----------------------------------------------------------------------------
(* The client.                                                             *)
StartClient ==
  /\ runs < MaxRuns /\ queue = << >> /\ job = Nothing
  /\ IF runs = 0 THEN provider' \in {"massive", "alpaca"} /\ catalogue' \in Catalogues
                 ELSE UNCHANGED <<provider, catalogue>>
  /\ queue' = Captured
  /\ wait' = 0 /\ owed' = 0 /\ allowance' = 0   \* the mark belongs to the client
  /\ runs' = runs + 1
  /\ UNCHANGED <<job, disk, faults>>

\* capture(): a new directory, then the first page.  Here Massive is done with the
\* allowance of the page before it, the last one of another capture.
BeginCapture ==
  /\ job = Nothing /\ queue # << >>
  /\ job' = [symbol |-> Head(queue), stage |-> "next", page |-> 1, seen |-> {}, attempt |-> 1,
             status |-> "INCOMPLETE"]
  /\ disk' = [disk EXCEPT ![Head(queue)] = [pages |-> << >>, status |-> Nothing, damaged |-> FALSE]]
  /\ queue' = Tail(queue)
  /\ allowance' = IF Massive THEN 0 ELSE allowance
  /\ UNCHANGED <<provider, catalogue, wait, owed, runs, faults>>

\* An error leaves through the finally clause.
Failed(j) == [j EXCEPT !.stage = "save"]
Ended(j)  == [Failed(j) EXCEPT !.status = "COMPLETE"]
Fail      == job' = Failed(job)

\* At most PageLimit pages, and the Massive loop asks for no URL twice.
NextPage ==
  /\ job # Nothing /\ job.stage = "next"
  /\ IF Len(disk[job.symbol].pages) = PageLimit \/ (Massive /\ job.page \in job.seen)
     THEN Fail
     ELSE job' = [job EXCEPT !.stage = "send", !.attempt = 1,
                             !.seen = IF Massive THEN @ \cup {job.page} ELSE @]
  /\ UNCHANGED <<provider, catalogue, queue, wait, owed, allowance, disk, runs, faults>>

Sending == job # Nothing /\ job.stage = "send"
Fault   == faults < MaxFaults /\ faults' = faults + 1

\* The sleeper returns when the mark is reached, or early, which the client refuses.
Sleep ==
  /\ Sending /\ wait > 0
  /\ \/ /\ wait' = 0 /\ owed' = Max({0, owed - wait}) /\ allowance' = Max({0, allowance - wait})
        /\ UNCHANGED <<job, faults>>
     \/ Fault /\ Fail /\ UNCHANGED <<wait, owed, allowance>>
  /\ UNCHANGED <<provider, catalogue, queue, disk, runs>>

\* _delay and _wait_seconds: without a header Massive gives up and Alpaca assumes.
Usable(header) == header # Unusable /\ (header = Absent => Alpaca)
Delay(header)  == IF header = Absent THEN DefaultWait ELSE header

\* As if the pause after a page replaced what the server asked for.
PauseOnly(header) == IF Massive THEN Pace ELSE Delay(header)

\* Where the mark moves when a page says that the allowance is used up.
Pause(header) == IF Massive THEN Max({Pace, Delay(header)}) ELSE Delay(header)

\* The mark and what is owed, once an answer asks for more.
Mark(time)   == wait' = time
Asked(time)  == owed' = Max({owed, time})
UsedUp(time) == allowance' = Max({allowance, time})

\* A page arrives.  Massive always pauses, and heeds a used up allowance only when
\* more pages follow.
PageReceived ==
  /\ Sending /\ wait = 0
  /\ IF Massive THEN Asked(Pace) ELSE UNCHANGED owed
  /\ LET unheeded == Massive /\ catalogue[job.symbol][job.page].next \in {LastPage, NoField}
         store    == job' = [job EXCEPT !.stage = "store"]
         rest     == IF Massive THEN Mark(Pace) ELSE UNCHANGED wait
     IN  \/ store /\ rest /\ UNCHANGED allowance
         \/ \E header \in Headers :
              IF Usable(header)
              THEN store /\ UsedUp(Delay(header)) /\ IF unheeded THEN rest ELSE Mark(Pause(header))
              ELSE (IF unheeded THEN store ELSE Fail) /\ rest /\ UNCHANGED allowance
  /\ UNCHANGED <<provider, catalogue, queue, disk, runs, faults>>

\* 429: the mark moves to what the server asks, and the last attempt gives up.
Limited ==
  /\ Sending /\ wait = 0 /\ Fault
  /\ \E header \in Headers :
       IF Usable(header)
       THEN /\ Mark(Delay(header)) /\ Asked(Delay(header))
            /\ job' = IF job.attempt = Attempts THEN Failed(job) ELSE [job EXCEPT !.attempt = @ + 1]
       ELSE Fail /\ UNCHANGED <<wait, owed>>
  /\ UNCHANGED <<provider, catalogue, queue, allowance, disk, runs>>

\* Transport errors, other statuses and documents that do not validate; the
\* Alpaca client moves the mark before it parses the document.
AnswerRefused ==
  /\ Sending /\ wait = 0 /\ Fault /\ Fail
  /\ \/ UNCHANGED <<wait, allowance>>
     \/ Alpaca /\ \E header \in Headers \ {Unusable} : Mark(Delay(header)) /\ UsedUp(Delay(header))
  /\ UNCHANGED <<provider, catalogue, queue, owed, disk, runs>>

\* What follows a stored page: the end, an error, or the next page.
Followed(j, next) ==
  IF next = LastPage \/ (next = NoField /\ Massive) THEN Ended(j)
  ELSE IF Alpaca /\ next \in j.seen \cup {NoField} THEN Failed(j)
  ELSE [j EXCEPT !.page = next, !.stage = "next", !.seen = IF Alpaca THEN @ \cup {next} ELSE @]

StorePage ==
  /\ job # Nothing /\ job.stage = "store"
  /\ disk' = [disk EXCEPT ![job.symbol].pages = Append(@, job.page)]
  /\ job' = Followed(job, catalogue[job.symbol][job.page].next)
  /\ UNCHANGED <<provider, catalogue, queue, wait, owed, allowance, runs, faults>>

\* finally: capture.json, whatever happened; the caller goes on to the next symbol.
SaveCapture ==
  /\ job # Nothing /\ job.stage = "save"
  /\ disk' = [disk EXCEPT ![job.symbol].status = job.status]
  /\ job' = Nothing
  /\ UNCHANGED <<provider, catalogue, queue, wait, owed, allowance, runs, faults>>

\* The process dies: no finally clause, and the mark is forgotten.
Kill ==
  /\ job # Nothing /\ Fault
  /\ queue' = << >> /\ job' = Nothing /\ wait' = 0 /\ owed' = 0 /\ allowance' = 0
  /\ UNCHANGED <<provider, catalogue, disk, runs>>

\* A page under a finished capture is changed.
Damage ==
  /\ job = Nothing /\ Fault
  /\ \E s \in DOMAIN disk : disk[s] # Nothing /\ disk' = [disk EXCEPT ![s].damaged = TRUE]
  /\ UNCHANGED <<provider, catalogue, queue, job, wait, owed, allowance, runs>>

DownloadStep ==
  \/ StartClient \/ BeginCapture \/ NextPage \/ Sleep \/ PageReceived \/ Limited \/ AnswerRefused
  \/ StorePage \/ SaveCapture \/ Kill \/ Damage

-----------------------------------------------------------------------------
(* The readers.  A capture is a chain of pages from the first to the last, *)
(* unchanged on disk, its rows in time order and inside the request.       *)
PageRows(s, n) == catalogue[s][n].rows
NextOf(s, n)   == catalogue[s][n].next
Rows(s)        == UNION {PageRows(s, n) : n \in Range(disk[s].pages)}
Times(rows)    == {r.at : r \in rows}

Chained(s) ==
  LET pages == disk[s].pages
  IN  /\ pages # << >> /\ pages[1] = 1
      /\ \A i \in 1..(Len(pages) - 1) : pages[i + 1] = NextOf(s, pages[i])
      /\ Massive => \A i, j \in DOMAIN pages : pages[i] = pages[j] => i = j
      /\ NextOf(s, pages[Len(pages)]) \in (IF Massive THEN {LastPage, NoField} ELSE {LastPage})

InOrder(s) ==
  LET pages == disk[s].pages
  IN  \A i, j \in DOMAIN pages : i < j =>
        \A r \in PageRows(s, pages[i]), q \in PageRows(s, pages[j]) : r.at <= q.at

\* Minutes with several rows; the Alpaca reader refuses them when they differ.
Copies(s, t) ==
  {copy \in (DOMAIN disk[s].pages) \X Rows(s) :
     copy[2].at = t /\ copy[2] \in PageRows(s, disk[s].pages[copy[1]])}
Repeated(s)    == {t \in Times(Rows(s)) : Cardinality(Copies(s, t)) > 1}
Conflicting(s) == \E r, q \in Rows(s) : r.at = q.at /\ r # q

Readable(s, days) ==
  /\ disk[s] # Nothing /\ disk[s].status = "COMPLETE" /\ ~disk[s].damaged
  /\ Chained(s) /\ InOrder(s)
  /\ \A t \in Times(Rows(s)) : MarketOpen(Min(days)) <= t /\ t < MarketClose(Max(days))
  /\ Alpaca => ~Conflicting(s)

\* What is kept: the minutes of the regular sessions.
Loaded(s, days) == {r \in Rows(s) : r.at \in Minutes(days)}

\* Quality that looks only at the minutes that are there.
PresentQuality(s, days) == Repeated(s) = {} /\ \A r \in Loaded(s, days) : r.volume > 0

\* data_quality PASS: every minute of the sessions, once, with volume.
Quality(s, days) ==
  /\ Repeated(s) = {}
  /\ Minutes(days) \subseteq Times(Rows(s))
  /\ \A r \in Loaded(s, days) : r.volume > 0

-----------------------------------------------------------------------------
(* When a request of a client may leave, no 429 it was ever answered and no *)
(* pause after a page still asks to wait, from one capture to the next, nor *)
(* does a page whose allowance was used up: any earlier page of an Alpaca  *)
(* client, of a Massive one the pages of the same capture.  (Between two   *)
(* captures MassiveHistoryClient, which scripts/validate_massive_a2.py      *)
(* shares, keeps only its pause: massive_http.py _page reads the allowance  *)
(* when a next_url follows.)                                               *)
WaitsHonoured == Sending /\ wait = 0 => owed = 0 /\ allowance = 0
=============================================================================
