# Formal model of the intraday trading bot

The repository is a Python trading bot (`src/src/intraday_etoro_lab`, called
`bot/` below): a strategy proposes entries, a risk engine sizes or refuses them,
one executor sends orders to a broker (a local simulator, or a guarded eToro
Demo adapter), and an SQLite store remembers everything across crashes. Around
that core, history clients download bars, a backtester replays them, an
authorization and a transport guard what leaves the process, and two owners, the
A6 session and the operation service, drive the executor. These modules model
most of it, check it with TLC on small instances, and prove for every instance
the safety and the conservation laws of the store, most of the safety of the
executor over it (no order sent twice, uncertainty blocks entries, the position
limit, what may be given up, the refinement of the store's specification), the
safety of the guarded transport (authorization, waits, quota, the contract of a
mutation), of the downloads (waits, soundness of what is replayed) and of the
research side: a replay decides as the complete data do, the bisection of the
risk engine finds the largest size allowed, and the backtester's fills are
honest and its books balance.

1. [Inventory](#1-inventory) 2. [Structure and plan](#2-structure-and-plan)
3. [Modules](#3-modules) 4. [Runs](#4-runs-and-bounds) 5. [Fairness](#5-fairness)
6. [Proofs](#6-proofs) 7. [Findings](#7-findings) 8. [Limits](#8-what-is-not-modelled)

## 1. Inventory

| Component (`bot/...`) | State | Operations | What makes it correct |
|---|---|---|---|
| Order lifecycle, `execution/models.py` | none | `TRANSITIONS`, `validate_transition` | every other component moves orders only along the table |
| State store, `persistence/store.py` | tables intents, reservations, positions, fills, broker_costs, sessions, metadata, commands, audit | `create_intent`, `transition`, `apply_broker_order`, `set_protection`, `pause`, `set_meta`, `mark`, commands, `backup`, `restore` | each call is one transaction; nothing is booked twice, sold short, overfilled; reserves cover exactly what may still fill |
| Executor, `execution/engine.py` | started, incident flag, its call stack | `__enter__`, `submit_entry`, `_send`, `_apply`, `reconcile`, `cancel_pending_entries`, `close_owned`, `flatten_owned`, `tighten_stop`, `__exit__` | no order is sent twice; uncertainty blocks entries; reconciled and flat are true of the broker; unprotected fills are closed |
| Simulator, `brokers/simulator.py` | simulator_orders table | `submit`, `close`, `query`, `cancel`, `protect`, `set_order` | answers agree with what it accepted, also after a lost answer |
| eToro Demo adapter, `brokers/etoro_demo.py` | none (the broker's) | `prepare`, `submit`, `query`, `close`, `cancel`, `protect` | a failure is "before send" only when nothing left the process; no accounting is invented |
| Authorization, `brokers/authorization.py`, `preflight.py`, `identity.py` | nonce, evidence, two expiries | `activate`, `pause_entries`, `invalidate`, `check` | no mutation with an expired, replaced or foreign permit |
| Transport, `brokers/transport.py` | quota pools, attempt counter, preflight flag | `request`, `verify_mutation_identity`, `take` | a mutation is dispatched at most once; reserved quota survives reads |
| Risk engine, `risk/engine.py` | none | `assess`, `post_fill_risk` | the units chosen are the largest that fit both budgets |
| Strategy and replay, `strategies/`, `backtesting/replay.py` | prefix, clock | `view`, `process_session` | no look-ahead, no decision that changes later |
| Backtester, `backtesting/engine.py` | cash, open trades | `run_backtest` | the books of a simulated day balance |
| A6 session, `execution/session.py` | binding, cached result | `run` | rerunning after a crash neither repeats nor loses an order |
| Service and dashboard, `service.py`, `api/` | owner lock, mutex | `command`, `snapshot` | one executor at a time |
| History clients, `data/*_http.py` | not-before mark | `_page`, `capture` | pacing, bounded retries, no page loop |
| Import, calendar, audits, config, CLI, logging | none | parsing and formatting | not a matter of state |

How they interact. The executor is the only caller that mutates: it holds an OS
file lock, calls the store (one SQLite transaction per call) and the broker (one
request per call), and never holds a transaction across a request. So a crash,
an exception or a move of the broker falls between two store calls. `_apply`
is re-entrant: booking a report can find an unprotected fill, which cancels
pending entries, which applies more reports, which closes the position, which
applies the close. Callbacks of the eToro adapter read the store. The dashboard
and the A6 session start an executor per command, the session and the service
each under an owner lock of its own. The adapter's calls reach the broker only
through the transport, which asks the authorization before and after it reads
the account's identity. The backtester shares only the risk engine and the
strategy with the trading side.

Hard behaviours: the crash between "durable SUBMITTING" and the answer; an
accepted order whose answer is lost; a late fill after a cancellation; loops
over rows read before the loop while nested calls change them; cumulative
reports repeated or skipped; snapshots that run ahead of the books; a native
stop that sells behind the bot's back; recursion of the incident management;
leases that expire and keys that change while an identity is read; a 429 that
binds every route; a session, a command or a report a process death cuts in
half; bars published late or out of order; a download that fails, is killed and
runs again. `PROJECT.json` lists them as hazards, each at its line, with the
properties that guard it.

## 2. Structure and plan

```
OrderLifecycle <- StateStore <- Executor <- OwnerScript <- DemoSession, OperationService <- LocalDatabase
                  StateStore <- StoreAccounting;  StoreAccounting, SumTheorems <- StateStore_proofs
Executor, StateStore_proofs <- Executor_proofs <- ExecutorExposure_proofs <- ExecutorAgreement_proofs
LocalDatabase, ExecutorAgreement_proofs <- LocalDatabase_proofs
Identity <- Authorization, QuotaBudget <- GuardedTransport      (refines MutationContract)
                                          GuardedTransport <- GuardedTransport_proofs
ORBStrategy <- ReplayAsOf, RiskSizing <- Backtester
ORBStrategy <- HistoryDownload;  Backtester, HistoryDownload <- ResearchPipeline
ResearchPipeline, SumTheorems <- ResearchPipeline_proofs
```

Two abstract specifications tie the parts together. `StateStore!StoreSpec` says
what the store promises any caller; the executor implements it (checked in
`ExecutorSnapshots`, proved as `ExecutorImplementsStore`), so every theorem of
the store holds under the executor. `MutationContract` says what an adapter promises the
executor: an accepted call landed once, a call rejected before sending never
lands, anything may be true of an unknown one. The transport under the eToro
adapter implements it (`DemoTransport`), and it is just what `SendAccepted`,
`SendRefused` and `SendFailed` of `Executor` assume.

Every module of the plan is written. Section 8 lists what stays outside.

## 3. Modules

**`OrderLifecycle`** - the states, the table and `validate_transition`; constant
level, the base of the others.

**`StateStore`** - `persistence/store.py` for one session and one strategy
version. A method is one action, because it runs in one transaction; a method
that raises changes nothing, so its checks are guards.

| Code | Model |
|---|---|
| table intents, unique per (symbol) for entries and (position) for closes | `intents`, by identity `Symbols` and `PositionIds`; state `Nil` = no row |
| reservations: cash and risk, both linear in the unfilled units | `reservations`: the units still reserved, `Nil` = no row |
| positions, `Position` | `positions`; `owner_intent_id = Nil` = no row |
| fills with key `order:cumulative` | `fills`, a set of rows |
| broker_costs, `sessions.realized_pnl`, `entries_paused`, metadata `reconciliation_ok` | variables of the same names |
| audit `INCIDENT_LATE_FILL` | `late_fills` |
| `create_intent` / `transition` / `set_protection` / `pause` / `set_meta` | `CreateEntry`, `CreateClose` / `Transition` / `SetProtection` / `Pause` / `SetReconciliation` |
| `apply_broker_order`, `_apply_fill`, `_observe_remaining` | `ApplyBrokerOrder(u, now)`, one action: `Commits` holds every check, `Booked` and `Observed` the two stages of the position row |

Decimal prices and quantities are whole numbers; the average entry is divided
with `\div`, which is exact where a property reads it: in `StoreLedger` the
average of two units bought at 1 or 3 is whole.
`StoreNext` lets any caller call any method with any argument, so what holds here
holds for every executor. `BookNext` is `StoreNext` without `Pause` and
`SetReconciliation`, whose two variables no book-keeping method reads;
`BookSpec` lets the store runs spend their states on the books, while the
executor runs and the proofs use all of `StoreNext`.

A report with a `position_id` and no fills exists in the code (the close answer
of eToro) but the store reads the identifier only with fills or a snapshot, so
`Report` leaves it out.

**`StoreAccounting`** - the conservation laws over `StateStore`, sums over sets
of rows, intents and positions.

**`Executor`** - `execution/engine.py` over `StateStore` and a broker that moves
on its own. The executor is one thread; its call stack is the sequence `agenda`,
innermost call first, and every action performs one store call or one broker
call of the top frame and pushes or pops frames.

| Code | Model |
|---|---|
| a call in progress | a frame `[op, id, todo, clean, report]` |
| `for intent in self.store.intents()` | `todo`: the rows and states read when the loop began (`Snapshot`) |
| `try` of `_send` and of `cancel_pending_entries` | frames `sending`, `cancelling`; `Then` closes them, `Raise` unwinds to them |
| the `except` clauses | `ToUnknown` and `AmbiguityCalls`; the one of `reconcile` is `clean := FALSE` |
| `_incident_management` | `end_incident` is on the stack (`InIncident`) |
| `__enter__` with its recovery | `Enter`, `Recover`, then the reconciliation |
| `RejectedBeforeSend` | `Prepare` (before SUBMITTING) and `SendRefused` (after) lead to `Reject` |
| answer lost / request failed | `SendAccepted` with `lost`, `SendFailed`; the executor cannot tell them apart |
| `query` returns None / raises / answers | `QueryUnseen`, of any order at all: eToro's 404 says nothing about it / `QueryFailed` / `QueryAnswered` with `Answers` |
| process death | `Crash`: stack and lock gone, store and broker stay |

The broker side (`orders`, `held`, `clock`) is a nondeterministic broker bounded
by what the two adapters can report: it may fill (`BrokerFills`), end
(`BrokerEnds`) or stop out (`StopOut`) an order at any time. `MaxTime = 0` gives
an `ExecutionBroker` without snapshots, the simulator among them; `MaxTime > 0`
gives the answers of the eToro Demo adapter: submit only acknowledges, a close
is queried as UNKNOWN with the fills already booked, a cancel is only requested,
entry reports carry `remainingUnits` stamped by the broker's clock. `protected`
stands for an acceptable `post_fill_risk`: missing protection and exceeded risk
take the same path in `_apply`. `enforce_daily_loss` is `flatten_owned` behind a
condition, covered by `Operations`; `process_commands` is a script of
`OperationService`.

Ghost state, read by no action of the executor: `dispatched` (how often an intent
went out), `moved` (what the broker changed since the last reconciliation
began), `unseen` (the orders it has whose row was finished and whose query in
that reconciliation found nothing), and the bounds `moves` and `crashes`. The
code takes such an answer for clean (`engine.py:227-232`), so no property about
what a reconciliation establishes can hold of the orders in `unseen`: they leave
them out and `HiddenOrder` shows what happens with one. A query of an active row
that finds nothing is not excused: it makes the row UNKNOWN and the loop unclean.

**`Identity`, `Authorization`, `QuotaBudget`, `MutationContract`** - constant
level, or a small state machine: the classification of `/me` and of the
portfolio, the authorization as one value that `Activate`, `PauseEntries` and
`Invalidate` replace and `Passes` checks, the rolling pools, and the contract.

**`GuardedTransport`** - `brokers/transport.py` under the calls of
`EtoroDemoAdapter`. A call is a list of steps, `todo`, compiled from the method;
the code between two waits is one or more steps while the clock stands still.

| Code | Model |
|---|---|
| `EtoroDemoAdapter.submit`, `close`, `cancel`, `protect`, `query`; `perform_preflight` | `EntrySteps` ... `PreflightSteps`; `prepare` and the send are one `entry` call |
| `verify_mutation_identity` | `BeginVerification`, the identity reads, `EndVerification`; its handler is `guarded` and `Fails` |
| `_classify_pre_send` | `FailureAnswer`: rejected when the attempt counter did not move |
| one attempt of `request` | `Send` or `NotSent`, then an answer; `Wake` after a sleep |
| statuses, lost answers, 429 | `ReadAnswered`, `ReadRefused`, `ReadUnavailable`, `RateLimited`, `MutationAccepted`, `MutationRefused`, `MutationLost` |
| `restrict_to_preflight`, `observe_demo` | `RestrictToPreflight`, `ReadFingerprint`, `Observed` |
| the world while the thread waits | `Tick`, `Replace`, `OperatorPauses`, `LateLanding` |

The evidence of `Init` comes from another transport restricted to preflight, as
the composition in the code has it. Two back-to-back checks of one permit are
one step, because no time passes between them. That the deque drops old times
lazily cannot be observed, so `Recent` stands for it. A call whose review of an
entry fails, or whose lookup answers 404, is a refused read.
The identity reads of an entry have priority, so they use the slots which
`transport.py:161` describes as reserved for reconciliation and management: only
the entry's other requests leave the reserve alone.

**`OwnerScript`, `DemoSession`, `OperationService`, `LocalDatabase`** - the two
owners of the local database. A script is what the owner still has to do; each
step runs one operation of `Executor` to its end, with the simulator as the
broker (`SimulatorSteps`: no preparation, no snapshots, cancels at once, an
answer to every query).

| Code | Model |
|---|---|
| `DemoSessionRunner.run` | `Run`, `Admit`, `Signal`, `Settle`, `Reconciled`, `CloseQuoted`, `Finish`, `Return` |
| inputs, evidence and data of a session, in one digest | a scenario: preconditions, signals, quotes, eligibility, closing quotes |
| metadata `a6_binding`, `a6_result` | variables of the same names |
| `OperationService.__init__`, `close`, `command` | `StartService`, `StopService`, `Command` with `Programs` |
| `_fixture_start`, `_fixture_close` | `FixtureSignal`, `FixtureCloseOwned` |
| `save_report`, `_run_research` | `OpenReport`, `WriteReport`, `Publish` |
| `enqueue_command`, `pending_commands`, `finish_command`, `process_commands` | `Enqueue`, `Drain` with `PassOver` and `Execute`, `FinalStatus`, `Confirm` |

A process that finds the owner lock taken raises and changes nothing, so it is
not an action. Nothing in production calls `enqueue_command` and
`process_commands`; the script `drain` is an owner that does. A file torn by a
death makes every later research run raise, which is what
`PublishedReportIsWhole` leaves room for. The first precondition that blocks a
session writes an audit row, so the same database never accepts another binding.

**`ORBStrategy`, `ReplayAsOf`, `RiskSizing`, `Backtester`** - the research side.
`ProcessSession(view, d)` is the strategy as one operator of the visible bars;
`ReplayAsOf` asks it at the cutoff and at each publication instant and keeps
what it first says of a symbol; `Backtester` turns the decisions into events,
closes before opens before signals at one instant, and sizes each signal with
`Assess` on the current books. The code leaves the order of two events with
equal keys to the order in which they were appended; the model allows any.
`replayed` covers both uses of `run_backtest`. A late benchmark bar is
MISSING in a replay's prefix and INVALID in the complete data: `AsSeen` treats
these two reasons as one, and nothing else. Events of symbols without a signal
are left out, because no order of theirs exists.

What the code demands of its inputs is an assumption on the constants:

| Assumption | Code |
|---|---|
| `ORBAssumption`: counts and times are naturals; the opening range and the wait end inside the entry window, the entry window ends before positions are flattened | `StrategyConfig` (`orb.py:38-58`: `entry_window_minutes` is 6 to 60, `selection_wait_seconds` at most 10, the opening range 5 minutes) and `Session` (`calendar.py`; the shortest session of the calendar has hours) |
| `SoundDataset`: finitely many bars, prices above zero, one bar per symbol and minute, on a minute of its session, published when or after the minute ends | `Bar` and its validators (`models.py:21-54`), the checks of `ReplayAsOf.__init__` (`replay.py:54-75`) |
| `ReplayAssumption`: every dataset considered is sound | the same |
| `RiskAssumption`: limits, costs and fractions are naturals, the capital positive | `RiskConfig`, `CostConfig`, `InstrumentRules` (`risk/engine.py:14-72`) |
| `BacktestAssumption`: friction is a natural, latency positive | `BacktestConfig` (`backtesting/engine.py:30-36`) |

`Sum` is a fold over a function and `Search` a recursive function of the
interval that is left, so that both can be proved about.

**`HistoryDownload`, `ResearchPipeline`** - both history clients and the readers
of what they saved, then `approved_dataset` and the backtester. `wait` is the
time left until `_not_before`. Two ghosts measure it: `owed`, the time left of
anything a 429 asked for or the pause after a page demands, and `allowance`, the
time left of what any page asked for with its allowance used up, the last page
of a capture included. `MassiveHistoryClient` reads the latter only when a
`next_url` follows (`massive_http.py:285`), so after the last page of one symbol
the next one may be asked for when only the pause of 13 seconds is over, in a
client that `scripts/validate_massive_a2.py:36-43` shares between symbols.
`WaitsHonoured` leaves exactly this out: `BeginCapture` of a Massive client
forgets `allowance`, never `owed`. An Alpaca client keeps both from one capture
to the next. `disk` holds each symbol's last capture.
An empty dataset means that the bars come from captures.
After a 429 the mark is the provider's Retry-After alone, so the client's pause
of 13 seconds is kept after a page and not between two attempts, as the code has
it; and the mark belongs to the client object, so a new process does not wait
for the last one's.

**`MCStateStore`, `MCExecutor`, `MCTransport`, `MCLocalDatabase`, `MCResearch`** -
model values, the position of each entry, symmetry sets (broker numbers and
symbols are interchangeable; a symbol is renamed together with its position),
quotas, scenarios, tapes of bars and catalogues of pages.

## 4. Runs and bounds

| Run | Instance | Shows |
|---|---|---|
| `StoreLedger` | 1 symbol, 1 position, 2 broker numbers, 2 units, prices 1 and 3, cost 0-1 | units, fills, cash and session pnl are conserved over every sequence of calls |
| `StoreExposure` | 2 symbols competing for 1 position, 2 broker numbers, at most one entry of 2 units (`OneLargeEntry`) | types, reservations, fills and no short sale: the conjuncts of the inductive invariant |
| `ExecutorRecovery` | 1 symbol, 2 units, 2 broker moves, 1 crash at any step, queries that find nothing | nothing sent twice; nothing given up that may fill; unresolved orders block; reconciled and flat are true of, and unprotected fills are closed for, every order the last reconciliation was shown |
| `ExecutorPair` | 2 symbols, limit of 1 position, 1 broker move, at most one unprotected order (`OneUnprotected`) | the position limit across entries, and a reconciliation that is true of what it was shown |
| `ExecutorSnapshots` | eToro answers, 2 instants, 2 moves | the executor implements `StoreSpec`; pending accounting blocks; a close asks for what was last observed, which only a new fill makes forgotten; every operation ends |
| `DemoTransport` | an entry, a close, a protection or a preflight, two calls; 2 ticks, leases of 1 and 2 ticks, quota 10 with 1 reserved; 1 fault | quota and mark are honoured, refusals are justified, no mutation leaves without a running lease and a fresh identity, and the adapter implements `MutationContract` |
| `LocalDatabase` | 2 symbols, 5 scenarios, the service with 4 commands, a queue of 1 command, 1 crash at any step, 1 broker move | a PASS is flat and of its scenario, a completed session sends nothing, DONE is true, reports are whole; commands settle and sessions recover |
| `Research` | 2 sessions, 3 symbols, about a thousand datasets with late, missing and reordered bars; 7 catalogues of pages, 2 clients, 2 faults | fills are honest, books balance, sizes are the largest allowed, the replay decides as the whole day does, the waits a client keeps are kept, what is loaded is whole |
| `HiddenOrder`, `StopWidening`, `PendingAccounting`, `ManagementLease` | see findings | four disagreements between code and documents |

Why the bounds are enough to meet the cases. Two units give a partial fill, its
completion and a second report after a cancellation. Two prices give a falling
and a rising average, so an increment may be priced below both averages and
the refusal of a non-positive one is reached. Two broker moves give "fill, then
end" and "end, then late fill"; one crash at any step includes the crash inside
recovery's own reconciliation, after which the executor may start again. Two
symbols with a limit of one make the second entry depend on the first one's
whole life. Two instants give a fill, a snapshot and a stop-out. The named
bounds are `MaxUnits`, `MaxCost`, `MaxTime`, `MaxMoves`, `MaxCrashes`,
`MaxPositions` (the last is a setting of the code) and, in `StoreExposure`
only, the constraint `OneLargeEntry`: two small entries or one large and one
small already compete for the position, and one large one is enough for partial
fills. `OneUnprotected` keeps `ExecutorPair` to one incident at a time; section 6
says what becomes of a second one. `HiddenOrder` is the smallest instance of its
case: eToro answers, one symbol, one unit, two broker moves, no crash.

In `DemoTransport` an entry takes eight requests and a close seven, so that a
shared quota of ten is exhausted inside the second call, in a window of two
ticks that also ends inside it; an entry lease of one tick expires during the
identity reads, and the two Retry-After delays are one that a read sleeps
through and one that it does not. In `LocalDatabase` orders are of one unit
(partial fills are the subject of `ExecutorRecovery`), so that the bound goes
to two symbols, the owners and the crash. In `Research` five bars a session
leave an opening range, two minutes to break out, one to fill and one to exit;
the tapes vary each of these minutes, with publications up to three ticks late,
and a budget that both constraints bind. The catalogues are a sound one, a cycle
of pages, one without the field that ends it, a missing minute, a repeated one,
too many pages, and both symbols halted at the same minute. Other named bounds:
`Horizon`, `MaxCalls`, `MaxFaults` of the transport; `MaxRuns`, `MaxFaults`,
`PageLimit`, `Attempts` of the downloads.

Deadlock is checked in the runs of the store, the executor and the local
database. The transport stops when its calls are used up and the clock is at
`Horizon`, and the pipeline when its sessions are traded or its clients are used
up, so `DemoTransport`, `ManagementLease` and `Research` do not check it. Each
property has a mutant of the code that breaks it (`PROJECT.json`): for instance
an expired lease on an unanswered order (`RecoveredAsRejected`), a reservation
released on UNKNOWN, costs charged cumulatively, an attempt counted only when
its answer comes (`CountNothingYet`), a database bound to any scenario
(`BindingIgnored`), a prefix that misses the bars published just now
(`ViewBefore`), a bisection that stops one step early (`SearchEarly`).

## 5. Fairness

`Executor!Spec` assumes weak fairness of `ExecutorSteps` only: the executor's thread,
once inside an operation, keeps executing it; every store call is local and
every broker call answers or raises (the transport has timeouts and the retry
loops are bounded). Nothing is assumed of the operator, of the broker or of
crashes. `OperationsTerminate` needs it: without it a stack may just stay.

`DatabaseSpec` assumes weak fairness of `ProcessSteps` (a process that is not
killed runs on), and of its users only this: the one who began a session runs
the same scenario again until it has a result (`docs/A6_SESSION.md` prescribes
it), a service that died is started again, and the queue is drained again and
again (strong fairness, because each drain may be interrupted). Crashes are
bounded, so they end. `CommandsSettle` and `SessionRecovers` need these.
`SessionRecovers` excepts what no rerun can repair, named in `Irreparable`: an
entry that expired unsent, an order that was sent and is unknown to the
simulator, a position whose only close is spent, and an order that expired or
was rejected while its row was CANCEL_PENDING, for which `TRANSITIONS` has no
step (`etoro_demo.py:91` maps a status of the broker to it).

## 6. Proofs

`StateStore_proofs` proves, for every set of symbols, positions and broker
identifiers, every bound and every sequence of calls, from `StoreAssumption`
alone (identities are disjoint, `Nil` is none of the values, bounds are
naturals):

| Theorem | States |
|---|---|
| `StoreInvariant` | `StoreSpec => []IInv` |
| `StoreTypes` | `TypeOK` |
| `ReservationsAreExact` | `ReservationsCoverActiveEntries` |
| `NoShortSale` | `NeverOversold` |
| `FillsAgreeWithStates` | `FillsMatchState` |

The argument. None of the four properties is inductive alone. No short sale
needs to know that an entry with fills is never submitted anew
(`FillsMatchState`: no fills before submission), that fills never exceed the
order, and that a position row always has an owner with fills; exact reservations
need that a finished order is never revived by the executor's own transitions
(`NoRevival`) but may be by a late fill, which reserves again; types of the
reservations need that fills never exceed units. `IInv` is their conjunction and
is inductive: one lemma per action (`IInvCreateEntry`, `IInvCreateClose`,
`IInvTransition`, `IInvOther`, `IInvApplyBrokerOrder`), and for a report the
lemmas `DeltaTyped`, `BookedPositions` and `ObservedPositions` follow the
position row through its two stages. `StoreExposure` checks the same four
conjuncts with TLC.

The second part of the module proves the conservation laws of `StoreAccounting`, for any finite
number of symbols and positions, from `StoreAssumption` and
`FiniteIdsAssumption`:

| Theorem | States |
|---|---|
| `UnitsAreConserved` | `UnitsConserved` |
| `FillsAddUp` | `FillsMatchCumulative` |
| `SessionPnlAddsUp` | `SessionPnlMatchesPositions` |
| `CashIsConserved` | `CashConserved`, while no average price is rounded |

The argument. The laws are sums, and the sums are folds of the community
modules. The lemmas of `SumTheorems` say what they are: a fold over a finite set exists and
is the one its definition describes (`FoldIsSum`), so a sum changes by what is
added or by the term that changes (`SumAdd`, `SumChange`), and does not when no
term does. It needs induction over a finite set of naturals; the library's
theorem takes an operator as a parameter, so `SetInduction` states it for a set
and shows it with a least counterexample. `StepKinds` then reduces the store to
steps that touch no money and reports; a report opens or enlarges a position,
only charges a cost, or sells (`ReportMoney`). Each law has one lemma for the
sums that move (`UnitsMove`, `RowsMove`, `PositionsMove`, `BasisMoves`) and one
for the step. The rows of `fills` need their key: no two rows of one order have
the same cumulative quantity, because a report that books one raises it.

`CashIsConserved` has the hypothesis `ExactAverages`: whenever an entry fill is
booked, the new average divides out. The code divides decimals of 28 digits and
the model whole numbers, so in both a rounded average is no longer the money
spent, and then the law is false by the rounded part. Both prices of
`StoreLedger` give whole averages, and a single price always does, so the
hypothesis has runs with every interleaving of reports.

`Executor_proofs` proves, for every set of symbols, positions, prices and
bounds, every move of the broker, every lost answer and every crash, from
`StoreAssumption`, `FiniteIdsAssumption` and `ExecutorAssumption` (no two
entries open the same position, the broker has a number for every intent, some
price exists, and an order may be protected):

| Theorem | States |
|---|---|
| `ExecutorInvariant` | `Spec => []EInv` |
| `ExecutorImplementsStore` | `StoreSpec` |
| `SentAtMostOnce` | `NeverSentTwice` |
| `ClosesMatchObservations` | `CloseMatchesObservation` |
| `ExecutorTypes` | `ExecutorTypeOK` |

The argument. `EInv` joins the invariant of the store, the shape of the call
stack (`Stacks`: typed frames, where the calls that create, send or book occur
at the top only), the broker (`BrokerOK`: what it holds is what its orders
filled, and an intent that was dispatched is past APPROVED in the store) and two
links between them: a call about to send has an intent that is SUBMITTING and
was never sent, inside the `try` that handles it (`Ready`), and complete books
are those of the last observation (`Complete`; where a fill made the row forget
one, `store.py:498`, the close counts from the books, as the property says and
`PendingAccounting` shows the worst of). The shape is why no order goes
out twice: the row becomes SUBMITTING in one frame and the send is the very
next, so neither a nested call nor a crash can put another send between; the
store's own transitions never lead back from SUBMITTING (`StaysSent`). Most
steps are calm: they leave no such call at the top and do one store call or
none (`CalmMoves`); the others have a lemma each. That every action is a step of
the store or a stutter falls out of the same case split.

`ExecutorExposure_proofs` proves

| Theorem | States |
|---|---|
| `UnresolvedBlocks` | `UnresolvedBlocksEntries` |
| `ExposureIsLimited` | `PositionLimit` |
| `GivenUpWhenDead` | `ReleasedOnlyWhenDead` |

The argument for the first. Between operations an order of unknown fate or a
position of unknown units blocks entries, but inside one it does not yet. So
`GateInv` says of every unresolved state that entries are blocked, or that the
stack will block them: a `reconcile()` is under way, which closes or opens the
gate when it ends, or the handler of an ambiguous call still has its remaining
calls (`Settling`). Its other parts say that a handler has them on the stack
(`Handled`), that `__enter__` recovers behind a closed gate (`Blocking`), and
that an UNKNOWN answer is booked only inside a reconciliation (`Answered`).

The argument for the others. What may be given up depends on how old the
executor's knowledge is. `Fresh` says that what a loop read as unsent was not sent since, although
other calls ran between; it holds because an entry is prepared and sent with no
other call below it (`Alone`). `Dated` says that a report about to be booked may
be older than the broker's order but does not contradict it, and that one which
ends an order comes from an order that is dead, unless the broker moved it
after the reconciliation began. `Lagging` says the same of the books: a row that
is cancelled or expired is not taken for partially filled without the fills that
revive it, so a report that revives an entry brings a fill and is recorded as
late. `Limited` is the limit on all that may hold a position, minus those late
fills: the broker already executed them, and the code books them and records an
incident instead of refusing them. TLC checks these invariants on the instances of the
executor's runs, where several weaker ones failed first.

`ExecutorAgreement_proofs` proves, on top of the two above and from the same
assumptions, that what the executor says after a reconciliation is true of the
broker, and that it closes what the broker leaves unprotected:

| Theorem | States |
|---|---|
| `ReconciledIsAgreed` | `ReconciledMeansAgreed` |
| `ConfirmedIsFlat` | `ConfirmedFlatIsFlat` |
| `OneIncidentIsClosed` | `UnprotectedIsClosed`, given `[]ProtectedBut(only)` for one symbol `only` |
| `LoneEntryIsClosed` | `UnprotectedIsClosed` of one symbol, with no other hypothesis |

The argument for the first. `Off` is the set of orders about which the store and
the broker disagree although the broker did not move them since the last
`reconcile()` began. Between operations it must be empty while
`reconciliation_ok` stands; inside one it need not be, so `AgreeInv` says who
will notice. Orders that the last `reconcile()` was not shown (`unseen`) are
outside `Off`. While a reconciliation runs, every order that is off is still ahead
of its loop, is the one being asked about right now, is UNKNOWN in the store
(which the end of the loop finds), or the loop is not clean any more
(`Covering`); an order that the store gave up is still in the loop, which skips
only rows that were never sent and rejected ones, and when its query finds
nothing it leaves `Off` for `unseen`. No reconciliation runs inside another (`Once`), so the end of
one cannot hide what an outer one has found. Outside a reconciliation only the
order whose call is under way may be off, or a handler is about to block entries
(`Outside`, `Underway`, `Doubted`). A booking puts an order right because the
report on top of the stack is still what the broker has (`Current`), or it was a
query's answer without content and the loop above it is no longer clean; and it
can be booked because the books only ever lag behind the broker (`Books`,
`Told`). A failed call or a refused booking is always inside the `try` of the same
order or inside the loop (`Tried`, `Queried`): no failure passes unnoticed.

For the second, `FlatInv` adds the quantities. What the broker holds of a
position is at most what its entry bought and its close did not sell
(`Holdings`; at most, since a native stop sells behind the executor's back), and
the books of a position are exactly the entry's booked fills less the close's
(`Ledger`). The broker moves an entry together with its position (`Paired`), so
of a position that did not move neither order is off. FLAT_CONFIRMED is
answered after the final reconciliation, with no open position: the booked fills
of the two orders are equal, hence the broker's are, and nothing is left to be
held. No active intent and nothing off leave no order that may fill.

The incidents. `UnprotectedIsClosed` is not a theorem of `Spec`: `_apply` manages
an incident only when none is being managed (`engine.py:210`), and for a second
one found meanwhile it only pauses. The operation may then end with that position
unprotected and not asked to close while `reconciliation_ok` stands; the next
`reconcile()` queries its FILLED row again, finds the incident and closes it. The
theorem is therefore about the case the
code handles, where the fills of every entry but one are protected at the broker
(`ProtectedBut`), whatever that one entry meets: partial fills, lost answers,
refused calls, late fills, deaths and recoveries. With one symbol there is no
other entry and the hypothesis is true of itself. The invariant `CloseInv` has
four parts.
`Heard` says that a report about to be booked shows the protection the broker has,
or an older number of fills. Once the close has a row, it keeps it (`RowKept`).
Until then the stack has one of three shapes (`Shaped`): no incident; calls of an
incident above its `close_owned` (`Managing`); or an incident past its
`close_owned` (`Concluding`), which it reaches without a row only when the close
was impossible (`ManagingSteps`). And a position that the property is about
(`Bare`) is on the executor's mind (`Minded`): its incident is being managed, its
report is on top of the stack, or entries stay blocked until a `reconcile()` has
asked for it. For the last, the loop of the reconciliation still has the entry
ahead of it or is not clean (`Asking`, the cover of `AgreeInv` for that one
order), so it cannot end with the gate open, unless its query of the finished
entry found nothing: then the entry is `unseen`, which the property excepts. Only the booking of a report makes a
position bare (`BareKept`), and it begins the incident in the same step unless one
is under way; then it is the entry's own, by the hypothesis (`BookedBare`). A
recovered process has lost the stack, which is why the invariant asks nothing of a
stopped executor and `__enter__` must block entries until it has reconciled. An
idle executor with the gate open has no stack and no block, so it has nothing bare.

`LocalDatabase_proofs` proves, for every scenario, fixture, queue of commands,
set of actions, number of deaths and move of the simulator, from the assumptions
of the executor, `ScenariosAssumption`, `ServiceAssumption` (the fixture's
signals are symbols, the actions and kinds are those of the code),
`SimulatorAssumption` (both owners build the simulator with its default
protection) and `OwnersAssumption` (nobody is not an owner):

| Theorem | States |
|---|---|
| `OwnersKeepExecutor` | `DatabaseSafety => []DatabaseInv` |
| `PassesAreFlat` | `PassIsFlat` |
| `CompletedSessionIsQuiet` | `CompletedSendsNothing` |
| `ResultsAreOfTheBinding` | `ResultIsOfBinding` |
| `CommandsAreHonest` | `DoneMeansConfirmed` |
| `DashboardShowsWholeReports` | `PublishedReportIsWhole` |

The argument. Every step of the composition is a step of the executor, leaves
it alone, or happens while no executor is entered (`OwnersMove`, `Rested`): an
owner only calls its operations, with arguments they are made for, and a step of
the simulator is one of those the executor expects of any broker
(`SimulatorNext`). So the invariants of the executor hold under its owners,
whatever they are asked for, and what remains is about the scripts. `ScriptInv`
says that a script is before its executor, inside it or after it (`Phase`), that
its steps have arguments of the right kind and name rows of the queue
(`Scripted`), that nothing is done without the lock (`RightOwner`), and that a step
which looks at the scenario has one (`Bound`). It is inductive because every
step is of one of nine kinds (`AllKinds`); the calls that an operation can
have on the stack are those of a set closed under calling (`Closed`, `OpsKept`),
which leaves out `release`, so an executor is not left before its script says so.

The properties then rest on one addition each. A session may pass only with
`reconciliation_ok` between two operations, so nothing is off (`Outside` of
`AgreeInv`; the simulator answers every query, so `unseen` stays empty,
`ShownNext`) and with flat books the simulator is flat too (`FlatBroker`); from
there to the answer it only pauses and leaves (`Passing`), and what the
simulator does meanwhile is excused (`MovesExcuse`). `CommandsAreHonest` uses the
same two facts at `finish_command`, where the command's row is the only one
with its identifier (`Unrepeated`) and kept its kind. With a result, a script
has only the steps of a run that repeats it, and the calls of entering and
leaving, recovery and reconciliation included, are closed without `send`
(`Settled`, `QuietClosed`). A report is published only where the script writes it
before or it is whole already (`Announced`): it may be torn, but then nothing
names it, and an existing whole one is left alone.

`GuardedTransport_proofs` proves, for every account, identity document, quota,
lease, delay, number of attempts, calls and faults, from `TransportAssumption`,
`AuthorizationAssumption` and `QuotaAssumption` (the owner is an account, leases
are ordered, delays are naturals, the operations are the adapter's, every route
has its pool):

| Theorem | States |
|---|---|
| `MutationsNeedPermit` | `MutationsAreAuthorized` |
| `RetryAfterIsHonoured` | `RetryAfterHonoured` |
| `ImplementsContract` | `ContractSpec`: the adapter over the transport implements `MutationContract` |
| `TransportTypes` | `TransportTypeOK` |
| `QuotaIsKept` | `QuotaPerWindow` |
| `RefusalsAreJustified` | `RefusedOnlyWhenFull` |

The argument. A call is compiled to a sequence of tasks (`Program`). `Covered`
says that each mutation of a program comes right after the task that checks the
permit and the identity; `CoveredProgram` shows it of every operation, from
lemmas about what concatenation and a `try` block keep. `Inv` carries this into
the run: every mutation still to be sent is covered (`OrderInv`), no mutation
sleeps for a retry, and when one is next, the check has just passed and nothing
can happen in between, because no time passes and nobody else acts while the
thread runs. It is inductive with the types (`LocalInv` and `AnswerInv` for the
steps of the call, `NextInv` for all of them). `RetryInv` says that the budget's
mark is at least every wait asked for, which `Limited` keeps because it takes
the later of the two instants. For the contract, `ProgramMutations` shows that a
program has one mutation or none, and `ContractInv` says of the open call that
either its mutation is still to come and nothing landed, or it landed once, was
counted and nothing is left to send; of a lost one, that it was answered unknown.
So an answer `rejected` is given only when nothing was counted, hence nothing
landed. `NextContract` then maps every action to a step of the contract or a
stutter. For the quota, `QuotaInv` says that the budget counts in every window
as many uses of a pool as requests were sent; so the room that `take` found is
room for the request, and a pool it found full is full of requests. `MarkInv`
says that some answer asked for the wait the budget keeps to.

`ResearchPipeline_proofs` proves, for every catalogue the server may hold, every
header, number of runs, attempts, pages and faults, every sound dataset, order
of publication and number of sessions, and every setting of the strategy, the
risk engine and the backtester, from `DownloadAssumption` (waits are naturals,
pages are numbered and linked, their rows finite, of the symbol asked for, and
bars dated by their day: another document is a refused answer),
`ArchivedAssumption` (archived bars are sound and of other symbols) and the
assumptions of section 3:

| Theorem | States |
|---|---|
| `WaitsAreHonoured` | `WaitsHonoured` |
| `LoadedIsAlwaysWhole` | `LoadedIsWhole` |
| `ReplayAlwaysMatches` | `ReplayMatchesOneShot` |
| `BooksAlwaysBalance` | `BooksBalance` |
| `FillsAreAlwaysHonest` | `FillsAreHonest` |
| `EntriesAreAlwaysSized` | `SizedAsLargeAsAllowed` |

The downloads. `WaitInv` says that what is still owed never outlasts the client's
mark, nor does a used-up allowance, except that of a last page, which a Massive
client ignores: then its capture has nothing left to send (`Parting`), and the
next capture is outside the property. It is inductive because a request leaves
only when the mark is reached, so nothing is owed when an answer replaces it. `CaptureInv` says that what the
process holds and what is on disk are pages of the server, the downloaded symbol
among them: without it a directory left by a dead process could hold anything.
The reader then refuses a chain that is open, a minute twice and a minute
missing; from cardinalities, two bars of one minute are the same (`AtMostOne`,
`OneRowAMinute`), and a damaged page cannot pass (`ApprovedIsWhole`). The pages
of several symbols, moved to the instants at which their bars close, form a
sound dataset (`ApprovedIsSound`), so the rest holds of what was downloaded too.

The replay. The strategy is a function of the bars it is shown, so the question
is what it reads. For every instant from the cutoff on, the bars published by
then decide what the complete data decide: why a symbol is refused
(`ReasonIsFinal`), which candidates are selected with which rank
(`SelectionIsFinal`), the first breakout to arrive once it has arrived
(`DecisiveIsFinal`), and what the benchmarks say at that bar (`OutcomeIsFinal`,
up to the two readings of a late bar). Most of it rests on one
observation: each of these reads a bar only after it has asked that the bar was
there in time, those of the warm-up by the cutoff too. `ReplayInv` says of the session under way that what was
gathered is what the complete data say up to the clock (`Follows`), of the
decided ones that they are equal to it, and that nothing was raised. It is
inductive because between two publication instants nothing becomes visible
(`NextInstant`) and a signal's instant is that of its breakout.

The size. Risk and cost of an order grow with its units (`EstimateGrows`), so
fewer units fit wherever more do (`FewerFit`). The bisection is a recursive
function of the two ends of an interval. Induction over data is out of the
prover's reach, so no theorem of the library says that such a function is the
one its equation describes. Instead `SearchExists` shows that the function which
gives every interval its largest feasible number satisfies the equation, and
`SearchUnique` that every solution is that one, with `SetInduction` over the set
of widths for which it is (`SearchFindsLargest`); the ceiling excludes none
(`CeilingBounds`). That every approved entry was seen to have
prices and budgets that are numbers comes from the books (`BooksAreNumbers`).

The trading. `TradingInv` is about the books between two events. `Typed` and
`Balanced` are the ledger: a close moves out of the open positions exactly what
it brings to cash and to the trades. `Placed` says that a decided signal is in
exactly one of its six places, and `OnePer` that a symbol has one order or
position; it needs `OnlyToday` (orders and positions of two days never meet,
because a position of another day pauses entries) and `SeenBefore` (a signal
handled does not come again). `Honest` is the history of each order, position
and trade: when it was sent and filled, and that each bar since then did not
touch the stop or is still to come (`Ahead`). This is why it also says which
events were handled: `HandledFirst` says that what is still to come is not
before what is done, so an open that is handled now is the first after the
submission, and a close of a bar is handled after the open of the same minute.
Each kind of event has a lemma (`SubmitStep`, `OpenStep`, `CloseStep`), and
each stage of a bar another (`FillsHonestly`, `StopsHonestly`,
`ClosesOnSchedule`). TLC found `TradingInv` true
of every state of `Research` before it was proved.

Only model-checked: liveness, that of the operations, of the session and of the
command queue. Every invariant and every action property of the passing runs is
stated by a theorem, `UnprotectedIsClosed` with the hypothesis above. The
properties of the four violation runs are false and have no theorem.

## 7. Findings

* `StopWidening`: `_apply_fill` (`store.py:505`) takes the stop of the intent for
  the rebuilt position, so a fill booked after `tighten_stop` lowers the recorded
  stop, although `docs/RISK_POLICY.md:28` says "No amplía stops".
* `PendingAccounting`: the same rebuild (`store.py:498`) drops
  `observed_units` and `accounting_complete = False`; a later report without the
  optional `remainingUnits` leaves the position complete without evidence,
  although `docs/ORDER_LIFECYCLE.md:69` says pending accounting blocks.
* `HiddenOrder`: `reconcile` takes a query that finds nothing for clean when the
  row is finished (`engine.py:227-232`), and the eToro adapter answers so for
  every 404 (`etoro_demo.py:334-336`, `424-426`). A cancelled entry that fills
  late behind a 404 therefore leaves `reconciliation_ok` true, and
  `flatten_owned` answers FLAT_CONFIRMED while the broker holds the position,
  although `docs/OPERATIONS_RUNBOOK.md:125` says of late exposure "no informar
  flat" and `docs/ORDER_LIFECYCLE.md:73` that a 404 is no observation.
* `ManagementLease`: the handler of `verify_mutation_identity`
  (`transport.py:299-301`) invalidates the whole authorization, so an entry whose
  own lease ended while the identity was read takes the management lease with
  it, and open positions cannot be closed before a new activation, although
  `docs/adr/006-arming.md:5` says that management has a separate permission.

## 8. What is not modelled

Out of the prover's reach, and left to TLC: liveness and fairness, `ENABLED`, and
what a recursive definition computes for every input (sums over finite sets are
proved through the lemmas of `SumTheorems`, the one recursive function of
the risk engine through those of `ResearchPipeline_proofs`).

Left out of the model:

* `backup` and `restore`. The command line restores a database of the simulator,
  whose orders live in the same file and go back with it; nothing restores a
  store that an external broker has moved on from.
* The text of audits, reports, logs and the page, the HTTP layer of the
  dashboard, configuration and command-line parsing, the schema migration.
* Parsing of files and of broker JSON: a document that does not validate is a
  failed query or a refused answer. TLS, proxies, redirects and JSON encoding of
  the transport, and the preview of costs, which only reads.
* `mark`, which only feeds the unrealized pnl; the CSV importer, the audits of
  captures, the equity curve, metrics, bootstrap, experiments and content hashes
  of the backtests: arithmetic and formatting on what is modelled.
* The ORB_BASE_v0.1 variant and revised bars; the notional cost rate, which is
  zero by default; Decimal rounding (budgets are whole numbers, which decide the
  same comparisons).
* Several trading sessions in one store (a session's rows are those of the
  model; the uniqueness key contains the session).
