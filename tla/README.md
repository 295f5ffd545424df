# Verification of the AI quant trader

This directory is a verification project for the backend (`backend/app`,
`backend/scripts`) and the Celery worker (`worker`) of the AI quant trader: TLA+
modules translated from the source, TLC configurations that check them on small
instances, and proofs that TLAPS checks for every value of the constants.
`PROJECT.json` maps each definition to the lines it stands for and lists the
runs, the mutants, the hazards and the theorems.

## 1. The system

The program is a FastAPI backend over PostgreSQL and Redis, a Celery worker
with a Beat scheduler, a broker adapter (a mock, or QMT through `xtquant`), and
scripts that an operator runs by hand.  Nothing is shared in memory between
backend and worker: they meet in the database, in Redis and in the Celery
queues.

| Part | State | Operations | Hard behaviour | What makes it correct |
| --- | --- | --- | --- | --- |
| Operation jobs (`jobs/service.py`) | `audit.async_jobs`, `async_job_attempts`, `async_job_results` | enqueue, claim, cancel, progress, complete, fail, recover leases, list | several executors, leases, retries, crash recovery | a job ends once; the attempt history agrees with the row; a success has its result; every job ends |
| Dispatch (`jobs/operations.py`, `jobs/dispatch.py`, `worker/tasks/jobs.py`) | Celery queue | send, record the send, execute, recover and dispatch | duplicates, losses, refused sends, dead processes | duplicates are harmless, losses are made good |
| Backtest jobs (`backtest/jobs.py`, `backtest/service.py`) | the same table without leases, `backtest.tasks`, `backtest.results` | enqueue, execute, cancel | a crash leaves no lease to expire; three transactions per result | a success has its result, a cancellation wins |
| Execution authorization (`trade/execution_authorization.py`) | approvals, approval events, order intents, broker outbox | request, approve, consume, create intent, mark | concurrent consumption, expiry, intent generations | one approval allows one order, of its payload, by its requester, approved by someone else |
| Order manager (`trade/order_manager.py`) | the request's transaction, orders | create, cancel | commit before the broker call, crash around it | no broker call without a committed, authorized outbox row |
| Live trader, order sync, event bridge | orders, positions, account, broker orders | submit, poll, callback, cancel, copy positions | callback against poll against cancel, stale reads, deadlocks | every fill is counted once; ended orders stay ended |
| Simulation trader and ledger | orders, positions, account | submit, fill, release T+1, value | check then act on cash and sellable quantity | cash and positions follow the orders |
| Fuse (`risk/fuse.py`) | `risk.fuse_records`, a Redis key | activate, recover, read | two stores, no common commit | fail closed, and recoverable |
| Risk checker and monitor (`risk/checker.py`, `risk/monitor.py`) | account rows, positions, quotes | pre-trade check, valuation, day end | stale quotes, rows rewritten in place, orders between check and booking | no purchase beyond its limits, no order in a drawdown |
| Strategy governance (`strategy/version_service.py`) | versions, head, approvals, catalogue, events | submit, approve, activate, verify | separation of duties, lock orders, releases in between | one active version, approved by another human |
| Backtest engine (`backtest/engine.py`, `market_rules.py`) | cash, shares, orders of a run | day loop | T+1, price limits, corporate actions | the books balance; entitlements are settled once |
| Synthetic ledger, shadow runner | an event list, idempotency keys | submit, approve, execute, release; build a reference | replay, rounding, a cutoff in time | frozen cash and shares are exact; no look ahead |
| Free observation (`data/free_observation_*`) | a directory of documents | fetch, evaluate, apply, review | any order, repetition | the account is what its events rebuild |
| Quotes (`worker/services/quote_*`, `data/service.py`, `data/cache.py`) | batches, quotes, Redis, memory of the backend | collect, store, cache, publish, serve | crash between two stores, two caches that refill each other | nothing unrecorded is shown, nothing old is served |
| WebSocket manager (`ws/manager.py`) | connection maps, last pings | connect, broadcast, heartbeat, disconnect | connection lost while broadcasting | no map keeps a connection that ended |
| K-line store (`data/service.py`, importers) | `market.klines`, provenance, batches | display save, backfill, import | three writers that know nothing of each other | a certified row is what its batch brought |
| Certified store (`data/certified_*`, `import_sprint13_dataset.py`) | calendar, certified bars, batches, checkpoints, reviews | import, certify, audit, review, load | concurrent importers, restatements, broken audits | a backtest sees every open day |
| Research evidence (`worker/services/research_*`, `financial_report_*`, `api/research.py`) | batches, evidence, reviews, terms, files, parses | collect, review, observe terms, snapshot, parse | crash between transactions, files outside of them, repeated requests | what is shown is true and current |
| AI agents, screener, retrieval, notification, signals | none, or external indexes | calls | - | - |
| Authentication, read-only API, frontend | principals, sessions | - | - | - |

Interactions: an API handler calls a service; a service writes the database
inside `get_db` (one transaction, committed at the end of the block, rolled back
on an exception); jobs are sent to Celery after their commit; the worker opens
its own transactions on the same tables; the broker adapter calls back into the
order event bridge from its own thread; Beat starts the periodic tasks
(recovery 30 s, order sync 15 s, quotes 3 s, valuation 30 s, and daily tasks);
the worker publishes quotes through Redis to the backend's WebSocket clients; a
queued backtest holds a snapshot of a strategy version and passes the readiness
gate of the certified store when it runs.

## 2. How the project is laid out

| Module | Composed in | Abstract specification | Proofs |
| --- | --- | --- | --- |
| `AsyncJobs` | - | `JobContract` | `AsyncJobsProofs` |
| `OrderExecution` | `MCOrderExecution` | `ApprovalContract` | `OrderExecutionProofs` |
| `OrderSync` | `MCOrderSync` | `FillContract` | `OrderSyncProofs` |
| `Fuse`, `RiskGates` | `OrderGates`, `MCOrderGates` | - | `OrderGatesProofs` |
| `BacktestJobs`, `SimulationLedger` | `StrategyTrials`, `MCStrategyTrials` | - | `StrategyTrialsProofs` |
| `StrategyVersions` | `MCStrategyVersions` | - | `GovernanceProofs` |
| `BacktestEngine` with `MarketRules`, `SyntheticLedger` with `ShadowRunner`, `FreeObservation` | `Simulators`, `MCSimulators` | `AccountingContract` (engine) | `SimulatorsProofs` |
| `QuoteFeed`, `QuotePush`, `KlineStore`, `CertifiedStore` | `MarketData`, `MCMarketData` | - | `MarketDataProofs` |
| `EvidenceStore`, `SourceUsage`, `ReportSnapshots` | `ResearchEvidence`, `MCResearchEvidence` | - | `GovernanceProofs` |

A composing module joins components in one of two ways.  Components that
interact take steps in one state: `QuotePush` broadcasts what `QuoteFeed`
publishes, `SyntheticLedger` executes the references of `ShadowRunner`,
`BacktestEngine` asks `MarketRules`, `ReportSnapshots` needs the evidence and
the terms that `EvidenceStore` and `SourceUsage` record.  Components that share
no row and no key are put side by side with a variable (`trial`, `gate`,
`part`) that says which of them a behaviour exercises; nothing is lost by this,
since the steps of the others could not change what it does.

Left for later: the drift and coverage reports of the shadow runs; the session
lifetime.

## 3. The modules

All modules take the same view of the database.  PostgreSQL runs at READ
COMMITTED: a statement sees what is committed and what its own transaction
wrote.  One statement, or a run of statements under one lock, is one action; a
transaction that other sessions can interleave with is several, and its writes
reach the shared variables when it commits.  Row and advisory locks are not
variables where who holds one follows from where a session stands.  Rollback is
the loss of what a session holds.  A session learns what became of its commit;
the answer can be lost only in `InsertEvidence` and `Record`
(`ResearchEvidence`), whose handlers go on to act as if the commit had failed.
Definitions that a comment calls a mutant are
the code with a plausible mistake; nothing in a specification uses them.

### AsyncJobs, JobContract

Operation jobs (`jobs/service.py`, `jobs/operations.py`, `jobs/dispatch.py`,
`worker/tasks/jobs.py`).

- State: the job row (`status`, retry count, lease, lease token, dispatch
  code), the attempts and results, the Celery messages under way, and for every
  executor and dispatcher where it stands and what it holds.
- Actions: `Enqueue`, `RequestCancel`; the dispatcher of the API process and of
  Beat (`SendTask`, `SendRefused`, `MarkDispatch`, `DispatcherCrash`); delivery
  (`Deliver`, `LoseMessage`) and execution through HTTP (`HttpExecute`); `Claim`,
  `Execute` (progress, the operation, renewal, completion or failure),
  `TimeLimitKill`, `WorkerCrash`; `LeaseExpires`, `RetryBecomesDue`,
  `RecoverExpiredLeases`, `ListDispatchable`.
- Time is two facts, that a lease has run out and that a retry is due.  A
  Celery execution loses its lease only after it has been killed: the lease is
  660 s (`operations.py:33`), the hard time limit 600 s (`celery_app.py`).  An
  execution through HTTP has no limit and may outlive its lease.
- `JobContract` is what a requester is promised: a job is waiting, working or
  ended, it is tried at most `MaxRetries + 1` times, and its end is final.

### OrderExecution, ApprovalContract

Approvals, intents, broker outbox, broker call
(`trade/execution_authorization.py`, `trade/order_manager.py`, the callers in
`api/trade.py` and `api/risk.py`).

- State: approvals with payload, requester, approver and expiry, the request an
  approval was consumed for; intents by the request that created them, with the
  15-minute window and the newest generation of each (principal, key); the
  outbox; order rows; what the broker did; the handler of each request.
- Actions: `RequestApproval`, `Approve`, `ApprovalExpires`; a handler's
  `Receive`, `CreateIntent`, `RepeatedKey`, `AuthorizeOrder`, `RefuseApproval`,
  `RejectByChecks`, `CommitOutbox`, `SimulateOrder`, `NoTrader`, `CallBroker`,
  `RecordAnswer`, `RecordUncertain`, `Abort`; for operations
  `ConsumeOperation`, `RefuseOperation`, `PerformOperation`; `IntentExpires`.
- `ApprovalContract`: an approval moves forward only (requested, approved,
  consumed), is spent at most once, for one request, and has at most one
  effect, which is that request's and never comes before the spending.  That
  requester and approver differ and that the payload matches is not part of the
  contract but of `EffectIsAuthorized`.

### OrderSync, FillContract

Order rows met by the sessions that submit them, the poll, the broker's
callbacks, cancels and the daily copy of positions (`trade/live_trader.py`,
`trade/order_sync.py`, `trade/order_event_bridge.py`).

- State: the broker's orders, the order rows, the positions, the cash paid for
  each order (`paid`), what events are under way, and each session: what it
  has read and what it has written and not committed.
- Actions: `BrokerFills`, `BrokerCancels`, `BrokerFails`; `Submit`,
  `InsertOrder`, `PushEvent`; `StartPoll`, `NextOrder`, `StartCancel`,
  `BrokerEvent`, `PushedEvent`, `Lookup`; `Query`, `Apply` (with the early
  returns and the compare-and-set of the order row), `ReadPosition`,
  `WritePosition`, `UpdateAccount`, `Commit`; `StartCopy`, `CopyPosition`,
  `FinishCopy`; `Crash`; `BreakDeadlock` (the database ends one of the sessions
  that wait in a circle).
- The broker is external: it fills, cancels or fails an open order at any time,
  but fills nothing after the positions have been copied (15:35, after the
  close), and answers with a report that may be behind (`Lags`).
- History variables name the ways in which a position comes to disagree with
  the rows: `overwritten` (a session wrote it from an older read), `early` (it
  was copied before all fills were booked), and two of sales that the local
  position does not cover: `short` (it had fewer shares than the fill sold and
  was deleted) and `gone` (there was none, and the fill is booked without
  position or cash, `live_trader.py:397`).  `SalesFindTheirShares` says that the
  last two need a holding below the orders to sell, or a copy.
- `FillContract`: the fills booked for an order only grow, never beyond its
  quantity, and stop when the row has ended; the account pays for each booked
  share once, in the step that books it, but for fills of sales from nothing.

### Fuse, RiskGates, OrderGates

The two gates an order passes.  `Fuse` is the circuit breaker's two stores
(`risk/fuse.py`) and the check an order makes; `RiskGates` the rules of
`risk/checker.py` over what `risk/monitor.py` measures.

- `Fuse`: `risk.fuse_records` (one possible record per activation), the Redis
  key, the session of each activation, recovery and order check.  The handlers
  go step by step, up to the commit of the record, which comes after the key is
  written (`WriteKey`, `CommitActivation`, `Lift`, `ClearKey`,
  `CommitRecovery`), with their failures, and `LoseKey` (Redis evicts, and keeps
  nothing over a restart).  An order that finds a store out of reach is refused.
- `RiskGates`: quotes and their age, positions with their marks, the account
  rows, the order sessions.  `ReadQuoteAndAccount` and `DecideOrder` are the two
  halves of a check, `BookOrder`, `HangOrder`, `DropOrder` what becomes of an
  order, `SyncPortfolio` the valuation that rewrites the newest row,
  `TakeEodSnapshot` the row of the day's end, `QuoteMoves` and `QuoteAges` the
  market.  `overtaken` marks orders whose inputs changed between their two
  reads.

### BacktestJobs, SimulationLedger, StrategyTrials

- `BacktestJobs` (`backtest/jobs.py`, `backtest/service.py`): job row, attempts,
  `backtest.tasks` and `backtest.results` of each attempt, the execute requests
  under way.  Actions: `Enqueue`, `RequestCancel`, `Claim`, `ClaimCancelled`; an
  execution's transactions `CheckLock`, `Progress`, `CreateTask`, `StartTask`,
  `RunAndSave`, `FinishTask`, `FailTask`, `Finish`; `RetryDue`; `Lose`.
- `SimulationLedger` (`trade/simulation_trader.py`, `trade/account_ledger.py`,
  `worker/services/portfolio_sync.py`): order rows, positions with a sellable
  part, cash and recorded total, the transaction of each order, of the valuation
  and of an API release; as history, which orders were overtaken by another one
  and which stocks were released after a purchase of the same day.  Actions:
  `Submit` (price, check, read, write, book), `RollBack`, `Cancel`;
  `MorningRelease`, `ForcedRelease`, `StartRelease`, `FinishRelease`; the
  valuation's reads and writes; `NextDay`.  The account row is always the last
  row a transaction writes, so writing it and the commit are one step.

### StrategyVersions

Governance of one strategy type (`strategy/version_service.py`,
`strategy/single_operator_exception.py`, the activation script) and what uses
it: backtest jobs and the strategy pool.

- State: versions with their approvals, the head's active version, whether the
  strategy is switched on, activation events and their validity, the catalogue
  of the running release, authorizations of the single operator, row and
  advisory locks, requests, backtest jobs.
- Actions: `BeginSubmit`, `BeginApprove`, `BeginActivate`, `Acquire` (the next
  lock, in the order in which that request takes them), `AbortDeadlock`, the
  three commits; `EnqueueBacktest`, `VerifyBacktest`, `RefuseBacktest`,
  `FinishBacktest`; `Authorize`, `Release` (a new catalogue), `Lapse`.
- A request is deadlocked when following whom each one waits for leads back to
  it (`Deadlocked`); the chain may be as long as there are requests.

### Simulators

- `BacktestEngine` and `MarketRules`: one run over one stock: morning with
  corporate action and T+1, the orders due today, closing with new signals.  The
  rules of a day (board, status, limits, lots, fees) are operators with integer
  ticks.  `AccountingContract` is what the repository's independent reference
  ledgers recompute; the engine refines it.
- `ShadowRunner` and `SyntheticLedger`: the test-only paper account.  Its state
  is an append-only list of events, and every operation first folds them into
  the account (`Account`).
- `FreeObservation`: the documents a developer's scripts write: batches,
  candidate documents, ledgers, reviews.  No script overwrites a file, and none
  knows which others were chosen.

### MarketData

- `QuoteFeed`: overlapping runs of the quote task, the batches they store, Redis
  and the backend's own cache with their times to live, the provider's answers,
  the published messages.  A run can die between any two of its steps.
- `QuotePush`: connections, subscriptions, pings, the broadcast over a snapshot
  of a channel's clients, and the heartbeat.
- `KlineStore`: the display path (which saves in a task of its own), the
  backfill, the certified importer, over one stock's rows and provenance.
- `CertifiedStore`: importers of a dataset run month by month, certification of
  whole batches, audits that break on a constraint, readiness reviews, and a
  backtest that passes the gate and loads its bars.

### ResearchEvidence

- `EvidenceStore`: collectors with three transactions each, the append-only
  review of a news item, the verdicts the API derives.  A listing has each
  document once.  A collector whose rows were committed without an answer marks
  its batch `write_failed` (`mistaken`).
- `SourceUsage`: observed or failed terms documents, reviews per scope, and the
  context derived from the newest of each.
- `ReportSnapshots`: snapshot runs that write content-addressed files outside of
  any transaction, parsers of a snapshot, reviews of page locations.  Who may
  still remove a file is derived (`Claims`: the runs that looked for it before it
  appeared and have not recorded it); `claimants` remembers them from the moment
  the file appears, `remover` who did it, and `unanswered` the runs whose row
  was committed without an answer.

## 4. The runs

Each run asks one question of one subsystem; its properties are conjunctions of
named parts, each with a comment in its module.

| Run | Instance | What it shows |
| --- | --- | --- |
| `jobs` | 1 job, 2 Celery workers, 1 HTTP executor, 1 retry, 2 messages, 1 fault | Row, attempts and code are consistent (`JobRowsAreSound`); one Celery execution at a time, and tokens fence: a superseded executor cannot write (`OneOwner`); `JobContract`; every job and every cancellation ends |
| `orders` | 2 requests, 2 approvals, 2 humans and a service, 1 key, a live, a simulated and an operation payload | Orders, bookings and operations happen under one approval each, of another human, for that request, once per intent window; a settled row says what the broker did; `ApprovalContract` |
| `sync` | one sale of 2 shares of which 1 is held, its submission, repeated polls, a callback, 1 lost session | No fill counted twice or lost; a sale that is not covered is named; cash and position agree with the row (`BooksFollowTheBroker`); `FillContract`; polling alone brings the row to the broker's final state (`RowsCatchUp`) |
| `sync_live` | a purchase and a sale in one stock, polls, a cancel, a copy of the positions | A position disagrees with the rows only where a session wrote it from an older read or a copy came before a booking; no session waits for ever |
| `gates` | 2 activations, 2 recoveries, 1 order; 2 orders, 3 stocks in 2 sectors, 2 prices, 2 days | No order passes a fuse that stands, a record is lifted once, a key without a record has a cause (`FuseIsSound`); no purchase alone exceeds a limit, each of which is the only one to bind somewhere; a drawdown on record stops orders |
| `trials` | 1 backtest job, 3 execute requests, 2 retries, 2 lost executions; 2 simulated orders in one stock, 2 prices, 2 days | A success can be read, a cancellation wins, a job ends unless its execution died; cash agrees with the orders whatever fails or races, orders that do not overlap leave the right position, a sale on the day of the purchase has a release or an overlap as its cause; the recorded total settles |
| `strategy` | 2 requests by 2 admins, 2 catalogues, 3 versions, 1 backtest | The head is the newest approved version; nobody approves a version of their own but under a logged exception; fields left out keep the approved value; only an approval can close a circle of locks; no step acts on an ungoverned version |
| `simulators` | 4 trading days around a weekend and a change of rules, 3 listings, dividends and bonus shares; 5 synthetic requests; 2 past and 2 fetched dates | The three accounts add up, entitlements settle once, no reference or verdict uses later data, the engine makes only the moves of `AccountingContract` |
| `data` | 2 stocks, 2 runs, 2 batches; 2 clients; 2 days of bars, 3 batches; 2 importers, 2 months, 2 starts, 2 reviews | What is cached, published or pushed is on record; ended connections leave nothing; served quotes are fresh; a certified row is intact; certified batches are whole; a run sees every open day; a readiness outlives only audits that broke |
| `evidence` | 2 collectors, 2 terms documents in 2 texts, 3 snapshot and 2 parse runs, up to 3 reviews of a kind | A batch says what the rows show; a repeated decision counts once; a rejected use is shown as rejected until a newer text is; a snapshot that is shown has its file but for two known losses; a reviewed location is current |
| `fuse_lost` | 2 activations, 1 recovery, 1 order | Violation, see section 7 |
| `gates_loss` | 2 orders, 3 stocks, 2 days | Violation, see section 7 |

Why the bounds are enough to be of use.  Two executors of a kind are what a
race needs, and a third party (HTTP executor, second recovery, poll beside
callback) is there where the code treats it differently.  One fault at a time
reaches every handler's state, as the fault may come at any step; two retries
or one distinguish first, middle and last attempt.  Two approvals let a request
retry with another one; one key is enough, since keys only meet when they are
equal.  A sale of two shares has a partial fill; two orders in one stock share
the position, orders in different stocks share only the account row.  Three
versions let a draft be overtaken while another is active.  The trading days
hold a weekend, a record date, an ex date, a payment on a holiday and the day on
which the rule for stocks under special treatment changes.  Months of three days
and of one have a first, an inner and a last day and a month that is only one
row.  Times to live are shrunk but keep their order.  Sets of size one stand
where the code never compares two members.  Named bounds: `MaxRetries`,
`MaxMessages`, `MaxFaults` (jobs), `MaxLost` (order sync, backtests), `MaxDay`,
`MaxVersions`, `MaxEvents`, `MaxFiles`, `MaxDocuments`, `MaxLedgers`,
`MaxBatches`, `MaxFeed`, `MaxKlineBatches`, `MaxSaves`, `MaxStarts`,
`MaxReviews`, `MaxNewsReviews`, `MaxTerms`, `MaxUsageReviews`,
`MaxLocationReviews`.

`evidence` has a constraint (`OnePartAtATime`): its three parts share no
variable that they write, so each is explored while the others rest, and the
snapshots beside the least of evidence and terms that they read: one report, one
document that was read, reviews that leave its use open.  Three snapshot runs
race while no parser works, two beside the parsers.  `data` has one as well
(`OneReviewOfARace`): while both importers work there is one review at most and
no backtest, which come when one of them works or none, and no message waits
behind the broadcast under way.  Symmetry is
used only where no temporal property but safety is checked.
`CHECK_DEADLOCK FALSE` is set where all requests, sessions or days of the
instance end; jobs and governance do not stop.

## 5. Fairness

- `jobs`: Beat runs the recovery every 30 s; Celery delivers what it holds and
  kills a task at its limit; time passes.  Nothing is assumed of an execution
  through HTTP, nor that messages survive or sends succeed: the faults are
  bounded, not excluded.
- `sync`, `sync_live`: weak fairness of a session's own steps and strong
  fairness of the steps that wait for a row lock (PostgreSQL hands locks on in
  order, and ends a circle of waits).  The catch-up also needs a poll every 15 s
  (`celery_app.py`) and a broker that does not give outdated answers for ever.
  Nobody need submit, poll, cancel or copy, and no broker need fill.
- `trials`: executions of a backtest go on, back-off times pass, and an outside
  service principal keeps calling `POST /backtest/jobs/{id}/execute`.  Nothing in
  the repository does; without it a queued backtest stays queued.  Of the
  simulation, a transaction that has begun goes on and the valuation is repeated
  every 30 s.

The other runs check safety only: their components wait for people or for a
provider, and the code promises nothing about when.

## 6. Proofs

The theorems hold for every value of the constants under the assumptions the
modules name (`...Assumption`), which the runs evaluate.  They say no more than
the code does: quantities, prices, fees and dates are natural numbers in their
smallest units, a limit that is not set is none, an initial amount of cash is
positive where the code refuses another, a fee does not exceed what it is
charged for, requests and stocks are finite sets, and markers such as `None`
are no values.  Every invariant that a passing run checks is proved, and
every safety property of steps.

- `AsyncJobsProofs`.  The inductive invariant is the type invariant, that the
  attempts track the job (their number is the retry count plus the running one;
  only the newest is open), that a result exists exactly for a succeeded job,
  and that the code of an ended job explains its end.  Attempts are needed for
  the rest: that retries stay within the bound follows from the row alone, that
  a job which ended never changes follows from every transition being guarded by
  its status.  A lemma on what one step does to one job (`Move`) carries both the
  action property and the refinement of `JobContract`.  `OneOwnerAlways` has two
  parts of its own.  That tokens fence is inductive beside the types: a claim
  draws a new token, and otherwise an executor goes on with what it has
  (`GoesOn`, `HasClaimed`).  That no two Celery workers execute one job needs
  `CeleryOwns`: such a worker holds the lease of its job, which has not run out,
  so a claim by another one is not enabled; it is kept because whatever changes
  the lease is either the holder's own step or needs the lease to have run out
  (`LeaseKept`).
- `OrderExecutionProofs`.  The invariant relates the handlers to the rows: what
  a handler has passed is on record (`TracesInv`), an approval's two signatures
  are of different people (`SignedInv`), at most one handler is inside the lock
  of a slot (`LockInv`), what was performed was paid for with an approval
  consumed for that request (`PaidInv`), and the broker has been called only
  after a committed outbox row (`CallInv`).  Single use, authorization,
  exclusiveness of intent keys, truthfulness of the rows and the refinement of
  `ApprovalContract` follow.
- `OrderGatesProofs`, the fuse.  Failing closed needs that a record standing when an order came
  in is active until a recovery commits, and that what the order saw of the
  table is no older than its entry (`StandingInv`); that a record is lifted once
  needs that at most one recovery holds its row (`LiftsExclusive`).  The cause
  of a key without a record (`KeyExplained`) is inductive only together with
  both.
- `OrderGatesProofs`, the rules.  A check reads, decides and is booked at
  different times.  The invariant says what remains of it: unless the order was
  overtaken by another one, what it has read of cash and price still stands
  (`ReadingsHold`), and the rules it has passed would pass it again
  (`VerdictsHold`).  So an order that was not overtaken keeps the limits when it
  is booked.  The drawdown compares with the highest total of earlier days; what
  the account showed when a day ended is in a row behind the last one, and only
  the last one is rewritten (`ClosingsKept`).
- `MarketDataProofs`, the quotes.  A run of the quote task owns the batch it writes: no two
  runs hold one batch, the batch is running until its run closes it, and what a
  run still has to publish are rows of its closed batch (`OneWriter`).  Hence
  nobody touches a closed batch, and what may be shown of a stock still may after
  every step (`Keeps`), which carries caches, messages and pushes along
  (`CachesShown`, `FeedShown`, `CastFits`, `GotFits`).  That nothing is left
  behind is inductive beside the types.  Freshness needs more than a bound on
  ages: age and remaining life add up to what a value was given (`Fresh`), so a
  refill of L1 adds at most one life, whose base cannot have been refilled.
- `MarketDataProofs`, the bars.  Two stores, one invariant.  In `market.klines` a value and
  its provenance are written together, a certificate names a batch that closed
  as certified, and a row that carries one has every column of that batch
  (`CertificatesBacked`); the importer's open transaction holds a validated batch
  (`ImportOpen`).  In the certified store an importer holds rows of its own
  month, and when it is past its checks they fit the calendar
  (`ImportersHold`); it inserts all of them where nothing is stored, or none.  No
  step takes a bar away (`Grows`), so what a review found stored stays stored
  (`ReviewsTrue`) and what a session loaded is complete from its admission on
  (`SessionComplete`).  That a ready review outlives an audit
  needs the order of the two on the clock (`AuditsOrdered`).
- `GovernanceProofs`, the versions.  A request names whom and what it may (`Entitled`)
  and holds the first rows of its order of locks and no others (`LocksInOrder`),
  so a commit has the head and the version it writes to itself.  Beside that the
  stored state is inductive, because only the newest version ever changes.  That
  deadlocks need an approval rests on a rank of the rows: whoever waits without
  being an approval holds rows of a lower rank than the one it waits for, so
  round a circle the rank would grow for ever (`RankGrows`, `CycleNeedsApproval`);
  a circle may be entered anywhere (`CycleTurns`).
- `GovernanceProofs`, the evidence.  One invariant per part.  A row on record is of an
  item that its batch fetched, a batch is `running` while its collector is between
  two transactions, and what a collector has written stays on record
  (`CollectorInv`, `RowInv`).  A key has one row in each table of reviews
  (`RetryAddsNothing`, one lemma for both).  Reviews of terms refer to rows there
  are, and the newest of the newest is what the audit takes (`NewestIsLast`).  A
  file that is there is claimed only by its claimants, and one that is gone went
  by the hand of a claimant, which is the run that recorded it only when it never
  got the answer to its commit (`FileInv`, `Recorded`).  The
  attempt to prove this with the claimants of an earlier version, the runs that
  stood right before their write, failed on a run that had already written: three
  runs show it, two do not, and the model and its run were corrected.
- `OrderSyncProofs`.  What a session has read, decided and written but not
  committed is part of the invariant, so that its commit is one small step.
  Nothing it is about to write is ahead of the broker (`Behind`, `Facts`); rows
  it has written are locked, so the committed row has not moved since its
  compare-and-set (`Exclusive`, `Facts`); the cash it has moved is that of the
  fills it has booked (`CashOfSession`); and a position it has written is what
  its view of the fills makes of the opening position (`Seen`,
  `PositionOfSession`), from which others differ only in orders of which it has
  written none.  Of a stock where that fails, one of the histories says why.  A
  commit changes the view of all other sessions at once (`CommitOthers`).  Sales
  find their shares because a position never falls below the opening position
  minus all fills sold, while nothing has been copied.  The refinement follows:
  only commits touch rows and cash (`OnlyCommits`), and each books as the
  contract allows (`CommitBooks`).  Sums over the orders are folds; the lemmas on
  them (`SumsExist`, `SumTake`, `SumChange`, `SumAdds`) argue with a smallest
  set that would be a counterexample, which needs no operator as a parameter.
- `StrategyTrialsProofs`, the jobs.  Backtest jobs hold no lease, so the invariant ties an
  execution to its job through the status: whoever is at work has the newest
  attempt of a job that is live or was cancelled under it, and has it alone
  (`ExecutionsOwn`); the number of attempts is the retry count, plus one while
  the job is live (`AttemptsCounted`).  A claim needs `queued` or `retry_wait`,
  so it meets nobody, and the attempt it opens has the number the execution
  writes under.  That a success can be read needs that what an execution reports
  has happened (`ReportsHold`), and that nobody else writes those rows.  That a
  cancellation wins, and that an ended job stays, is about single steps: each
  writes the row of one job, which has not ended.

- `StrategyTrialsProofs`, the ledger.  Cash is the opening cash minus what filled
  orders cost plus what they brought, whatever overlaps, because the row of the
  account is updated in place (`CashMatchesOrders`).  Positions are read and
  written back: what an order that was not overtaken has seen of its position is
  still there, and what it has written is the position and its own shares
  (`Undisturbed`, with `RowsLocked` for the valuation, which writes the same
  rows).  Hence in a stock whose orders did not overlap the position is the sum of
  its fills (`SerialOrdersAddUp`).  That a purchase is not sold on its day unless
  a release or an overlap is the cause needs `PurchasesLocked`: until a release
  unlocks it, no more can be sold than was there the day before.
- `SimulatorsProofs`, the engine.  Beside types and balance the invariant ties
  what of the entitlement has been taken, credited and paid to the dates that
  have passed (`EntitlementServed`): the record date's close takes it, the
  mornings of the credit and of the payment date serve it if they are trading
  days, and nothing else does.  That an order waits for the next trading day, and
  no order is overdue, makes it execute once.  Every step is a step of
  `AccountingContract` or leaves the account alone (`StepIsAllowed`).
- `SimulatorsProofs`, references and reviews.  Of the scenarios only the ordinary
  batch passes the checks, and its reference is the price of the last bar that
  is visible at the cutoff (`ReferencesInv`).  A document's batches were there
  when it was made (`FromFiles`), so a row fetched later is none of them.
- `SimulatorsProofs`, folds.  The library's folds choose a recursive function on
  the subsets of what is folded.  That there is exactly one, and what it gives
  when the element taken last is left out, is shown once for the four folds the
  module needs (`FoldsExist`, `FoldsAgree`, `FoldTake`), as data (`kind`) instead
  of as an operator parameter, by a smallest set that would be a
  counterexample; appending to a sequence adds one step (`FoldAppend`).
- `SimulatorsProofs`, the paper account.  The account is not a variable, it is
  what its events rebuild.  `Good` says that its totals are the sums over its
  orders and that each order holds what its status entitles it to; each operation
  appends events after which it is `Good` again, or, after a second release of one
  purchase, no longer sound with that release as the cause (`PaperInv`,
  `ReleasedOnceOrBroken`).  A fill keeps its limit because what was frozen bounds
  what it costs (`FilledTo`).
- `SimulatorsProofs`, the virtual account.  `Coherent` relates events and account:
  cash is the sums of what was opened and closed, dates do not go back, and per
  stock what is held is what was opened last and not closed since.  Every event a
  candidate yields fits the account it is booked on (`OutcomeIs`), and booking
  keeps both together (`CoherentAppend`).  For a repeated document the invariant
  says of each of its candidates that it is `Absorbed`: considered again it would
  change nothing, unless its purchase was skipped for lack of cash.  Later
  candidates do not disturb this, since they are of other stocks
  (`StaysAbsorbed`).

The lemmas on sums stand in four modules, which are about different components
and cannot extend each other.

Only model-checked: liveness (`EveryJobEnds`, `RowsCatchUp`, `EverySessionEnds`,
`EndsUnlessOrphaned`, `AssetsSettle`), which needs fairness and ENABLED.  The two
claims of section 7 that a run refutes have counterexamples, not proofs.  The
mean of the moving-average cross, the audit's listings and the other definitions
that compute a value rather than keep a state are proved about only as far as the
invariants use them.

## 7. Where the code does not keep what the repository says

Two claims have a run that TLC ends with a counterexample.

- `fuse_lost`: an activation that meets a recovery about to commit can answer
  that the fuse is active when neither record nor key is left.
- `gates_loss`: the limit on the loss of a day never blocks an order.  The rule
  compares `account_records.daily_pnl` (`risk/checker.py:309`), and nothing
  computes that column: it is inserted as 0 and copied from row to row.

Others are built into the models, whose properties name them as the only
exceptions:

- A live order that the broker took before the session was lost is not
  recovered: the outbox is written and never read again
  (`trade/order_manager.py:389`), although
  `docs/superpowers/specs/2026-07-16-legacy-api-clearance-and-new-api-entry-gate.md:333`
  asks for it.  `RowsTellTheTruth` says what the rows do tell.
- The event that is pushed once an order row is inserted can be handled before
  the inserting transaction commits, and is then dropped
  (`live_trader.py:204`).  The polls make up for it (`RowsCatchUp`).
- Two sessions that book fills of different orders in one stock can overwrite
  each other's position (`live_trader.py:336`; `overwritten`), and the copy of
  15:35 makes a fill that is booked later count twice (`live_trader.py:563`;
  `early`).  The next copy repairs both, except for a stock that is sold out at
  the broker, which the adapter leaves out.
- The release of the morning also frees purchases of the same day
  (`portfolio_sync.py:61`; `SameDaySaleHasACause`).
- Two orders checked at the same time can exceed a limit together
  (`risk/checker.py:168`; `PurchasesKeepLimits` is about each purchase alone).
- Two simultaneous activations insert two records, of which one recovery lifts
  one (`fuse.py:31`).
- A backtest whose execution dies stays running (`Orphaned`); a duplicated
  message can cancel a job under its executor, whose result is then refused
  (`jobs/service.py:288`).
- A run breaks off when a position was sold before its bonus shares come, and a
  dividend whose payment date is no trading day is never paid
  (`backtest/engine.py:176`, `:181`).
- An audit that finds something to review breaks on a CHECK constraint and is
  rolled back, so an older `ready` review stays (`ReadyOutlivesBrokenAudits`).
- Snapshot scripts accept any `review_required` review of a use, not only the
  current one (`financial_report_snapshot_store.py:112`, against
  `docs/superpowers/specs/2026-07-16-financial-report-snapshot-and-page-location.md:86`),
  and a run that fails to record its file can take the file of another run away
  (`SnapshotsKeepTheirFiles`).
- Every exception counts as a row that was not written.  When only the answer to
  the commit is lost, a snapshot run removes the file of the row it has just
  recorded (`financial_report_snapshot_store.py:206-211`; `unanswered`), and a
  collector calls a batch `write_failed` whose rows are there
  (`research_evidence_store.py:247-258`; `mistaken`).
- A fill reported without a price at submission is booked at price 0
  (`live_trader.py:191`; the runs have `Prices = {TRUE}`); the proceeds of a sale
  are not booked when the local position is already gone (`live_trader.py:397`;
  `gone`).  A simulated limit
  order that is not touched stays open until it is cancelled.

## 8. Not modelled

- Access control and sessions of users: handlers start where the caller is
  known.
- Signals, indicators, AI agents and their votes, the screener, retrieval: they
  compute or call out, decide nothing by themselves and keep no state that others
  rely on.
- Notification and quiet hours: one call and one clock comparison.
- Read-only endpoints, schemas and read-side services; the drift and coverage
  reports of shadow runs; backtest metrics and the offline validation tools (what
  they recompute is `AccountingContract`).
- Of the order path: fees by side and amount, average cost, realised profit and
  `frozen_qty` in the live and simulated books (a fee is one constant no larger
  than a sale's amount); tick, lot and limit tables at order entry (those of the
  backtest are in `MarketRules`); what the rules on ST, new and little traded
  stocks compute (`RiskGates` has the stocks they bar from purchases, `Barred`); a
  stock without a sector; the risk events a check writes; alert rules, which read
  and notify; the mock adapter of paper mode; how the QMT adapter maps the broker's
  codes to statuses (`xtquant_adapter.py:479`); automatic reconciliation, which
  reports only.  A poll takes the 200 oldest open rows (`order_sync.py:71`), so the
  catch-up holds as long as no more are open; the instance has fewer.  In `OrderExecution` the checks before an
  order are one refusal that may come for any reason; `OrderGates` has what they
  compute.
- Jobs of other kinds: pause and resume, blocked jobs, and the stage label
  (`mark_stage`), which is written without comparing the lease and decides
  nothing.
- Simulated orders and releases do not span midnight; one valuation runs at a
  time; one account row per mode.  A WebSocket client that stops reading blocks
  the broadcast for all (`ws/manager.py`); the model has no such client.
- Of the backtest's rules, days that a security status does not cover or that
  have no price limit or no valid previous close (`market_rules.py:116`, `:137`);
  of the free observation, the refusal of a trade date later than its fetch (the
  model evaluates such batches too).  The trading calendar changes only with a
  migration, so it is fixed while the certified store runs.
- Deployment, logging, metrics, migrations as such, and the frontend.
