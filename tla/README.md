# ObraSignal, industrial claims and Factory Cloud: TLA+ models and proofs

This directory holds the TLA+ specifications of the stateful parts of this
repository, TLC configurations that model-check them on small instances, and
TLAPS proofs of their main properties for every size. File names below are
relative to `src/`.

- [1. Inventory](#1-inventory): the parts of the system and what makes each correct
- [2. What is modelled](#2-what-is-modelled): modules, state, actions, abstractions
- [3. Runs](#3-runs): what TLC checks, with which bounds and fairness
- [4. Divergences](#4-divergences): where the code and what is said of it part
- [5. Proofs](#5-proofs)
- [6. Not modelled](#6-not-modelled)
- [7. Running it](#7-running-it)

## 1. Inventory

The repository holds three programs and a few small verticals. Everything durable
is SQLite; every transaction is short.

### 1.1 Factory Cloud (`factory_cloud/`)

A dispatcher of development tasks: several processes around one SQLite file.

| Part | State it keeps | Operations | What makes it correct |
|---|---|---|---|
| Control-plane host (`worker.py`) | `stop_event`, `_recovery_done`, heartbeat thread | `run_once`, `run_forever`, `stop`, signal handlers | only the lease owner dispatches; recovery before dispatch |
| Orchestrator (`orchestrator.py`) | none between cycles | `recover_interrupted_executions`, `choose_next`, `execute_one`, `run_cycle` | batons advance in order, no task lost, results applied as recorded |
| State store (`state_store.py`) | `orchestrator_lease`, `app_state`, `execution_history` | lease acquire/renew/release, `start_execution`, `finish_execution`, `checkpoint` | one owner per live lease, a history row is closed once |
| Work queue (`work_queue.py`) | `worker_jobs` | `submit_or_get`, `claim`, `renew_claim`, `finish`, `consume` | one outstanding job per task, results delivered once, stale workers fenced |
| Application worker (`app_worker.py`) | one claimed job, heartbeat thread | `run_once`, `run_forever` | abandoned jobs are reclaimed, every job settles |
| Source verification (`verification.py`) | expected head, fixed at start | `execute` | refuses unless request and branch head match |
| Adapters and agents | a Git working copy | `execute` | no partial branch after a failure |
| Registry (`control_plane.py`, `portfolio_priority.py`, `capabilities.py`) | `apps.json` | validation, scoring | pure |
| Assurance (`assurance_*.py`, `recovery_*.py`) | findings, audit, calculations | write, verify, back up | used by 1.5 |

Several hosts may run; they compete for the lease `factory_cloud_dispatch`. The
owner chooses an application, opens a history row, and calls its adapter, which
puts a job in `worker_jobs` and returns WAIT until a worker of that application
has finished it. The baton of an application (`active`, `next`) is rewritten after
every dispatch. Hard: a host can be killed between any two transactions, or paused
past its lease and resume; a stop signal runs its handler in the middle of a cycle;
each host and worker has a heartbeat thread; retries are timed.

### 1.2 ObraSignal ingestion and alerts (`preload.py`, `bounded_sync.py`, `source_runtime.py`, `decision_refresh.py`, `notification_events.py`)

A web service that collects public tenders. A background loop and a manual endpoint
run the same sync: fetch from every source, *stage* records and watermarks in
memory, write tenders in committed chunks under a `sync_runs` row whose
`finished_at` is NULL until the end, commit all staged source state in one
transaction, give each account decisions about the new tenders, record alerts.
`runtime_leader.py` elects one gunicorn worker by `flock` for the loops
(`render.yaml:13`: two processes of four threads). Correct: a watermark never
passes a tender that was not stored, a tombstone is not undone, every qualified
tender is alerted. Hard: failures between chunks, overlapping syncs, the
in-memory stage.

### 1.3 Source connectors (`italy_anac_pvl.py`, `germany_doe.py`, ..., the `*_adapter.py` families)

Eighteen incremental connectors, each with a cursor of its own design: day or
minute windows, monthly archives, snapshots, change feeds, a resumable
multi-feed catch-up (Austria). Each call gets the stored cursor and returns rows, a
new cursor and, in most, observations "this tender is open/closed now" for what it
tracks. Correct: after a call that reaches the present, what the register
has open is shown and what it closed is not, whatever was published during an
outage; every outage is worked off. Hard: overlaps that are read twice, budgets per
call, notices dated back, reopened and corrected tenders, tombstones that are
emitted once.

### 1.4 Accounts, billing and privacy (`account_*.py`, `evaluation_policy.py`, `push_runtime.py`, ...)

Account rows, private tables, an evaluation period, a subscription kept by webhooks
and polls of RevenueCat, push digests, deletion in two transactions. Correct: a
deleted account keeps no private rows; paid access follows the provider. Hard:
requests, webhooks, background threads and deletions interleave between commits;
webhooks are lost, repeated and reordered.

### 1.5 Industrial claims (`vertical_apps/industrial_claims/`)

Cases with append-only revisions, review, action and recovery; originals in
write-once storage with a registry; facts, late supplements and sheets recorded
around a change; proof packs rebuilt from all of these, external attestation of
them, offline export; a billing projection fed by Stripe events. Correct: a case
the program wrote can always be opened, reviewed money is recovered once, what a
case rests on is in custody, nothing leaves without its intent. Hard: every check
is made in a connection of its own before the transaction that relies on it.

### 1.6 The rest

HTTP clients without state, scoring formulas, pages, the mobile client, scripts,
`aviation_recovery`, `contractcredit`, `factories/`: parsing, formulas and layout,
with no protocol of their own.

`PROJECT.json` lists the components with their status, and under `hazards` the
line at which each difficulty bites and the properties that cover it.

## 2. What is modelled

```
JobLedger  <--- implements --- WorkQueue ----\
                                              >--- FactoryCloud
OrderedBacklog <- implements - ControlPlane -/
                               (hosts may only crash)

PublicRegister <- extended by - 16 connector modules <- instances of - Connectors
AustriaCatchUp                (its cursor, what users see, one poll after another)
RadarSync                     (sync, decisions, alerts)
Accounts                      BillingState

IndustrialClaims <--- extends and implements --- ClaimProofs
```

| Module | Models | Kind |
|---|---|---|
| `WorkQueue`, `JobLedger` | `work_queue.py`, `app_worker.py`; what the queue promises | component, abstract specification |
| `ControlPlane`, `OrderedBacklog` | `worker.py`, `orchestrator.py`, `state_store.py`; what the batons promise | component, abstract specification |
| `Portfolio` | applications, tasks and hosts | constants of the two |
| `FactoryCloud` | `_runtime_adapters` of `worker.py`, `verification.py` | composition of the two |
| `PublicRegister` | notices, days, what a connector returns | shared by the connectors |
| `ItalyPVL`, `KoreaKONEPS`, `GermanyDOE`, `PolandBZP`, `TenderNed`, `EstoniaRHR`, `LithuaniaVPT`, `CanadaBuys`, `SIMAP`, `UKFindTender`, `EcuadorSERCOP`, `USSam`, `OCDSDayWindows`, `LatviaIUB`, `ColombiaSECOP`, `UruguayARCE` | one connector each (`OCDSDayWindows`: Paraguay and South Africa) | functions from cursor and register to result |
| `Connectors` | a connector polled against its register | composition with its environment |
| `AustriaCatchUp` | `austria_kerndaten_incremental.py` | component |
| `RadarSync` | section 1.2 | component |
| `Accounts` | section 1.4 | component |
| `BillingState` | `billing_state.py` | component |
| `IndustrialClaims` | cases, revisions, capture, outcomes | component |
| `ClaimProofs` | change capture, proof packs, attestation, export | component next to `IndustrialClaims` |
| `MC...` | small instances (of `AustriaCatchUp`: its `.cfg`) | for TLC |
| `...Proofs`, `ClaimProofTheorems` | theorems | for TLAPS |

Conventions in all of them:

**One SQLite transaction is one action.** Python code between two transactions
of one thread has no effect others can see. Threads of a process (heartbeats)
and signal handlers are actors of their own. What a call has read and not yet
written is kept with the call.

**Faults are actions with a budget.** Crashes, stops, stalls, outages, failed
writes and repeated calls are spent from constants that bound the instances. The
proofs hold for every value of them.

**Clocks are reduced to what the code derives from them**: a lease is live or
expired, a deadline ahead or passed, a window open or closed.

**Definitions named `Faulty...`** are not part of any specification. Each is the
definition that follows it with one plausible bug (listed in `PROJECT.json`
under `mutants`); the named property of the named run fails when it is put in.

### 2.1 WorkQueue

| Variable | Code |
|---|---|
| `jobs` | rows of `worker_jobs` in `created_at` order: application, task, `status`, `claimed_by`, whether `claim_expires_at` is ahead, `attempt`, whether `consumed_at` is set |
| `worker` | an `AppWorkerHost`: where `run_once` is, the job row it read, whether its heartbeat thread runs, `stop_event` |
| `dispatcher` | a call of `QueuedAppAdapter.execute` between its transactions |

`SubmitNew`/`SubmitExisting` are `submit_or_get` with what `execute` does on its
answer, `Consume`/`ConsumeRefused` are `consume`, `Claim`, `Renew`, `Finish`,
`FinishLost` the worker's transactions. `Renew` keeps running after `Finish`,
until `run_once` has set `heartbeat_stop`: a beat in that gap finds the job no
longer RUNNING and sets `stop_event` of a healthy worker.

A restarted process reuses its model value although the program draws a fresh
`worker_id`. That makes no difference: `HoldsClaim` is asked only of the job a
process itself has claimed, and claiming writes the owner anew.

Left out: the cross-application branch of `run_once` (`app_worker.py:53-57`),
which cannot be reached since `claim` selects by application and the request
was stored under the same application; results with an invalid status
(`work_queue.py:121`); the order of rows whose `created_at` was read before
`BEGIN IMMEDIATE` by two callers at once.

### 2.2 ControlPlane

| Variable | Code |
|---|---|
| `lease` | the `orchestrator_lease` row: owner, and whether `expires_at` is ahead |
| `app` | the `app_state` rows: `active`, `next`, the current execution, and the task whose retry time is ahead |
| `history` | `execution_history`, by execution id |
| `done` | history variable: tasks with a row closed DONE |
| `host` | a `WorkerHost` process: where it is in `run_once` and `execute_one`, `_recovery_done`, `stop_event`, heartbeat, `attempted`, the number of dispatches, the recovery snapshot, the dispatch in progress |

A cycle is `Acquire` -> (`Scan` -> `RecoverClose`/`RecoverRestore` ... ->
`RecoverDone`) -> `Choose` -> `StartExecution` -> `AdapterReturns` ->
`FinishExecution` -> `ReadBack` -> `Checkpoint` -> (`Reconsider`) -> `Choose`
... -> `JoinHeartbeat`. `ReadBack` and `Checkpoint` are two transactions
(`get_app`, `checkpoint`), and what was read in the first is kept in
`host[h].cur` until the second: the lost update this allows is part of the model.

`Stop` is SIGTERM while the main thread is outside a write transaction: the
lease is released at once. `StopRaises` and `StopRaisesInAdapter` are the signal
inside one: `release_lease` cannot get the lock the interrupted call holds, and
its exception unwinds that call (in an adapter it becomes an ERROR result, since
`execute_one` catches `Exception` there).

Abstractions:

- A lease whose owner is alive and beats expires only by a *stall* (the process
  paused, or locked out of the database beyond its TTL); an abandoned one
  expires by itself.
- `state` of `app_state` is EXECUTING exactly when a current execution is set, and
  no decision looks at its other values.
- A retry gate is the task it is closed for. Delays and attempt counters decide
  only when it opens, and `RetryDue` may open it at any time. A copy of a gate
  that a host has read and writes back after it opened counts as closed again.
- A result carries no `next_active` or `next_items`. Of the agents in the
  repository only `recovery_vertical_agent.py:96` sets one on DONE, and it names
  the next item of the baton; `process_adapter.py:192-193` would pass any.
- The order in which recovery handles its snapshot is left open. The registry is
  fixed: `recover_registry` changes no field of the model in rows that exist.
- A host that dies leaves its lease to `Gone`, an owner no process has: the
  program gives every process a fresh `owner_id`.
- Execution ids are unique in the program; in the model an id is reused when no
  row and no process refers to it any more.

### 2.3 FactoryCloud

Extends `ControlPlane` and `WorkQueue`, which share the constants of `Portfolio` and
no variable; names that both need begin with `Hosts` and `Queue`. A host in
its adapter either fails source verification (`Unverified`: a WAIT) or runs the
queue's transactions in a call of its own (`CallQueue`), and
takes the queue's answer as its result (`Answer`). `CrashHost` kills both sides of
a call at once. The verified head itself is not modelled.

### 2.4 The connectors and Connectors

A connector is a pure function of the cursor, the register and the day, so its
module defines `Cursor` (the dataclass or JSON it stores), the helpers that apply a
notice to what is tracked, and `Fetch(cursor, notices, today)`, which is
`fetch_incremental`. `Connectors` chooses one of seventeen at the start and
follows it: `Publish` adds a notice to the register, `NextDay` lets a unit of
time pass, `Poll` is one call with what the runtime wrapper does with its
result (the cursor stored, rows shown, observations applied), `FailedPoll` a call
that raises: the wrapper keeps the old cursor and stages nothing.

| In the model | In the code |
|---|---|
| `notices`, `today` | the register and its clock (external) |
| `cursor` | the stored watermark, decoded |
| `listed`, `shown` | until when a lot is shown; what users were ever shown |
| `first` | the first unit read, so that older tenders are not expected |
| `polled` | what the last step, if a poll, did |

Time is counted in the unit a connector reads by: a day in most, five minutes
in the United Kingdom, a month in Ecuador, Estonia and Uruguay. Publication times
are unique; pages, tokens and downloads of one call are its `Published` notices,
since every connector refuses a call whose pages do not add up. Parsing,
classification as public works and the text of a row are one kind of notice each.

`Raises` is where a connector's own limits, or an empty answer, make it raise:
Korea's state limit, Switzerland's hydrations, an empty file of the United States, an
empty feed of Uruguay. Failed downloads raise too, at any time, and change as little:
they are the steps in which nothing happens.

The connectors that keep state sort the notices of a call and apply them one by one
(`_apply_events`, `_process_events`, `_apply_period`). `Replay` of `PublicRegister` is
that loop: given what applies one notice and which of some notices comes last, it is
a function on sets of notices, defined by taking away the last.

Differences between the connectors that the properties know about, each a
definition in `Connectors`:

- *Which register a call sees* (`Views`). Germany and Latvia close a day before
  it is read, the United States' file is made when the day begins; Canada's Open
  file too, and its New file adds what was tendered since.
- *What each connector answers for* (`Remains`). Those with a lifecycle: a lot
  that stays shown is open. The United Kingdom looks at a process again only when
  something is published about it. Colombia and Paraguay read open tenders
  only. The others never take a row back before its deadline.
- *What a first row hides* (`Superseded`). In South Africa and Latvia the first
  row of a call wins (`dedupe_records`), so a correction read together with its
  tender is lost.
- *What is never read* (`Gap`): section 4, Ecuador.
- *What is forgotten* (`Forgotten`): section 4, Germany.

### 2.5 AustriaCatchUp

| Variable | Code |
|---|---|
| `catalog`, `feeds`, `clock` | the OGD catalogue, the KDQ feeds, time (external) |
| `cursor` | the cursor: `observed_through`, `kdq_observed`, `tracked`, and the open `catchup` with its place in each feed and its pending states |
| `listed` | the lots shown as open |
| `polls` | the parity of the polls, for fairness only |

A `Poll` is one call: it opens a cycle when none is open (freezing the feeds
and `through`), reads items feed by feed within the budget, keeps the place
reached when a feed fails, and reconciles when every feed is done. The loop over
the feeds carries only the budget from one to the next: `left[f]` is what feed `f`
leaves of it, and what is read of each feed is the set of its first items behind
the checkpoint (`FirstOf`). Left out: the re-anchoring of legacy aliases, the loose
polling of the base class.

### 2.6 RadarSync

| Variable | Code |
|---|---|
| `notices` | what each source has published (external) |
| `cursor`, `tenders`, `lifecycle`, `runs`, `decided`, `alerts` | `source_cursor`, `tenders`, `opportunity_lifecycle`, `sync_runs`, `opportunity_decision_inputs`, `opportunity_events` |
| `sync` | a caller of `sync_once_with_events`: its place, the rows and staged states it holds in memory |
| `faults` | history only: what went wrong so far, and the pairs of an account and a tender that the cap of a refresh ever left undecided (`deferred`) |

`Fetch` -> `StartRun` -> `WriteChunk` ... -> `Finish` -> `CommitStaged` ->
`Decide` -> `RecordAlerts` for each account. `Interrupt` and `LateInterrupt` are a
failure or a kill before and after the run is marked finished. A source may be
down (`Fetch` leaves it out) and a health write inside a fetch may fail
(`bounded_sync.py:52` swallows it with what had been read, not with what had been
staged). `"TED"` stages its watermark without records and reads its last day
again. Chunks are taken in any order. Left out: source health and latency rows, the funnel hook, the payload of
signals; scores are the constant `Fits`; profiles do not change.

### 2.7 Accounts

| Variable | Code |
|---|---|
| `account` | the `accounts` row: `status`, `plan`, expiry, age of the last sync, evaluation status |
| `rows` | which of the `DEPENDENT_TABLES` have rows of the account |
| `receipts` | ids in `billing_webhook_events` |
| `call` | a request or background thread between its transactions, with what it has read |
| `entitled`, `sent`, `now` | the provider's entitlement, the webhooks it created, hours (external) |
| `straddled` | history variable: was a private write under way at the last deletion |

Handlers that commit once are `StartWrite` and `Write`; saving a profile is four
transactions (`SaveProfile`, `RecordEvaluation`, `Bootstrap`, `EmitEvents`), a
deletion two (`MarkDeletion`, `Delete`), a digest two, a webhook two
(`ApplyWebhook`, `RecordReceipt`), a poll a request to the provider and a write.
`Admitted` is the request lock of `cors_app.py:144`. Entitlements are dated (an
undated one is in section 4). Left out: `enterprise_pilot` and extensions (no route
calls them), evaluation events nothing in production records, exports, profile
normalisation, signatures and tokens.

### 2.8 BillingState

`projection` is the account's row, `receipts` the events on file, `sent` and
`plan` the provider. `Deliver(e)` is `apply_verified_event`, one transaction,
for any event, at any time, again and again; the calls that raise change
nothing and the provider repeats them. The provider runs one subscription of the
account at a time and spaces subscriptions by a second or more. Left out: input
validation, fingerprints of events.

### 2.9 IndustrialClaims

| Variable | Code |
|---|---|
| `finding` | a finding by case and revision number: its row, revision, metadata, calculation, entitlement and creation audit, written in one transaction |
| `envelope`, `proof` | the registries of captured case and outcome originals |
| `outcome` | `recovery_outcomes` |
| `vault` | what the write-once provider holds |
| `call` | what the request of a client has checked and is about to write |

Every operation is `Begin...` (its checks, in connections of their own) and
`Commit...` (its transaction, which looks again only at what its guard names).
A capture is three: bytes stored (`PutOriginal`), envelope registered
(`RecordCapture`), and the case that refers to it. `Abort` ends a call anywhere.
A replayed create of a known fingerprint changes nothing, so `CreateCase` is for a
new one. Left out: hashing (a chain of hashes is the order of its rows), rendering,
tenants other than one, `case_store.py`'s file fallback, `record_fee`, which only
tests call.

### 2.10 ClaimProofs

| Variable | Code |
|---|---|
| `capture`, `born`, `day`, `clock` | the factual window of a finding, its facts, supplements and sheets; its creation; today and the instants read |
| `ledger`, `archive` | `causledger_proof_externalization_events`, `causledger_external_attestation_receipts` |
| `exports` | `causledger_offline_export_events` |
| `asked`, `released` | history variables: what went to a provider, what was handed to a user |
| `task` | an externalisation, export or entry between its transactions |
| `left` | what is left of the budget |

`Target(id)` is what a proof commits to: a hash is modelled as what it covers.
`PackBound` is the re-binding of `durable_proof.py`, `IntegrityValid` the
cross-verification of a completed operation, `ChronologyReadable` the reader of the
change chronology. An externalisation is `BeginExternalize` (target
confirmed), `StartOperation` (STARTED committed), `AskProviders`, `Rebuild`,
`ArchiveOperation`, `CompleteOperation` or `FailOperation`; `Kill` ends any call
anywhere. `AskProviders` and `Rebuild` refuse a target that has changed since it was
confirmed. The four receipts of one operation are one row. `OpenWindow` is charged to
the budget of entries only to bound the instance. Left out: certificates of
`proof_store`, public verification, reconciliation and reminders, which nothing
modelled reads; the providers.

## 3. Runs

| Run | Instance | Properties | What it shows |
|---|---|---|---|
| `work_queue` | 2 callers, 2 workers, 2 tasks, 2 rows, 1 stall, 1 crash, fair | `OneOutstandingJob`, `ClaimFence`, `SingleDelivery`, `ImplementsLedger`, `EveryJobSettles` | the table behaves as the ledger `JobLedger`, and jobs settle through crashes, stalls and self-stopping workers |
| `control_plane_faults` | 2 hosts, 2 tasks in two baton shapes, 1 stop, 1 stall, fair | `AppliedAsRecorded`, `NoTaskSkipped`, `BatonsDrain` | overlapping hosts overwrite checkpoints, lose no task and still drain the batons |
| `control_plane_crashes` | 2 applications, 2 hosts, 2 crashes, 1 refusal | `DispatchAuthority`, `ImplementsBacklog` | with crashes only, the lease is exclusive and batons never rewind |
| `factory_cloud_zombies` | 2 hosts, 1 stop, 1 worker, 2 rows, refusals and verification failures | `NoPhantomDone` | what the control plane believes done, a worker finished |
| `factory_cloud_crashes` | 2 hosts, 1 worker, a crash of each, a worker's stall, 3 rows, fair | `NoStrandedJob`, `NoDuplicateWithoutHostCrash`, `EveryTaskDone` | end to end: every task is done by a worker, and only a crash of a host repeats one |
| `connectors` | 17 connectors, 1 lot (Uruguay 2), 3 notices, 5 units, budget 3, overlap 1 | `TypeOK`, `Complete`, `Sound`, `Advances` | after every outage what is open is shown, what is shown is answered for, and the present is reached |
| `austria_catchup` | 2 feeds of 2 notices, with and without a deadline, 1 notice read a poll, 1 failure, 1 retired feed, fair | `TypeOK`, `NothingSkipped`, `SnapshotIsTrue`, `CyclesEnd` | the checkpoint never runs ahead, a snapshot is what the feeds said, cycles end |
| `radar_sync` | 2 callers, 2 sources, 2 tenders, 3 notices, 4 runs, chunks of 1, a refresh of 1 tender, two overlaps, one fault of each other kind, three in all | `TypeOK`, `CursorAfterRows`, `LifecycleAtWatermark`, `EveryMatchIsAlerted` | watermarks, tombstones and alerts survive interrupted and overlapping syncs |
| `accounts` | 2 calls at once, three budgets, fair | `Purged`, `AccessFollowsProvider` | deletion lasts; polls restore the plan whatever happened to the webhooks |
| `billing` | 2 subscriptions, 2 customers, 5 events, 1 late checkout | `AccessIsPaid`, `OrderIndependent`, `NoSilentRebind` | the projection does not depend on the order of delivery |
| `claims` | 2 requests at once, 2 operations, 1 case of 2 revisions, five budgets | `ProofTypeOK`, `DossiersOpen`, `RecoveredAsReviewed`, `Custody`, `DecisionsStand`, `EffectsUnderIntent`, `CompletedVerify`, `Contemporaneous`, `PacksBound` | cases open, decisions and money stand, proofs are made under their intent and verify |
| `claim_proof_packs` | the same | `PacksReconstruct`, violated | section 4, 1 |

The type invariants of `WorkQueue`, `ControlPlane`, `Accounts`, `BillingState` and
`IndustrialClaims` are proved only; those of `AustriaCatchUp`, `RadarSync`,
`ClaimProofs` and `Connectors` are proved and checked.

### 3.1 Bounds

**Factory Cloud.** Two hosts are what an overlap needs: one that dispatches
without the lease and one that holds it. Two tasks are needed to skip or rewind
one. One fault of each kind suffices to start an overlap, and a second crash (in
`control_plane_crashes`) hits the recovery itself. Two jobs are what the uniqueness
and order of rows need; three rows in `factory_cloud_crashes` leave room for a task
to be queued a second time.

**Connectors.** Lots do not influence each other in any connector but Uruguay,
whose feed holds a bounded number of events, so one lot shows what two would.
Three notices make tender, close, reopen (or republish) and every
order of them against polls. A budget of three units with an overlap of one, and five
units of time, make an outage that takes two calls. `Republishes` names the
registers that publish a procedure again (`Republishing`; Poland's is not among
them, divergence 14). `Retention` is 1, so that a closed lot is forgotten within the
instance. `Tolerance` is 1: see section 4. The limits of Korea and Switzerland are
beyond the instance; the calls that raise in it are those of the United States and
Uruguay. What the theorems say does not depend on any of these but `Tolerance` and
`Republishing`.

**Claims.** Two revisions are a predecessor and a current one; two requests overlap.
The five budgets split what may happen at the same time: requests about a case
without limit; three requests next to one proof; two proofs that interleave in one
archive; entries around the end of the window, with and without a proof. A window is
one day.

**Accounts.** Three budgets: two billing events and two hours with one fault; two
private writes or deletions with one event; three without.

**RadarSync.** One fault of each kind and two overlaps, any three of them together
(`MaxFaults`); chunks of one make a failure between chunks; four runs are one
interrupted, one overlapping and two that finish. Publishers stop when two runs have
started (`PublishUntil`), so that what was published is also seen to the end. An
account may be given one decision a refresh (`RefreshLimit`), so that two new tenders
in one sync meet the cap. Every property of the run is proved too and does not
depend on these bounds.

Where a safety property is also a theorem (section 5), no bound matters. Symmetry is
used only in runs without liveness, over values no definition distinguishes.
Deadlock is looked for except where the bounds, or callers that may stop,
end a behaviour (each such configuration says so).

### 3.2 Fairness

- **Factory Cloud** (`HostsFairSpec`, `QueueFairSpec`, `FairSpec`). Hosts and workers
  take their next step and are restarted (`Restart=always` in `factory_cloud/runtime/systemd`), adapters answer, a lease or
  claim that nobody renews expires, retry times come. No fault, no signal, no
  heartbeat and no caller is ever obliged to act. `BatonsDrain` needs
  `max_dispatches_per_cycle`: without that cap, two overlapping cycles can rewind
  each other's batons for ever, since a cycle never looks at `stop_event`.
- **AustriaCatchUp**. The background loop polls for ever, hence weak fairness of a
  poll. Failures are bounded; a feed that never recovers blocks its cycle.
- **Accounts**. A call that is not killed goes on (WF of `Continue`); the
  customer's app asks for `billing/status` again and again and finds a caller idle
  infinitely often (SF of `StartPoll`); five minutes pass (WF of `Age`).
- **Connectors** have no fairness: with a clock that stops at `MaxDay`, "the
  present is reached" would be decided by the bound. `Advances` states what makes
  it true instead: a call that does not reach the present moves the cursor on.

### 3.3 What the properties exclude

Each exclusion but two is in the formula, and most are a divergence of section 4.

- `Complete`: tenders older than the first unit read; a gap (Ecuador); a correction
  lost behind a first row (South Africa, Latvia); a lot reopened after the connector
  has forgotten it (Germany, divergence 26). Two exclusions are not in a formula: the
  theorems about `Complete` and `Advances` except Uruguay with a wider `Tolerance`
  (`Reliable`, divergence 15), and Poland's register is not among those that publish a
  procedure again (`Republishing`, divergence 14).
- `CursorAfterRows`: a health write that fails inside a fetch. `LifecycleAtWatermark`:
  one sync that overlaps two others (divergence 13). `EveryMatchIsAlerted`:
  overlapping syncs, a failure after the run is marked finished, a source that is down
  meanwhile, and for an account the tenders that the cap of a refresh
  (`MAX_REFRESH_PER_ACCOUNT`) left undecided (`faults.deferred`, divergence 12).
- `OrderIndependent`: refunds, which name no subscription; late checkouts.
- `Purged`: a write that was under way when the deletion committed.
- `CyclesEnd`: retired feeds.
- `NoDuplicateWithoutHostCrash`, `NoStrandedJob`: as their names and comments say.
- `PacksBound`: the chronology of the pack (that is `PacksReconstruct`).

## 4. Divergences

One run states what a document says and ends in a counterexample.

1. `claim_proof_packs` (`PacksReconstruct`). Downloading a change sheet records a
   timestamp of subject `vindorum:change-sheet:...`
   (`vertical_apps/industrial_claims/change_sheet_trust.py:119`); the chronology
   reader of the proof pack accepts `causledger:...` only
   (`change_chronology_reader.py:109-111`) and raises. The rows are
   append-only: every later pack, attestation and export of the finding is refused.
   `factories/industrial-claims/PROOF_ARCHITECTURE.md:65`: "Proof packages must
   reconstruct from tenant-scoped persisted current case truth".

The others were met while modelling and have no run of their own; the definitions
named can be checked on the instances above.

**Industrial claims**

2. *An entry that overlaps another one ends the chain for ever.* `add_fact` reads the
   clock (`change_capture.py:264`) before `BEGIN IMMEDIATE` (269), and the chain is
   verified in the order of `recorded_at`: two facts that commit in the other order
   fail every later verification, and no further fact is accepted. The same in
   `change_supplement.py:148` and `proof_store.py:169`. In the model:
   `FactsReadable` as an invariant fails.
3. *The proof target is not stable.* `proof_externalization.py:79` and
   `PROOF_ARCHITECTURE.md:25` call it so, but the core package has the notice as of
   `date.today()` (`read_model.py:191`): on the next day archived receipts belong to
   another target and leave the pack that is read. The same when the window closes,
   a sheet is downloaded or a fact is added. A receipt stays verifiable against its own
   operation (`CompletedVerify`).
4. *A superseded finding can be advanced.* `revision_store.py:32`: "cannot be advanced
   once superseded". `service.action` checks that before its transaction, so an
   action that overlaps an amendment succeeds; with a third call a superseded finding and its
   successor are both recovered. `SupersededNotAdvanced` of `IndustrialClaims`
   states the sentence and is run by nothing.
5. *A payment older than its checkout event is dropped when it comes later*
   (`billing_state.py:247-257`): the account stays
   PENDING although the subscription is paid. The test
   `tests/test_vindorum_billing_identity.py:88-102` knows the other order.
   `OrderIndependent` without `faults.checkouts = 0` fails.

**Accounts**

6. *An evaluation never starts and never ends.* `evaluate_and_record`
   (`opportunity_match_pipeline.py:248`) has no caller in production, so
   `market_data_available` and `first_shortlist_generated` are never recorded:
   `TRIAL_POLICY_V01.md:15-19` and `BILLING_SETUP.md:140` describe an
   activation that cannot happen.
7. *A stale evaluation write overwrites a payment*: `record_evaluation_event`
   (`evaluation_policy.py:116-150`) reads the status before it writes, and can
   put PROFILE_READY over PAID.
8. *A webhook after a deletion* writes plan, expiry, store and product to the tombstone
   (`tests/test_account_privacy_customer.py:213` expects `expired`).
9. *A request admitted before a deletion writes after it*, and a repeated deletion
   request returns early (`account_privacy.py:274`) and leaves the row.
10. *An undated entitlement after an expired one* keeps the old expiry date
    (`COALESCE`); and a provider that no longer knows the customer leaves a local
    `pro` until its expiry.
11. *Digests*: sent (`push_runtime.py:369`) before the row that remembers it is
    committed; partly accepted tokens are not retried; a device registered again between read and
    send may be dropped.

**ObraSignal**

12. *Tenders above the cap of an account are not seen again.*
    `decision_refresh.py:226-227`: "The next poll sees them again"; the next poll
    looks at its own `last_seen` only (175), and the alert window of
    `notification_events.py:105-106` has passed. `EveryMatchIsAlerted` without its
    exception of `faults.deferred` fails.
13. *A sync that overlaps two others reopens a closed tender.* One reads a tender as open; a
    second reads its tombstone and commits; a third, fetching after that watermark, reads
    nothing of it; the first commits (open again, watermark back), then the third
    (watermark past the tombstone). Nothing reads the tombstone again. Both writes are
    unconditional (`source_runtime.py:91-94`, `opportunity_lifecycle.py:65-76`);
    `source_runtime.py:3-5` is about the order of rows and watermark only.
    `LifecycleAtWatermark` without its condition fails; with two syncs the next one repairs it.
14. *Poland*: a procedure published again inside the overlap loses the tombstone of
    its result (`poland_bzp.py:424-428` against 13-15).
15. *Uruguay*: the cursor counts as covered when the oldest event of the feed is no more than a
    tolerance newer (`uruguay_arce.py:337-339`, "all later events remain present"): events that left
    the feed inside the tolerance are skipped. `Complete` fails with `Tolerance = 2`.
16. *Ecuador*: months older than the overlap are never listed again, so an outage
    longer than that loses what was published in it; a process whose category
    changes is never withdrawn.
17. *South Africa and Latvia*: of the rows of a call the first wins
    (`procurement_quality.py:50-61`), so an older version may stay stored.
18. *United Kingdom and United States*: a process stays open in the lifecycle after its deadline
    when nothing new is published; sources without a lifecycle keep a cancelled
    tender until its deadline.
19. *Austria*: a feed that leaves the catalogue inside a cycle, or one notice that cannot be parsed,
    keeps the cycle from ending (`austria_kerndaten_incremental.py:276-279` against 14-15).
20. Connectors whose work limit is exceeded raise on every later call
    (`switzerland_simap.py:581`, for one): nothing makes the next call smaller. In the
    model `FailedPoll` may be the only call from then on, and no property promises more.

**Factory Cloud**

21. `stop()` releases the lease while the cycle goes on (`worker.py:46-48`), so the next
    host recovers an execution that is alive; `worker.py:25-26` says deferring recovery prevents that.
22. Recovery is done once per process (`worker.py:64`): a host that takes over a second
    time does not recover what the dead owner left; `factory_cloud/README.md:7`
    describes acquiring and recovering as one sequence.
23. A kill between `consume()` (`work_queue.py:171`) and the checkpoint loses the result and the
    task is dispatched again; `runtime/README.md:57` expects "without duplicate
    dispatch". `NoDuplicateDispatch` fails, `NoDuplicateWithoutHostCrash` shows that nothing else does it.
24. The systemd units pass the activation code `Ω`
    (`runtime/systemd/factory-cloud-control.service:13`,
    `factory-cloud-app@.service:15`), `ACTIVATION_CODE` is `"D"` (`control_plane.py:19`)
    and `main()` rejects anything else.
25. `expected_head` is fixed when the process starts (`worker.py:111`); the mutation agent,
    killed after creating its branch, finds it on the next attempt and stays blocked
    (`repository_mutation_agent.py:379`); the orchestrator's own command line
    dispatches without the lease (`orchestrator.py:351`).

**Germany**, found by its proof

26. *What closed is forgotten too early after an outage.* A closed lot is remembered for
    `closed_retention_days` so that a reopening finds its deadline
    (`germany_doe.py:467-488`). `_prune_recently_closed` counts these days back from the newest
    archive (`germany_doe.py:628`), and `fetch_incremental` calls it at line 856 also when
    its budget has ended earlier. With a lot closed before an outage and reopened
    within the retention, the first call after the outage forgets the lot, the second
    reads the reopening and ignores it, and the open lot is never shown. `Complete`
    without `~Forgotten(l)` fails with `Retention = 3` and `MaxDay = 8`; counting back
    from the last day read would keep it.

## 5. Proofs

All theorems hold for every value of the constants that satisfies the named
assumptions of the modules (`FactoryCloudAssumption`,
`WorkQueueAssumption`, `ControlPlaneAssumption`, `NullAssumption`;
`RegisterAssumption`, `ConnectorsAssumption`, `NoneAssumption`, `AccountsAssumption`,
`BillingAssumption`, `IndustrialClaimsAssumption`, `ClaimProofsAssumption`,
`RadarAssumption`, `AustriaAssumption`): any sets of hosts, workers, clients, cases,
lots, feeds or events, any number of faults. The assumptions say that markers (`None`, `Gone`, `NoTask`,
`Inline`) differ from real values and that bounds are numbers; `Role # {}` says that
a case has a kind of evidence, `Overlap <= Lookback` that the overlap of the
Austrian connector (48 hours) is within its first look back (60 days). Hypotheses
of single theorems are named with them below.

For the connectors they say besides that a call reads more than its overlap
(`Budget > 2 * Overlap`, `Width * Windows > Overlap`, as the defaults of the
connectors do), that what registers publish again is within `Republishing`, and that
Canada's rows have a closing time (those without raise).

**`FactoryCloudProofs`, the queue.** About `QueueSpec`, that is `WorkQueue`
alone. `QueueTypeCorrect`, `OneOutstandingJobHolds`,
`ClaimFenceHolds`, `SingleDeliveryHolds`: the inductive invariant is their
conjunction with `References` (job numbers that processes hold are rows) and
`ConsumedIsTerminal`. `ClaimFence` is inductive because a claim writes owner and
attempt together and a worker never holds two jobs; `SingleDelivery` needs
`ConsumedIsTerminal` for a verdict that can no longer change.
`ImplementsLedgerHolds`: the initial states map to the initial state of
`JobLedger`, and every step to a `Post`, a `Settle`, a `Take` or no step;
`OneOutstandingJob` is what lets `SubmitNew` be a `Post`, the terminal
status of consumed rows what keeps their verdict.

**`FactoryCloudProofs`, the control plane.** About `HostsSpec`, that is
`ControlPlane` alone. `NoTaskSkipped` is far from inductive: hosts hold
copies of a baton and snapshots of executions that may be arbitrarily old. The
strengthening `Kept` says of each task of the initial baton that it is done, or
*Listed* (in `next` and in the `next` of every copy read back and not yet
written), or *Sole* (the active task, and every current execution, dispatch in
progress and recovery snapshot of that application is of this very task). A
checkpoint of a finished task moves `Listed` tasks forward; a task that leaves the head of
the list becomes `Sole` or is the finished one, and `HostOK` (the history row
of a host about to checkpoint is closed with its own result, and DONE results
are in `done`) says it was done. `HostsTypeCorrect`, `AppliedAsRecordedHolds` and
`NoTaskSkippedHolds` follow, with hosts that overlap in any way.

The rest is about the time until the first stop signal or stalled lease
(`HostsUndisturbed`), while hosts crash as they like; the properties themselves say so.
`Exclusive`: whoever is in a cycle owns the lease, and the lease of a living owner is live, so
that nobody else takes it (`DispatchAuthorityHolds`). Then nobody else touches a
baton a host works on: its task is still the one the baton names, and what was read
back is still there (`ActiveTask`). With that every step of the control plane
is a `Record`, a `Drop` or no step of `OrderedBacklog`, also the checkpoint that
a crash has left undone and a recovery repeats (`ImplementsBacklogHolds`, the
refinement step by step). `HostsCrashesOnly` is both without a condition, for
`MaxStops = MaxStalls = 0`. `Fenced`, that the execution a host works on is
the open one, is for the composition.

**`FactoryCloudProofs`, the composition.** `ControlPlaneHolds` and `WorkQueueHolds` say that each
half behaves as its own module says when left alone: adapters give no answer
`ControlPlane` does not allow, and hosts make no call `WorkQueue` does not
allow, whatever they crash in the middle of. The link between them is `Called`: a call
of the queue happens inside the adapter, about the task that is being dispatched,
and it returned DONE only if a worker did that task. `NoPhantomDoneHolds` is part of it.
With the theorems of both halves at hand, `NoStrandedJobHolds` (until the first
stop or stall) needs that a host with an answer in hand has left no unconsumed
job of its task behind (`Taken`) and that the baton still names it
(`ActiveTask`). `NoDuplicateHolds` (while also no host is killed) needs
`Newest`, all jobs of a task but the last are consumed, and `Dropped`, a task whose answer
was consumed is off its baton or in some host's hand. Its hypothesis
`PlansDistinct` is that no initial baton names a task twice: the code does not forbid
it, and such a task is done twice as asked.

**`BillingStateProofs`.** `AccessIsPaid` alone is not inductive: an event that
revokes access may be put on file as ignored although it is newer than what the
projection shows, and an older payment could then bring the access back.
`Overtaken` says that such an event finds a terminal state of its own
subscription, which only another subscription's payment ends; `OneRuns` and
`Apart` (the events of one subscription lie wholly before or after those of
another) make that payment newer than everything said of the first. The invariant
is `TypeOK`, `SentInOrder`, `OneRuns`, `Apart`, `Bound`, `Overtaken`.
`NoSilentRebindHolds` is an action property from the same invariant.
`OrderIndependentHolds` adds `Order`: a refund is on the provider's books
(`Booked`); a payment is what the provider holds of its subscription unless
something later revoked it, and a paid subscription's newest event is a payment
(`Payments`); the projection shows an event on file, and any other one as new says
the same or has found its subscription cancelled (`Shown`). When all that was sent is on
file, the two sides meet.

**`AccountsProofs`.** `Purged` is strengthened to `Sealed`: a deleted account
with no straddling write has no rows, no evaluation a payment could mark, and no
call at a place from which it writes. `Delete` establishes it, since
`straddled` records exactly the calls at such places; whatever starts
afterwards and would write is refused on a locked account or does not list it as
active, and a webhook or a poll finds no evaluation to mark.

**`ClaimProofTheorems`, the cases.** A request checks in one transaction and writes in
another. `Grows` says what no step takes back: the claim and creator of a
finding, envelopes, originals, outcomes; so most of what a call has checked
(`Checked`) lasts, and what can change in between (state, currency) is looked at
again by the write. The invariant `IInv` adds `Chain` (revisions without
gaps, the last one current), `Reviewed` (an independent reviewer is recorded
from the decision on) and `Evidenced`. From it `DossiersOpenHolds`, `CustodyHolds`,
`RecoveredAsReviewedHolds`, and `DecisionsStandHolds` as an action property: a
second amendment from one revision is refused since the first has made it not
current, so `_put_finding` never writes over a reviewed row.

**`ClaimProofTheorems`, the proofs.** `CasesAreIndustrialClaims`: every step of
`ClaimProofs` is a step of `IndustrialClaims` or leaves its variables alone, so
everything above holds here. `PInv` adds to `IInv` the windows (`Windows`), the ledger and
archive (`Intents`), exports, and for each call in progress what it has achieved
so far (`Ready`); `Lasts`, the counterpart of `Grows`, keeps that true while others
act. `ContemporaneousHolds`, `EffectsUnderIntentHolds` and `PacksBoundHolds`
follow; the last one from the chains, the captured originals and the single
outcome of a finding, hence from the invariant of the case. `CompletedVerifyHolds`
follows every operation through its call (`Conduct`): before it is started it has no
event, while the call is under way exactly the one that opened it, and after it a
second one that closes it for good; what the call archived is the operation's
only row there, whichever other operations interleave. `ProofTypeCorrect` needs
besides `PInv` that a finding is dated exactly when it was created.

**`RadarSyncProofs`.** `CursorAfterRows` is not inductive: what a sync commits it has
fetched long before, while publishers went on and other syncs moved the watermark.
`Pending` says of every staged watermark that the open tenders behind it are in the
table or among the rows that sync still has to write, and that a sync has none left
when it commits. `WindowCovers` is the heart: what a fetch reads and what was
behind the watermark when it began are together everything up to the new one.
No step deletes a tender, so what is `Covered` stays so whatever the others do.

`LifecycleAtWatermarkHolds`: what a sync has staged is an excerpt of its source
(`Excerpts`) that begins no later than the watermark, nor than any excerpt that is still to
be written (`Joined`); so a commit leaves the table as new as the watermark it
writes (`UpToDate`), even when that moves the watermark back. `Joined` is where the
condition of the property comes from: with one sync begun during another an excerpt
cannot begin behind what the other will write, with two it can (divergence 13).

`EveryMatchIsAlertedHolds` follows a tender through the tables (`Chronicle`): first
seen after every finished run it is read again until written (`Underway`); the
run that is finished with it leaves it in the window, and decides and alerts it before
the next run is finished (`Reporting`); from then on it is settled (`Waiting`). It
holds for any cap: a refresh decides a tender of the window or defers it
(`DecideDefers`), and a tender that was not deferred is decided before the alerts are
recorded, however many others were. `Truthful` is the part that needs the lifecycle: the
table closes no tender its source has not closed.

**`AustriaCatchUpProofs`.** Two things are kept of a cycle under way (`CycleOK`): what
lies behind its place in a feed has been read as it is (`Passed` implies `Taken`), and
what is pending agrees with the notices of a look back before the time each feed
was last read to (`Current`), where a state that is missing agrees with a notice whose
deadline was not ahead. A poll reads the first items behind the place and moves the
place to the last of them (`ReadShape`, `ReachedShape`); what is published meanwhile is newer
than the horizon; time brings no deadline back ahead; no state is newer than its notice
(`Sourced`), so that merging lets the notice decide. Hence `NothingSkippedHolds`.
At the end of a cycle reconciliation forgets exactly what is not ahead any more, and
what is shown is what is tracked (`ListedIsTracked`), which is `SnapshotIsTrueHolds`:
an action property about exactly what a user sees.

**`ConnectorPolls`, `ConnectorsProofs`.** All four properties of `Connectors`, for the
seventeen connectors, any number of lots, notices and days, any limits, and any
outages. `Complete` and `Sound` are about the calls that reach the present; between two of
them a connector has only its cursor. `Inv` therefore says, besides them and `TypeOK`:

- what the register keeps (`Register`, `Orderly`, `ClosedLast`): the times of
  notices order them by day and then by publication, every lot has a tender, before
  anything that ends it, and in Poland nothing about a procedure follows its end but what ends it again;
- what the screen keeps (`Screen`, `Stated`): what is shown is in `shown`, and what a
  connector with a lifecycle shows it shows until told otherwise;
- what the cursor knows (`Kept`), one definition for each connector: `EnteredKept`
  (Italy and Korea, which keep the same state), `GermanyKept`, `PolandKept`,
  `NetherlandsKept`, `EstoniaKept`, `LithuaniaKept`, `CanadaKept`, ...: of each
  lot, that what is tracked is what its notices of the days read for good say (the overlap
  is read again by the next call), and that what is not tracked is not open by them.

For each connector `XPoll` proves that a call keeps this and leaves `Complete` and
`Sound` true, `XRest` that publications (dated back where they may be) and days that
pass keep it. The hard part is what a whole call does: `Replay` is a recursive
function over sets of notices, and it is shown to exist and to have any property its
steps keep (`ReplayExists`, `ReplayInduction`), by a least counterexample on the
cardinality of the sets rather than by induction. `AppliedAgrees`,
`BookedStep`, `FollowedStep`, `RootIs` and `DetailIs` are the steps: a stale notice
changes nothing and the newest decides, although what was known before may be newer
than the first notices of the overlap. Poland and Germany need besides that notices are
applied from the first on (`Prefix`), since what one does depends on those before it.

`CompleteHolds` and `AdvancesHolds` except Uruguay with a `Tolerance` above 1
(`Reliable`), for which the property is false (divergence 15); for the other sixteen
connectors, and for `TypeCorrect` and `SoundHolds`, no hypothesis is needed. `AdvancesHolds` is the action property that makes every outage
end, from what each call's window is (`DaysAdvance`, `WindowsAdvance`): it begins an
overlap behind the cursor and ends beyond it. In Germany's proof the case that did
not close was divergence 26.

**Only model-checked.** Everything with fairness (`EveryJobSettles`, `BatonsDrain`,
`EveryTaskDone`, `CyclesEnd`, `AccessFollowsProvider`) is out of the prover's reach.
Every other property of a passing run is a theorem.

## 6. Not modelled

The map covers a third of the implementation lines. What is left out:

- *Factory Cloud adapters and agents, registry, promotion.* An adapter's answer is any
  result; the mutation agent drives Git in one process, the registry and the
  scores are pure functions, promotion and backups are commands an operator runs
  one at a time.
- *Leader election* (`runtime_leader.py`). It decides which process runs the loop
  that is a caller in `RadarSync`; nothing in `RadarSync` relies on there being
  one. A follower caches that it is none for the life of its process.
- *Parsing, classification, scoring, pages* and the clients of sources without a
  cursor: no state between calls.
- *Chile* (`chilecompra`) is wired nowhere.
- *The texts of keys* (`canonical_key`): only that the first row of a call wins, in
  the two sources where it matters.
- *Heads of source verification*, results that name `next_active`: section 2.2.
- *Reminders, reconciliation, certificates and public verification* of industrial
  claims, which read what is modelled and write tables of their own.
- *The mobile client, scripts, `aviation_recovery`, `contractcredit`, `factories/`.*

## 7. Running it

```
tlc -workers 2 -config MCClaimProofs.cfg MCClaimProofs
tlapm ClaimProofTheorems.tla
```

Every run ends within four minutes on two cores. The longest proofs are those of
`ConnectorPolls` and `ConnectorsProofs` (about ten minutes each) and of
`FactoryCloudProofs` (eight); `RadarSyncProofs` and `ClaimProofTheorems` take three to
five.
