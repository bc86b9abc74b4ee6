# TLA+ models of Decoda RWA Guard

Decoda RWA Guard watches tokenized real-world assets, raises alerts, and lets a
team answer them with *response actions*: a freeze, a revoked allowance, a Safe
transaction. The backend is `services/api` (FastAPI on PostgreSQL, with Redis for
live alerts), with worker processes beside it that follow chains, walk history and
assess risk. What must not go wrong is that an action runs that the team, its policy
and its plan did not release, that an alert gets lost on its way, or that a worker's
cursor or job table claims more than was done.

Paths below are relative to the repository root; `app/` is `services/api/app/`.

## 1. The system

| Component | State | Operations | Hard behaviour | What makes it correct |
|---|---|---|---|---|
| **Response actions** `app/pilot.py` | `response_actions`, `response_action_approvals` | create, approve, reject, execute, rollback, simulate | every handler is one READ COMMITTED transaction: plain SELECT, then `UPDATE ... WHERE id`; the provider is called before the commit | nothing runs without quorum, roles and separation of duties; a standing reason to refuse always refuses; terminal states are final |
| **Execution gate** `app/domains/response_gate/` | none (pure decision over what it reads) | `build_gate_inputs`, `evaluate_gate` | its facts come from several statements, so from different moments | authorizes only on a verdict for this action, under the version in force, with quorum and roles met |
| **Policy enforcement** `app/domains/governance_policy/enforcement.py`, `engine.py` | `governance_policy_evaluations` | `evaluate_response_action` | check-then-insert without a lock or a unique constraint; facts that cannot be read; midnight | one decision per unchanged facts; the daily cap; a verdict that is current |
| **Governance policies** `app/domains/governance_policy/service.py` | `governance_policies`, `governance_policy_versions` | create, edit (optimistic versioning), disable | two editors of one version | a history without gaps and forks |
| **Alert delivery** `app/domains/alert_delivery.py`, loop in `app/main.py` | `alert_event_outbox`, Redis bus, consumer group, dead-letter stream, workspace streams | enqueue (trigger), publish batch, consume batch | one transaction over both batches, Redis outside of it; crashes, Redis errors, redelivery to a second consumer, deadlocks | at most one entry per event on the workspace stream; every accepted event is delivered or dead-lettered |
| **Asset risk worker** `app/domains/asset_risk/` | `asset_risk_jobs`, assessments, assets | enqueue, claim, assess, retry, cancel, on-demand, creation, reconcile | claim and assessment share a transaction; a failed statement takes the bookkeeping with it; look-then-insert from three places | one active job per asset, attempts that decide, outcomes that stay, every due asset assessed |
| **External watchlist** `app/domains/external_watchlist/` | targets, live cursors, backfill jobs with plans and cursors | trigger, claim, plan, chunk, complete, release, poll, remove | leases that are committed at once and outlived; writes by id alone; RPC outages; interval arithmetic | no block of the requested window and none of the live tail left unscanned |
| **QuickNode stream lanes** `app/quicknode_streams.py`, `run_quicknode_live_worker.py` | one cursor per lane, the advisory lock, telemetry rows | webhook (three lanes), tick, seed, snap, gap backfill, backfill step | cursors computed from earlier reads, commit points in the middle of a handler, redelivery, lock lost with the connection | a cursor stands for work done; gaps heal; the live lane reaches the tip; what it skipped is backfilled |
| Alert stream `app/domains/alert_stream/` | SSE subscribers | fan-out, replay from Last-Event-ID | reconnects, trimming | no gap after a reconnect, or an explicit one |
| Monitoring jobs `app/domains/monitoring_jobs` | leased jobs | claim, finish, dead-letter | nothing in the repository calls it yet | – |
| Monitoring runner, chain ingestion, event watcher | checkpoints, leases, cursors | poll, fail over, rewind | reorganisations, failover | no block skipped, no event twice |
| Organisations, access, entitlements | members, roles, plans | permission and plan checks | change at any time | enter the model of response actions as facts that may change |
| AI triage, forensics, onboarding, reliability agents | job rows | model calls, probes | external services | – |
| Evidence, retention, system health, web, side services | archives, schedules, read models | – | – | – |

Interactions: the **stream lanes**, the **watchlist** and the monitoring runner turn
chain data into telemetry and detections; a **detection** inserts an alert; a trigger
in the same transaction inserts an **outbox** row, which **alert delivery** carries to
the workspace stream. An incident gets **response actions**; proposing or planning one,
or an explicit call, makes **policy enforcement** record a verdict on it; approvers
decide; the **gate** reads verdict, current policy version, approvals and incident, and
**execution** contacts the Safe or governance provider, or marks the action. The
**asset risk worker** keeps an assessment per asset beside all this.

`PROJECT.json` lists every component with its status, and the places in the code
that are hard to test ("hazards").

## 2. Modules

| Module | Models | Kind |
|---|---|---|
| `ResponseAction` | one response action, its requests, the gate, and everything the handlers read | state machine |
| `PolicyEnforcement` | evaluation passes over several actions beside edits of the policy | state machine |
| `AlertChannel` | what alert delivery promises | abstract specification |
| `AlertDelivery` | outbox, bus, consumer group, dead letters, and the loops of the API processes | state machine, implements `AlertChannel` |
| `AssetRiskJobs` | the assessor's job queue: worker replicas, the endpoint, asset creation, reconciliation | state machine |
| `WatchlistRanges` | `merge_ranges` and `subtract_ranges` | operators |
| `WatchlistBackfill` | backfills and live tail of one watched target, worker replicas with leases | state machine, over `WatchlistRanges` |
| `StreamLanes` | the delivery, live and backfill lanes: webhooks and the live worker's replicas | state machine |
| `ResponseAction_proofs`, `PolicyEnforcement_proofs`, `AlertDelivery_proofs`, `AssetRiskJobs_proofs`, `StreamLanes_proofs`, `WatchlistRanges_proofs`, `WatchlistBackfill_proofs` | their theorems | proofs |
| `MC*` | instances for TLC, one `.cfg` per run | |

The execution gate is an operator of `ResponseAction` (`GateAuthorizes`), as it is a
pure function in the code. `PolicyEnforcement` has the policy half of it again
(`GatePolicyHolds`), over a table of verdicts in place of the single latest one.

### ResponseAction

A request is one HTTP call. It is *begun* by the statement that reads the row
(`BeginApprove`, `BeginReject`, `BeginExecute`, `BeginRollback`), which also decides
every check that needs nothing else, and then moves through the later statements of
the handler. Steps of different requests interleave. `req[r].snap` is the row as the
handler read it, `req[r].verdict` the verdict as the gate read it, before the
statements that read approvals, incident and policy version.

| Code | Actions |
|---|---|
| `approve_enforcement_action` | `BeginApprove`, `RecordApproval` (insert into `response_action_approvals`, count), `CommitApproval` |
| `reject_enforcement_action` | `BeginReject`, `CommitReject` |
| `execute_enforcement_action` | `BeginExecute`, `ReadVerdict`, `PassGate`, `ContactProvider` (Safe and freeze paths), `FinishExecute` |
| `rollback_enforcement_action` | `BeginRollback`, `CommitRollback` |
| `simulate_response_action`, `simulate_all` | `Simulate` |
| an exception, a lost connection, a crash | `Abort` |
| `evaluate_response_action_policy`, sibling evaluations, `apply_policy_update`, incident status, plan lock, member roles | `RecordEvaluation`, `RecordSiblingEvaluation`, `PublishPolicy`, `SetIncident`, `SetPlanLock`, `Demote` |

What is kept: the unique index of approvals makes a second insert of one approver wait
for the first transaction (`DecisionPending`); the counting of approvals sees committed
rows and one's own; each closing UPDATE lands on the row that is current then, because its
WHERE clause names only the id; `execution_metadata` (hence `rejected_at`) is written
back whole from the snapshot; a provider that was contacted stays contacted when the
transaction rolls back. What is abstracted: payloads, receipts, audit records and
timeline events; MFA and other refusals that depend on nothing modelled (any request
may end in `Abort`). A simulated action may be created in any status
(`pilot.py:21311-21313`), so `Init` lets it; every other one starts pending. The statuses
`planned` and `approved`, which the handlers would still accept, are in no row: creation
normalises both to `pending` (`pilot.py:20767-20777`), migration 0048 converted the rows of
older releases, and nothing else writes them.

`runs` and `stops` are history variables. `runs` collects every execution that took
effect (at the provider call where there is one, at the commit otherwise);
`stops[r]` is the set of reasons to refuse that have stood *without interruption* since
request `r` began, and is recomputed by `TrackStops` in every step.

### PolicyEnforcement

`BeginPass`, `ReadFacts`, `ReadPolicy`, `ReadScope`, `ReadRefs`, `LookUp`, `ReadTotal`,
`Record` are the statements of `evaluate_response_action` in their order: where no policy
matched, `policy_scope_governed` and `scope_policy_refs` each look at the policy again, later.
Reads that fail do what the code makes of them: a material fact or a policy that cannot be
read loses the pass, a supplementary fact leads to a fail-closed row, an unreadable list of
references names no policy, and `existing_evaluation` answers "none" as well when it could
not look (`enforcement.py:849-884`). `AbortPass` is the savepoint or the transaction rolling
back. `BeginEdit` and `ApplyEdit` are `apply_policy_update`: the read, and the UPDATE whose
WHERE clause carries the version read. `NextDay` is midnight UTC: the total of the day
starts again at zero, while rows keep their day. A digest is the action, the facts seen, the
version matched and the version the references of a fail-closed row name, with `Nothing` for
facts that could not be read and 0 for no policy, as `digest()` makes them part of the
fingerprint; the clock and the day's total stay out of it, which the code documents as
deliberate. The checks of one policy are reduced to the set of facts each version allows
(`Permits`) and the daily cap, which the engine computes from the total read before. History
variables tell whether facts changed under a row (`ReevaluationIsCurrent`), which passes had
ended when a pass began (`after`), and whether its look for an earlier decision failed
(`blind`). With `after`, `EachAllowFits` and `DecidedAgainOnlyBlind` speak about any two
passes of which one followed the other, whatever else was in flight.

### AlertDelivery

`tx[w]` holds the uncommitted writes of process `w` and, with them, its row locks:
`Claim` skips locked rows, `MarkDelivered` and `FailMessage` wait for them, and
`BreakDeadlock` is PostgreSQL ending one of two cycles that wait for each other. A
cycle is `Claim`, `Publish` per row, `Receive`, then for each message `Deliver`,
`MarkDelivered` (which commits the whole transaction so far), `Ack`; or, on an
exception, `FailMessage`, and once the attempts are spent `AppendDead`, `CommitDead`,
`AckBuried`, with a crash possible between any two; then `EndCycle`. Redis operations take effect at once and survive `Crash` and `Rollback`; an
append or a delivery that raised may have happened. `Orphaned` messages are those no
cycle has in hand; `ReceiveFromSlow` is the auto-claim of a message that a slow cycle
still has in hand.

`AlertChannel` has three variables (accepted, on the stream, given up) and three kinds of
step. `Abandon` takes a *set* of events, because one commit of a cycle makes the last
attempts of several rows final at once. `KeepsToChannel` is its step relation as an
action property of `AlertDelivery`, `ImplementsChannel` the whole specification,
liveness included.

### AssetRiskJobs

Each actor (`proc[p]`) is in one PostgreSQL transaction at a time. `mine` holds its
uncommitted inserts, `claim` the job row it has locked. The unique index of active jobs
is `Waits` (an insert waits for a transaction that has inserted, or locked, an active job
of the asset) and `Clash` (it then fails); a lost race aborts the whole enqueue
transaction of a cycle, because the look that follows runs in an aborted transaction.

| Code | Actions |
|---|---|
| `run_asset_risk_worker_once` | `BeginCycle`, `LookForActive`, `InsertDue`, `CommitDue`, `ClaimNextJob`, `CancelDeleted`, `FindAsset`, `AssessJob`, `AssessmentRaises`, `AssessmentAborts` |
| the Run-assessment endpoint | `Trigger`, `InsertTriggered`, `AssessInline`, `InlineRaises`, `InlineAborts` |
| `create_asset` | `BeginCreation`, then the same inline actions |
| the summary endpoint: the health judgement (`summary.py:602`), then `reconcile_stuck_jobs` | `JudgeWorkers`, `ReconcileStuckJobs` |
| time, users, crashes | `GoStale`, `DeleteAsset`, `TimePasses`, `Crash` |

The worker reads its asset when it has claimed the job (`FindAsset`, `CancelDeleted`) and
settles it later, whatever has become of the asset meanwhile. `judged` is a judgement that no
worker lives, on which a reconciliation is still to act, however stale it is by then.
`tries` is a history variable: for each job, how many of its assessments failed, how many
of these lost their attempt with their transaction, and whether a request ran it inline.

### WatchlistRanges and WatchlistBackfill

A claim commits its lease at once (`ClaimBackfill`, `ClaimTarget`), and the worker then
works from the row the claim returned (`wk[w].row`) and writes by id. `LeaseEnds` frees
the lease of a worker that is gone, `LeaseOverrun` that of one that is only slow: the
old worker goes on writing beside the new one. `PlanJob`, `ScanChunk`, `EndRange`,
`CompleteJob` are the transactions of `run_job`; `NetworkDown`, `BudgetSpent`,
`JobFails`, `Crash` its ways to stop; `PollChunk`, `EndPoll` those of `poll_target`.
`WatchlistRanges` has the range arithmetic that plans are made with. Its loops are recursive
functions of the number of ranges done (`Merging`, `Cutting`), so that they can be proved
about; `Cut` is one turn of the loop of `subtract_ranges`, whose `break`s leave what was
found so far as it is. `MCWatchlistBackfill` checks both operators against sets of blocks, for
every window and up to three ranges over five blocks, in its `RangesAssumption`; the run's
`PlansAreExact` checks how the model uses them. Monitoring stays enabled, a live start
block is always set, and filters are never empty: the branches for those end the
cycle without touching the state. `scanned`, `owed` and `plans` are history variables.

### StreamLanes

A session is one database connection: a tick of one replica of the live worker, which
holds the advisory lock, or a webhook of one of the three lanes. Blocks without a
transfer of a monitored wallet change nothing but cursors, so a walk visits the blocks
of `Transfers` only.

| Code | Actions |
|---|---|
| `process_quicknode_base_stream_webhook`, `_process_realtime_lane_batch` | `Receive`, `Track`, `TrackFails`, `LoadTargets`, `LoadFails`, then the walk, `Answer` / `AdvanceLane` |
| `_track_stream_checkpoint_and_detect_gap`, `_backfill_stream_gap` | `Track` with `NewProcessed`, `Gap`, `Capped`, `Truncated`, `UnseenGap`; `NoClient` goes past the gap unscanned |
| `run_one_tick`: lock, `seed_backfill_from_base_checkpoint`, `run_live_tip_ingest`, `run_backfill_step` | `StartTick`, `RunLiveTip`, `HeadUnknown`, the walk, `AdvanceLane`, `RunBackfill` |
| `_normalize_block_transactions`, `_persist_quicknode_wallet_transfer` | `Scan`, `FetchFails`, `Insert` |
| an exception, a death, redelivery | `Abort`, `owed` |

The delivery lane's cursor is written early and commits with the first row the handler
inserts, or at its end: `dirty` and `CommitCursor`. The cursors of the other lanes are
one upsert after their blocks (`AdvanceLane`). `origin`, `passed` and `cut` are history
variables: where a lane's coverage begins, which transfers a lane went past without a row
*by design* (unfetchable, not yet mined, left behind by a snap to the tip, truncated by the
gap cap, gone past without a client), and which ones the delivery lane lost with a handler that was cut off. Every
way into `passed` and `cut` is one action at one place of the code, so the properties
say that there is no other.

Abstracted: batches are contiguous and at most `MaxBatch` long (the code looks only at
the first and the last block of a batch, so a hole inside one would pass unseen; the runs
push single blocks, the proofs hold for any length); taking the lock and
seeding the backfill cursor are one step, and so are reading head and cursor, and
`Scan`'s look for an existing row.

## 3. Runs

Instances are small, but each admits the interleaving its properties are about.
Distinct states are those of the runs as committed.

| Run | Instance | Shows |
|---|---|---|
| `ResponseAction` `quorum` | live Safe action, governed by a policy naming two roles; three users, three requests, two policy versions; approve, execute, evaluate, sibling, publish, demote, abort. 348,528 states | `TypeOK`, `OneDecisionPerApprover`, `RowApproverOnRecord`, `QuorumBacked`, `SeparationOfDuties` |
| `stops` | a governed action in each of the three modes, its live path freezing through the provider; three requests; approve, reject, execute, rollback, simulate, evaluate, incident, plan, abort. 920,790 states | `HonoursStandingStops`, `QuorumReachedIsRecorded`, `OnlyOvertakenReopens` |
| `terminal` | simulated action, approve and execute overlapping | **violated**: `TerminalIsFinal` |
| `PolicyEnforcement` `verdicts` | two actions, two passes, two editors, three versions, a cap of one operation, two days, one change of facts, any read failing at any time. 4,846,578 states | `TypeOK`, `GateRestsOnAVerdict`, `HistoryMatchesPolicy`, `ReportedVerdictExists`, `EachAllowFits`, `DecidedAgainOnlyBlind` |
| `stale` | three passes, facts that change and change back | **violated**: `ReevaluationIsCurrent` |
| `AlertDelivery` `safety` | two events, two processes, two attempts, two faults, three appends. 2,064,242 states | `TypeOK`, `AckedIsSettled`, `RowsBackedByRedis`, `PublishedLeavesTheQueue`, `KeepsToChannel` |
| `channel` | one event, two processes, two attempts, two faults, four appends, with fairness. 10,577 states | `ImplementsChannel`: the steps and the liveness of `AlertChannel` |
| `AssetRiskJobs` `riskjobs` | one asset, two replicas, one request, two attempts, two mishaps, with fairness. 264,581 states | `TypeOK`, `OneActiveJobPerAsset`, `NoTwoAssessAtOnce`, `AttemptsDecide`, `SettledJobsStaySettled`, `NoJobPendsForever`, `DueAssetsAreAssessed` |
| `attempts` | two assets, one replica, one request, three mishaps | **violated**: `BoundedAttempts` |
| `WatchlistBackfill` `backfill` | two workers, two backfills of up to three blocks, two more blocks for the live tail, chunks of two, one trouble, with fairness. 588,147 states | `TypeOK`, `CoverageIsReal`, `PlansAreExact`, `CompletedWindowsAreRead`, `LiveTailHasNoGap`, `BackfillsEnd`, `LiveTailCatchesUp` |
| `replan` | the same with two troubles and a confirmation depth of one | **violated**: `CompletedMeansScanned` |
| `StreamLanes` `lanes` | two sessions, a chain of four blocks with a transfer in block 2, one confirmation, one block per live tick, two per backfill step, snap beyond two blocks, a gap cap of one, seed block 2, two pushes, one fault, with fairness. 1,162,442 states | `TypeOK`, `CursorsAreBacked`, `GapsHealUnlessCut`, `LanesNeverRegress`, `LiveReachesTheTip`, `SkippedIsBackfilled` |

Every property of a passing run has a *mutant*: a definition of the model changed the way
a plausible bug would change the code (listed in `PROJECT.json`), under which the
same run finds the property violated. The mutated forms stand beside the definition they
replace, each with a comment.

### Bounds, and why they are enough

* **Requests** (`ResponseAction`), **Passes**, **Edits** (`PolicyEnforcement`) are
  one-shot, so their number bounds the behaviour, and a run may stop when they are used
  up (`CHECK_DEADLOCK FALSE`). The hazards are races of a read in one handler with a
  commit of another; two requests make the race, a third prepares the state (an approval
  before an execution, an execution before a rollback).
* **Admitted** selects the operations and events of an instance of `ResponseAction`;
  across the runs all of them occur.
* **MaxVersion**: two versions for the gate (in force, and published since), three for
  the history (two edits). **Cap** and **Amount** of one let a single allowed
  operation use up the cap; **MaxDay** of two makes one midnight.
* **MaxChanges**: one or two changes of facts or of readability; a change and its
  reversal need two.
* **MaxAttempts** of two gives a first failure that is retried and a last one.
  **MaxFaults** of two bounds Redis errors, crashes and late redeliveries together.
  **MaxAppends** bounds the bus messages of one event: an event is appended again only
  after a fault, or a deadlock, lost the mark of an earlier append. Two faults make three
  appends of one event; 4 leaves a margin where liveness is checked. With two events,
  deadlocks that follow a fault could repeat an append further, and 3 cuts those off.
* `KeepsToChannel` is checked with two events; `ImplementsChannel`, which adds
  liveness, with one.
* **MaxMishaps** (`AssetRiskJobs`) counts failed assessments, crashes, deletions, ageing
  and lapsed heartbeats together; two are enough for a failed first attempt followed by a
  last one, or by a crash. Requests are one-shot there, too. In `riskjobs` all actors race for
  a single asset, so a lost race loses a batch of one; it has no symmetry, as it checks
  liveness. Larger instances, too long for a routine run or only for a part of the
  properties, hold as well: the safety properties with two requests and three mishaps
  (3,321,211 states up to symmetry), `NoJobPendsForever` with two assets and two replicas
  (165,570), and `DueAssetsAreAssessed` with two assets that a replica enqueues in one
  transaction, of which a request takes one first (217,582). `attempts` has two assets, in
  which a failing one stays the oldest of the queue.
* `WatchlistBackfill`: three probed blocks and a tip of at most five give plans of one or
  two ranges, chunks of two end in the middle of a range, and a poll takes at most two
  blocks. A confirmation depth of zero is one the configuration allows, and the tail is
  then longest; `replan` has a depth of one. **MaxTroubles** counts outages, crashes,
  failures and leases that run out. Two backfills are enough to subtract one's work
  from the other's plan.
* `StreamLanes`: the constants of `lanes` are chosen for each branch of the live and the
  backfill lane to occur in a chain of four blocks: a snap, a backfill of two steps, a gap that
  heals. With its one transfer the gap cap never cuts one off, and an abort never leaves the
  rest of a gap behind the cursor. For those `GapsHealUnlessCut` rests on the theorem
  `GapsHeal`, and on a larger instance, too long for a routine run: transfers in blocks 2, 3 and
  4 of five, a cap of two, three pushes, one fault and nothing to read at the tip, 5,994,793
  states up to symmetry, in which both happen, and in which the delivery cursor goes back over
  transfers. No instance pushes batches of more than one block; the proofs hold for any length.
* `MaxJobs`, `MaxPushes`, the compensation counter and the clock are bounded by
  the calls of the instance.

### Fairness

* `AlertDelivery`: `_alert_event_loop` runs `while True`, catches every exception, and a
  process that died is started again by its platform: each worker's `Cycle` is weakly
  fair. A message read by a cycle that crashed is handed out again by XAUTOCLAIM once
  it has been idle long enough; an earlier cycle may overlook it, hence strong fairness of
  `Recover`.
* `AssetRiskJobs`: each replica keeps cycling (`WorkerStep`, weak) and a request runs on
  (`RequestStep`, weak). An insert that waits for another transaction's row is let through
  when that transaction ends; others may take the row in between, hence strong fairness of
  `InsertDue`.
* `WatchlistBackfill`: the worker loop is weakly fair per step; a target whose lease is
  taken and released over and over is claimed in the end (strong fairness of
  `ClaimTarget`); leases of workers that are gone run out.
* `StreamLanes`: `run_quicknode_live_worker.main` loops and survives exceptions, so
  `StartTick` and the steps of a session that has begun are weakly fair. The same holds of
  a webhook's handler. Nobody is assumed to push.

Faults are finite in all of them, and nothing is assumed of users, of time or of faults:
a Redis, a provider or a database that never works again delivers nothing.

## 4. Disagreements found

Four are runs that expect a violation; `PROJECT.json` quotes the line.

1. `terminal`: an approval that read the row before an execution committed sets the
   executed row back to `pending` (`pilot.py:22571`), although terminal facts are
   "not recoverable by collecting another approval".
2. `stale`: facts that change and change back (or a fact that is unreadable for a while
   in between) find the older row for their digest (`enforcement.py:1036`), nothing is
   written, and the gate goes on reading the newer row with the verdict on facts that are
   gone.
3. `attempts`: an assessment that fails in the database takes the count of the attempt
   with it (`asset_risk/worker.py:283`), so its job is tried again without bound.
4. `replan`: a worker that outlived its lease plans a job again that another one completed
   (`external_watchlist/backfill.py:150`), and the job ends completed with unread blocks.

Further observations, met while modelling and present in the model, without a run of
their own:

* An execution that read the row before a rejection committed writes the old
  `execution_metadata` back (`pilot.py:23257`) and so erases the rejection.
* Two policy passes over unchanged facts decide them twice, and both ALLOWs count against the
  daily cap, although "re-evaluating a pre-existing action ... can never duplicate a decision or
  double-consume a policy's daily cap" (`pilot.py:21711-21713`): when they overlap, or when
  the later one could not look for the earlier decision (`enforcement.py:849-884`). Passes for
  different actions that are under way at once both read the total before either commits and
  both allow, beyond the cap. `EachAllowFits` and `DecidedAgainOnlyBlind` say how far this
  goes: an ALLOW fits the cap with every ALLOW of a pass that had ended before its own began,
  and a pass decides again what an earlier one decided only if it could not look.
* The digest leaves clock and total out, on purpose, so a denial by the daily cap answers
  the next day's call as well.
* An enqueue that loses the race for one asset loses the batch of that cycle; the next
  cycle does it again, as `DueAssetsAreAssessed` shows. An asset whose initial assessment
  fails in the database is not created.
* Outages and failures of a watchlist job share one counter with two limits. With a
  confirmation depth below the depth of a reorganisation a backfill reads blocks that
  are not final.
* The base cursor of the delivery lane can go backwards when two webhooks run at once, although
  `quicknode_streams.py:1788-1790` says it "Never regresses": both read it, and the later
  commit wins. `LanesNeverRegress` is therefore about the other two lanes.
* A handler that dies after its first persisted row has committed the cursor past a gap it
  had not filled yet (`quicknode_streams.py:2072`); nothing looks at that gap again. The
  two first batches of a lane that run at once leave a hole without a cursor to detect
  it. Both are `cut` in the model, and `GapsHealUnlessCut` says that nothing else is lost.
* The backfill walks up to the live cursor rather than to "the block the live lane began
  at", as its docstring says. The ranges overlap, and the overlap is what heals blocks that
  the live lane failed to fetch or snapped past: with the documented end
  (`BackfillEndAtOrigin`, a mutant) they are lost.
* A lost insert race announces a telemetry id that has no row (`:1337-1356`); a batch whose
  targets cannot be loaded is answered 200 and not sent again.

What stays excluded, by the passing runs: nothing of the above lets an action run without
its quorum, its roles or its separation of duties, and a stop that stands throughout a
request always holds. The first disagreement, and the lost rejection, do make a later run of a
finished or rejected action possible, because they remove the stop itself.

## 5. What is proved

For every value of the constants within the named `ASSUME`s, each of which the runs
evaluate.

| Module | Theorem | Property |
|---|---|---|
| `ResponseAction_proofs` | `TypeCorrect` | `TypeOK` |
| | `DecidesOnce` | `OneDecisionPerApprover` |
| | `ApproverOnRecord` | `RowApproverOnRecord` |
| | `DutiesSeparated` | `SeparationOfDuties` |
| | `QuorumStandsBehindRuns` | `QuorumBacked` |
| | `StandingStopsHold` | `HonoursStandingStops` |
| | `RollbacksCompensated` | `RollbackCompensated`, which no run checks |
| | `SingleApprovalIsRecorded` | `QuorumReachedIsRecorded`, for a quorum of one |
| | `OnlyTheOvertakenReopen` | `OnlyOvertakenReopens`: `terminal` has no other cause |
| `PolicyEnforcement_proofs` | `TypeCorrect` | `TypeOK` |
| | `HistoryAlwaysMatches` | `HistoryMatchesPolicy` |
| | `GateAlwaysRests` | `GateRestsOnAVerdict` |
| | `ReportsAreBacked` | `ReportedVerdictExists` |
| | `AllowsFit` | `EachAllowFits` |
| | `DecidedAgainBlindly` | `DecidedAgainOnlyBlind` |
| `AlertDelivery_proofs` | `TypeCorrect` | `TypeOK` |
| | `AckedStaysSettled` | `AckedIsSettled` |
| | `PublishedStaysOut` | `PublishedLeavesTheQueue` |
| | `RowsStayBacked` | `RowsBackedByRedis` |
| | `StaysInTheChannel` | `KeepsToChannel`: every step is one of `AlertChannel`, or a stutter |
| `StreamLanes_proofs` | `TypeCorrect` | `TypeOK` |
| | `CursorsOnlyAdvance` | `LanesNeverRegress` |
| | `CursorsStayBacked` | `CursorsAreBacked` |
| | `GapsHeal` | `GapsHealUnlessCut` |
| `AssetRiskJobs_proofs` | `TypeCorrect` | `TypeOK` |
| | `OneActiveJob` | `OneActiveJobPerAsset` |
| | `AssessmentsApart` | `NoTwoAssessAtOnce` |
| | `AttemptsSettle` | `AttemptsDecide` |
| | `OutcomesStay` | `SettledJobsStaySettled` |
| `WatchlistRanges_proofs` | `MergeIsExact`, `SubtractIsExact` | what the operators return, for every window and finite set of ranges |
| `WatchlistBackfill_proofs` | `TypeCorrect` | `TypeOK` |
| | `EveryPlanIsExact` | `PlansAreExact` |
| | `ProgressIsReal` | `CoverageIsReal` |
| | `WindowsRead` | `CompletedWindowsAreRead` |
| | `ScannedUnlessReplanned` | `PlannedOnce => CompletedMeansScanned`: `replan` has no other cause |
| | `TailHasNoGap` | `LiveTailHasNoGap` |

**ResponseAction.** The inductive invariant `IInv` has four parts, each preserved given
those before it:

* `TypeInv`: types, and that a request under way has a user.
* `DecisionInv`: the properties on decisions are not inductive, because the guard that
  keeps an approver from deciding twice is evaluated steps before the row is committed.
  What carries it is `HeldDecisionsAreNew`: a request that holds an uncommitted decision
  is the only one of its user, and that user has no committed one. `NeverTheProposer`
  does the same for the check of the proposer.
* `ReleaseInv`: an execution reads its approver long before it runs. `SnapshotApproved`
  says the approver in a snapshot has an approval on record and is neither proposer nor
  executor, and `AuthorizedIsReleased` that a request past the gate has roles and quorum
  behind it. Both persist because approvals are only ever added (`ApprovalsGrow`).
* `StopInv`: `stops[r]` shrinks while a request is under way. `StandingStopsStand` says
  that a stop in it holds now, `StopsWereRead` that a stop that stood throughout was
  visible in the snapshot, or in the verdict; so a request with such a stop is refused by
  the gate, or by `BeginExecute`, and past the gate none is left
  (`AuthorizedHasNoStop`).

`QuorumReachedIsRecorded` is proved apart, for the only quorum the product sets
(`pilot.py:21807`): an approver is on the row as long as an approval is on record
(`NamedFromTheFirst`). With a quorum of two it fails, since overlapping approvals each miss
the other's, and a policy with several approvers would have to settle that first.

`OnlyOvertakenReopens` says how far the disagreement `terminal` goes. An executed or canceled
row is reopened by the closing UPDATE of an approval, or of an execution, that began while the
row was in another status, and by nothing else: a simulation, a rejection, a rollback or a
request that starts from the terminal row never does it. The invariant behind it is
`BeganOpen`: a request on its way to an approval or an execution has no terminal status among
the stops that stood all along.

**PolicyEnforcement.** `HistoryInv` adds to `HistoryMatchesPolicy` only that the history is
finite: the versions are exactly 1 to the current one, because an edit takes effect only
where the version it read still stands. `GateInv` says that a row which allows an action
names a version that permits the facts it saw (`Permitted`), and that among any rows the gate
looks through there is a newest one. `OrderInv` relates a pass
to those that had ended before it began (`after`), whatever runs beside it: their rows are
final, so the total it read counts at least theirs, and when it is about to record, either none
of their rows has its digest or it is `blind`.

**AlertDelivery.** `Typed` adds to the types which message a worker holds at which place of
its cycle, and that the bus is finite. `AckInv` carries `AckedIsSettled` over the
window between the commit and the acknowledgement. `LockInv` says that two cycles never lock
one row, and that what a cycle is about to write to a row that is out is out as well, which
gives `PublishedLeavesTheQueue`; `GoneInv`, that a row given up has used its attempts and stays
given up. An entry on the dead-letter stream alone proves none of this, as a crash before the
commit leaves it behind a row that may still be delivered; the refinement maps both to
"given up" (`Given`). `BackedInv` and `NumberInv` tie what a cycle is about to
write to what Redis already has, and an acknowledged message to the stream or to a committed
dead letter. `ChannelStep` then shows, action by action, that a step maps
to a step of `AlertChannel` or leaves its variables alone.

**StreamLanes.** `Typed` is `TypeOK` with the shape of a session at each place of the handler.
`Backed` adds, for every session, that the work before its cursor is done (`WorkOf`).
`Healing` is the hard part: what a session still has in its walk (`Held`), what it leaves
behind safely (`Safe`, which only grows: `SafeGrows`), and what the delivery lane's
uncommitted cursor owes (`DeliveryWork`); `CommitHeals` shows that a cursor becomes visible
only with work done, in a walk, or in `cut`.

**AssetRiskJobs.** The look for an active job and the commit of the insert that rests on it are
steps apart, so the properties of the committed table are not inductive. `IInv` adds what
every transaction has in hand (`Place`, `Holds`): the assets it has inserted jobs of have no
active job, the job it has locked is active, and no two transactions have either in common
(`Apart`). An asset that does not exist has no active job (`AbsentQuiet`), which its creation
relies on. `Inserts(S)` is what any commit does to the table: it keeps the asset of
each row and every outcome, and adds at most one active job for each asset of `S`.
`AllDecided` is `AttemptsDecide`, with the fact that a job settled inline never waits.
`ProcStep` and `WorldStep` show once that such a commit keeps the invariant, and each action
is an instance of one of them.

**WatchlistRanges.** Both theorems are inductions over the ranges. The induction principle of
the library takes an operator, which the provers cannot instantiate, but the set of the
numbers of steps after which a claim fails is a set of naturals, and by well-foundedness it
has a least element (`LeastNumber`, `UpTo`). The claims are `MergedSoFar` (the blocks of
what is merged are those of the ranges done, in order, with a block between any two, and the
last begins no later than the last range done) and `CutSoFar` (what is left before
the cursor is exact, and no range done has a block from the cursor on). That a finite set has
its sorted sequence (`SortedSorts`) is an induction of the same kind, over its cardinality.

**WatchlistBackfill, the jobs.** A worker goes by the row that its claim or its plan gave it,
which a slower or a faster worker leaves behind the row of the table or ahead of it. `WatchInv`
says that the two have the same plan and that what EACH of them covers was read (`RowRead`,
`JobRead`), so whichever is written next, the progress in the table is real. A second plan of
a job breaks this, hence `PlannedOnce`, which the run `replan` shows to be needed; that
plans are exact (`JobGood`) holds without it, by `SubtractIsExact`. `Moves` shows once that a step
keeps the invariant if it writes one row with its plan kept (`JobsMove`) and one worker
(`HandsMove`); every action but the trigger and the plan is an instance, and `Plans` and
`Triggers` are proved on their own.

**WatchlistBackfill, the tail.** A worker that polls keeps a cursor of its own and writes it by
id, so after an overrun lease the cursor of the target may go back to a slower worker's. `TailInv`
says that both cursors end a run of committed blocks that begins where the tail began
(`ReadUpTo`): whichever is written next, nothing before it is missing. It needs nothing of the
jobs, so of a worker it keeps only that it is a record with its five fields.

**Model-checked only.** All liveness and fairness: `BackfillsEnd`, `LiveTailCatchesUp`,
`NoJobPendsForever`, `DueAssetsAreAssessed`, `LiveReachesTheTip`, `SkippedIsBackfilled`, and
the temporal half of `ImplementsChannel`. They rest on `ENABLED`, which is out of the
prover's reach. `QuorumReachedIsRecorded` is proved for a quorum of one only. Every other
property of a passing run is a theorem. The inductive invariants were model-checked on the
instances of the runs before they were proved.

## 6. Not modelled

* Response actions: those backed by an AI recommendation
  (`_approve_ai_recommendation_backed_action` and its siblings), planning, the fallback
  for a database without migration 0137, expiry of approvals.
* The live path of an unsupported action type (`pilot.py:23121-23174`) is in `Outcome` and in
  the theorems, but no run has it: creation refuses a live action of such a type with a
  422, so only rows of an older release could take it.
* Policies: renames and audit rows; the individual checks of a policy.
* Alert delivery: batch limits, trimming of streams, heartbeats.
* Policy passes that share a transaction: those of one recommended plan
  (`recommend_response_action_for_incident` over several actions) run one after the other.
* Asset risk: `Due` leaves out `enabled` and the excluded tenants, which select assets and
  never change here. Scoring, and the upserts of assessments and findings ("an assessment was
  written" stands for them).
* Watchlist: the cache of the chain tip within one cycle (`worker.py:271-274`), an earlier
  value of what `ClaimTarget` reads. Decoding, detection and findings, pausing of monitoring, status
  derivation, CRUD of protocols and profiles, more than one target.
* Stream lanes: signatures and decoding, the cache of the chain head, lag and health
  classification, coverage refresh, the alert chain after a row, the debug-import endpoint,
  the polling-only mode. A crash between the commit of a row and its alert chain leaves a
  row without detections, which the model cannot see.
* The components marked `not_modelled` in `PROJECT.json`, each with its reason. The backend
  has some 168,000 lines, most of them read models, provider adapters, text and views. The
  models cover the subsystems whose state several actors change; the share of the
  lines they map is accordingly small.

## 7. What is left

1. `AlertStream` (`app/domains/alert_stream/`), composed with `AlertChannel`: replay after a
   reconnect, and the trimming of the workspace stream.
2. The AI-recommendation-backed approvals, as a second instance of the approval part of
   `ResponseAction`.
3. The leases and the reconcile run of the monitoring runner; the block cursor and the
   reorganisations of the event watcher; holds of the retention job; the Merkle construction
   of evidence.
4. The remaining disagreements as theorems, as `ScannedUnlessReplanned` and
   `OnlyTheOvertakenReopen` are for `replan` and `terminal`: that `attempts` has no other cause
   than undone claims follows from `AttemptsDecide`; `stale` has none yet.
