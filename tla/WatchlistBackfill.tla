------------------------- MODULE WatchlistBackfill -------------------------
(***************************************************************************)
(* One target of the external watchlist: its historical backfills          *)
(* (domains/external_watchlist/backfill.py), its live tail (worker.py,     *)
(* poll_target), the worker replicas that drive both, and the endpoints    *)
(* that start a backfill and remove the target.                            *)
(*                                                                         *)
(* Claims are leases that are committed at once; from then on a worker     *)
(* works from the row its claim returned and writes plan, cursor and       *)
(* outcome by id alone.  A worker that outlives its lease goes on writing  *)
(* beside the one that claimed the job after it.                           *)
(***************************************************************************)
EXTENDS Naturals, FiniteSets, Sequences, WatchlistRanges

CONSTANTS Workers,
          Probed,        \* tip when the target was added; the live tail starts after it
          MaxTip,        \* bound: blocks of the chain
          Confirmations,
          ChunkSize,     \* most blocks of one eth_getLogs call
          MaxPerPoll,    \* max_blocks_per_poll
          MaxJobAttempts, MaxOutageAttempts,
          MaxJobs,       \* bound: backfills triggered
          MaxTroubles    \* bound: outages, failures, spent budgets, crashes, overrun leases

ASSUME BoundsAssumption ==
    /\ Probed \in Nat \ {0} /\ MaxTip \in Nat /\ MaxTip >= Probed
    /\ Confirmations \in Nat /\ ChunkSize \in Nat \ {0} /\ MaxPerPoll \in Nat \ {0}
    /\ MaxJobAttempts \in Nat \ {0} /\ MaxOutageAttempts \in Nat \ {0}
    /\ MaxJobs \in Nat /\ MaxTroubles \in Nat

VARIABLES
    tip,      \* newest block of the chain
    removed,  \* the target was removed
    jobs,     \* its backfills, in the order they were triggered
    live,     \* last_processed_block and lease of the target
    wk,       \* the workers
    scanned,  \* history: blocks whose logs were read and committed
    owed,     \* history: owed[j], what the last plan of job j had to cover
    plans,    \* history: plans[j], how often job j was planned
    troubles

vars == <<tip, removed, jobs, live, wk, scanned, owed, plans, troubles>>

NoBlock == 0
Blocks  == 1 .. MaxTip
Open    == {"pending", "running"}
Settled == {"completed", "partial", "failed"}
Ranges  == Seq(Blocks \X Blocks)
Job     == [status : Open \cup Settled, planned : BOOLEAN, start : Blocks \cup {NoBlock},
            plan : Ranges, index : Nat, cursor : Blocks \cup {NoBlock},
            count : Nat,     \* scanned_blocks
            attempts : Nat, leased : BOOLEAN]
Worker  == [pc : {"idle", "start", "plan", "scan", "poll", "tail"},
            id : 0 .. MaxJobs,              \* the job in hand, or 0
            row : Job,                      \* its row, as this worker last saw it
            last : Blocks \cup {NoBlock},   \* live cursor as read and advanced
            to : Blocks \cup {NoBlock}]     \* where this poll ends

NewJob  == [status |-> "pending", planned |-> FALSE, start |-> NoBlock, plan |-> <<>>,
            index |-> 1, cursor |-> NoBlock, count |-> 0, attempts |-> 0, leased |-> FALSE]
Resting == [pc |-> "idle", id |-> 0, row |-> NewJob, last |-> NoBlock, to |-> NoBlock]

TypeOK ==
    /\ tip \in Probed .. MaxTip
    /\ removed \in BOOLEAN
    /\ jobs \in Seq(Job) /\ Len(jobs) <= MaxJobs
    /\ live \in [last : Blocks \cup {NoBlock}, leased : BOOLEAN]
    /\ wk \in [Workers -> Worker]
    /\ scanned \subseteq 1 .. tip
    /\ owed \in Seq(SUBSET Blocks) /\ plans \in Seq(Nat)
    /\ Len(owed) = Len(jobs) /\ Len(plans) = Len(jobs)
    /\ troubles \in 0 .. MaxTroubles

Init ==
    /\ tip = Probed /\ removed = FALSE
    /\ jobs = <<>> /\ owed = <<>> /\ plans = <<>>
    /\ live = [last |-> NoBlock, leased |-> FALSE]
    /\ wk = [w \in Workers |-> Resting]
    /\ scanned = {} /\ troubles = 0

Trouble == troubles < MaxTroubles /\ troubles' = troubles + 1
-----------------------------------------------------------------------------
Total(job) == Cardinality(InRanges(job.plan))  \* total_blocks

\* covered_spans: the ranges before the current one, and that up to the cursor
CoveredSpans(job) ==
    {job.plan[i] : i \in {k \in 1 .. Len(job.plan) : k < job.index}} \cup
    IF job.index <= Len(job.plan) /\ job.cursor >= job.plan[job.index][1]
    THEN {<<job.plan[job.index][1], IF job.cursor < job.plan[job.index][2]
                                    THEN job.cursor ELSE job.plan[job.index][2]>>}
    ELSE {}
\* iter_log_chunks: where a chunk may end; a provider may refuse a larger one
Chunk(from, end) == {to \in from .. end : to < from + ChunkSize}

Covered(job) == UNION {InRange(r) : r \in CoveredSpans(job)}
-----------------------------------------------------------------------------
(* The endpoints, the chain, and time. *)

\* trigger_backfill: refused while a backfill of the target is open
TriggerBackfill ==
    /\ ~removed /\ Len(jobs) < MaxJobs
    /\ \A j \in 1 .. Len(jobs) : jobs[j].status \notin Open
    /\ jobs' = Append(jobs, NewJob)
    /\ owed' = Append(owed, {}) /\ plans' = Append(plans, 0)
    /\ UNCHANGED <<tip, removed, live, wk, scanned, troubles>>

Stopped(job) == IF job.count > 0 THEN "partial" ELSE "failed"

RemoveTarget ==
    /\ ~removed /\ removed' = TRUE
    /\ jobs' = [j \in 1 .. Len(jobs) |->
                  IF jobs[j].status \in Open
                  THEN [jobs[j] EXCEPT !.status = Stopped(jobs[j]), !.leased = FALSE]
                  ELSE jobs[j]]
    /\ live' = [live EXCEPT !.leased = FALSE]
    /\ UNCHANGED <<tip, wk, scanned, owed, plans, troubles>>

NewBlock ==
    /\ tip < MaxTip /\ tip' = tip + 1
    /\ UNCHANGED <<removed, jobs, live, wk, scanned, owed, plans, troubles>>

InHand(j) == \E w \in Workers : wk[w].id = j
Tailing == \E w \in Workers : wk[w].pc = "tail"

\* A lease whose holder is gone runs out; one whose holder is slow may.
LeaseEnds(j) ==
    /\ jobs[j].leased /\ ~InHand(j)
    /\ jobs' = [jobs EXCEPT ![j].leased = FALSE]
    /\ UNCHANGED <<tip, removed, live, wk, scanned, owed, plans, troubles>>
LeaseOverrun(j) ==
    /\ jobs[j].leased /\ InHand(j) /\ Trouble
    /\ jobs' = [jobs EXCEPT ![j].leased = FALSE]
    /\ UNCHANGED <<tip, removed, live, wk, scanned, owed, plans>>
TailLeaseEnds ==
    /\ live.leased /\ ~Tailing /\ live' = [live EXCEPT !.leased = FALSE]
    /\ UNCHANGED <<tip, removed, jobs, wk, scanned, owed, plans, troubles>>
TailLeaseOverrun ==
    /\ live.leased /\ Tailing /\ Trouble /\ live' = [live EXCEPT !.leased = FALSE]
    /\ UNCHANGED <<tip, removed, jobs, wk, scanned, owed, plans>>
-----------------------------------------------------------------------------
(* A worker cycle: one backfill ... *)

\* mutant: a job whose worker died is not claimed again
ClaimablePending == {j \in 1 .. Len(jobs) : jobs[j].status = "pending" /\ ~jobs[j].leased}
Claimable == {j \in 1 .. Len(jobs) : jobs[j].status \in Open /\ ~jobs[j].leased}

ClaimBackfill(w) ==
    /\ wk[w].pc = "idle"
    /\ \E j \in Claimable :
        /\ jobs' = [jobs EXCEPT ![j].status = "running", ![j].leased = TRUE]
        /\ wk' = [wk EXCEPT ![w].pc = "start", ![w].id = j, ![w].row = jobs'[j]]
    /\ UNCHANGED <<tip, removed, live, scanned, owed, plans, troubles>>

\* Done with the job in hand: the cycle goes on to the live tail, or is over.
Leave(w, pc) == wk' = [wk EXCEPT ![w] = [Resting EXCEPT !.pc = pc]]
Finish(w, status) ==
    /\ jobs' = [jobs EXCEPT ![wk[w].id].status = status, ![wk[w].id].leased = FALSE]
    /\ Leave(w, "poll")
\* _release clears the lease, whoever holds it by now
Release(w, counted, pc) ==
    /\ jobs' = [jobs EXCEPT ![wk[w].id].leased = FALSE,
                            ![wk[w].id].attempts = @ + counted]
    /\ Leave(w, pc)

\* run_job with the target gone, or with its network not ready.  A terminal
\* error of the network (not configured, wrong chain) stops the job at once.
TargetGone(w) ==
    /\ wk[w].pc = "start" /\ removed
    /\ Finish(w, Stopped(wk[w].row))
    /\ UNCHANGED <<tip, removed, live, scanned, owed, plans, troubles>>

NetworkDown(w) ==
    /\ wk[w].pc = "start" /\ ~removed /\ Trouble
    /\ LET attempts == wk[w].row.attempts + 1 IN
       \/ Finish(w, Stopped(wk[w].row))
       \/ /\ attempts >= MaxOutageAttempts
          /\ jobs' = [jobs EXCEPT ![wk[w].id].status = Stopped(wk[w].row),
                                  ![wk[w].id].leased = FALSE, ![wk[w].id].attempts = attempts]
          /\ Leave(w, "poll")
       \/ attempts < MaxOutageAttempts /\ Release(w, 1, "poll")
    /\ UNCHANGED <<tip, removed, live, scanned, owed, plans>>

\* The row the claim returned decides whether the job is planned.
StartJob(w) ==
    /\ wk[w].pc = "start" /\ ~removed
    /\ wk' = [wk EXCEPT ![w].pc = IF wk[w].row.planned THEN "scan" ELSE "plan"]
    /\ UNCHANGED <<tip, removed, jobs, live, scanned, owed, plans, troubles>>

\* Another failure of a job in hand: the attempts of the row as it is now decide.
FailedAttempt(w) ==
    LET j == wk[w].id IN
    \/ jobs[j].attempts + 1 < MaxJobAttempts /\ Release(w, 1, "poll")
    \/ /\ jobs[j].attempts + 1 >= MaxJobAttempts
       /\ jobs' = [jobs EXCEPT ![j].status = Stopped(jobs[j]), ![j].leased = FALSE,
                               ![j].attempts = @ + 1]
       /\ Leave(w, "poll")

\* plan_job: the start is an estimate for a moment of its own choosing, the
\* window ends before the live tail, and what other backfills have scanned is
\* left out.  The plan is written by id and resets the progress; the table
\* refuses one with fewer blocks than the job has scanned.
\* mutant: only completed backfills are left out of a plan
OthersCompleted(j) ==
    UNION {CoveredSpans(jobs[k]) : k \in {i \in (1 .. Len(jobs)) \ {j} : jobs[i].status = "completed"}}
Others(j) == UNION {CoveredSpans(jobs[k]) : k \in (1 .. Len(jobs)) \ {j}}
PlanJob(w) ==
    LET j == wk[w].id IN
    /\ wk[w].pc = "plan"
    /\ \E start \in 1 .. Probed :
        LET row == [jobs[j] EXCEPT !.planned = TRUE, !.start = start,
                                   !.plan = SubtractRanges(<<start, Probed>>, Others(j)),
                                   !.index = 1, !.cursor = NoBlock]
        IN IF row.count <= Total(row) \/ row.plan = <<>>
           THEN /\ jobs' = [jobs EXCEPT ![j] = row]
                /\ wk' = [wk EXCEPT ![w].pc = "scan", ![w].row = row]
                /\ owed' = [owed EXCEPT ![j] =
                              {b \in start .. Probed :
                                 \A k \in (1 .. Len(jobs)) \ {j} : b \notin Covered(jobs[k])}]
                /\ plans' = [plans EXCEPT ![j] = @ + 1]
           ELSE FailedAttempt(w) /\ UNCHANGED <<owed, plans>>
    /\ UNCHANGED <<tip, removed, live, scanned, troubles>>

\* One chunk: its events and the progress commit together; the lease is
\* renewed, and index and cursor are this worker's own.
NextBlock(row) ==
    IF row.cursor >= row.plan[row.index][1] THEN row.cursor + 1 ELSE row.plan[row.index][1]
\* mutant: the cursor moves by the chunk that was asked for, not the one read
ScanChunkAhead(w) ==
    LET j == wk[w].id  row == wk[w].row IN
    /\ wk[w].pc = "scan" /\ row.index <= Len(row.plan)
    /\ LET from == NextBlock(row)  end == row.plan[row.index][2] IN
       \E to \in Chunk(from, end) :
        /\ scanned' = scanned \cup {from}
        /\ jobs' = [jobs EXCEPT ![j].index = row.index, ![j].cursor = to,
                                ![j].count = Least(Total(jobs[j]), @ + to - from + 1),
                                ![j].leased = TRUE]
        /\ wk' = [wk EXCEPT ![w].row.cursor = to]
    /\ UNCHANGED <<tip, removed, live, owed, plans, troubles>>
ScanChunk(w) ==
    LET j == wk[w].id  row == wk[w].row IN
    /\ wk[w].pc = "scan" /\ row.index <= Len(row.plan)
    /\ LET from == NextBlock(row)  end == row.plan[row.index][2] IN
       \E to \in Chunk(from, end) :
        /\ scanned' = scanned \cup (from .. to)
        /\ jobs' = [jobs EXCEPT ![j].index = row.index, ![j].cursor = to,
                                ![j].count = Least(Total(jobs[j]), @ + to - from + 1),
                                ![j].leased = TRUE]
        /\ wk' = [wk EXCEPT ![w].row.cursor = to]
    /\ UNCHANGED <<tip, removed, live, owed, plans, troubles>>

\* mutant: a range ends one block early
EndRangeEarly(w) ==
    LET j == wk[w].id  row == wk[w].row IN
    /\ wk[w].pc = "scan" /\ row.index <= Len(row.plan)
    /\ NextBlock(row) >= row.plan[row.index][2]
    /\ jobs' = [jobs EXCEPT ![j].index = row.index + 1, ![j].cursor = NoBlock]
    /\ wk' = [wk EXCEPT ![w].row.index = @ + 1, ![w].row.cursor = NoBlock]
    /\ UNCHANGED <<tip, removed, live, scanned, owed, plans, troubles>>
EndRange(w) ==
    LET j == wk[w].id  row == wk[w].row IN
    /\ wk[w].pc = "scan" /\ row.index <= Len(row.plan)
    /\ NextBlock(row) > row.plan[row.index][2]
    /\ jobs' = [jobs EXCEPT ![j].index = row.index + 1, ![j].cursor = NoBlock]
    /\ wk' = [wk EXCEPT ![w].row.index = @ + 1, ![w].row.cursor = NoBlock]
    /\ UNCHANGED <<tip, removed, live, scanned, owed, plans, troubles>>

\* Nothing of the plan is left, or the plan was empty from the start.
CompleteJob(w) ==
    /\ wk[w].pc = "scan" /\ wk[w].row.index > Len(wk[w].row.plan)
    /\ Finish(w, "completed")
    /\ UNCHANGED <<tip, removed, live, scanned, owed, plans, troubles>>

\* The RPC budget of the cycle is spent: the cycle ends, the job goes on later.
BudgetSpent(w) ==
    /\ wk[w].pc = "plan" \/ (wk[w].pc = "scan" /\ wk[w].row.index <= Len(wk[w].row.plan))
    /\ Trouble
    /\ Release(w, 0, "idle")
    /\ UNCHANGED <<tip, removed, live, scanned, owed, plans>>

\* Any other exception; what was committed stays.  A mismatched chain stops the
\* job at once.
JobFails(w) ==
    /\ wk[w].pc \in {"plan", "scan"} /\ Trouble
    /\ FailedAttempt(w) \/ Finish(w, Stopped(jobs[wk[w].id]))
    /\ UNCHANGED <<tip, removed, live, scanned, owed, plans>>

Crash(w) ==
    /\ wk[w].pc # "idle" /\ Trouble
    /\ Leave(w, "idle")
    /\ UNCHANGED <<tip, removed, jobs, live, scanned, owed, plans>>
-----------------------------------------------------------------------------
(* ... and then the live tail. *)

\* poll_target: from the cursor of the claimed row to the confirmed tip that
\* this cycle saw, at most MaxPerPoll blocks.
\* mutant: one more confirmation than configured
SafeTipLate == IF tip > Confirmations + 1 THEN tip - Confirmations - 1 ELSE NoBlock
SafeTip == IF tip > Confirmations THEN tip - Confirmations ELSE NoBlock

LiveStart == IF live.last = NoBlock THEN Probed ELSE live.last

\* mutant: the confirmed tip does not bound the poll
PollEndUnbound == LiveStart + MaxPerPoll
PollEnd == Least(SafeTip, LiveStart + MaxPerPoll)

ClaimTarget(w) ==
    /\ wk[w].pc = "poll" \/ (wk[w].pc = "idle" /\ Claimable = {})
    /\ ~removed /\ ~live.leased
    /\ live' = [live EXCEPT !.leased = TRUE]
    /\ wk' = [wk EXCEPT ![w] =
                 [Resting EXCEPT !.pc = "tail", !.last = LiveStart, !.to = PollEnd]]
    /\ UNCHANGED <<tip, removed, jobs, scanned, owed, plans, troubles>>

NoTarget(w) ==
    /\ wk[w].pc = "poll" /\ (removed \/ live.leased)
    /\ Leave(w, "idle")
    /\ UNCHANGED <<tip, removed, jobs, live, scanned, owed, plans, troubles>>

\* mutant: the cursor goes to the end of the poll with its first chunk
PollChunkAhead(w) ==
    LET last == wk[w].last IN
    /\ wk[w].pc = "tail" /\ last < wk[w].to
    /\ \E to \in Chunk(last + 1, wk[w].to) :
        /\ scanned' = scanned \cup (last + 1 .. to)
        /\ live' = [live EXCEPT !.last = wk[w].to]
        /\ wk' = [wk EXCEPT ![w].last = to]
    /\ UNCHANGED <<tip, removed, jobs, owed, plans, troubles>>
PollChunk(w) ==
    LET last == wk[w].last IN
    /\ wk[w].pc = "tail" /\ last < wk[w].to
    /\ \E to \in Chunk(last + 1, wk[w].to) :
        /\ scanned' = scanned \cup (last + 1 .. to)
        /\ live' = [live EXCEPT !.last = to]
        /\ wk' = [wk EXCEPT ![w].last = to]
    /\ UNCHANGED <<tip, removed, jobs, owed, plans, troubles>>

EndPoll(w) ==
    /\ wk[w].pc = "tail"
    /\ (wk[w].last >= wk[w].to /\ UNCHANGED troubles) \/ Trouble
    /\ live' = [live EXCEPT !.leased = FALSE]
    /\ Leave(w, "idle")
    /\ UNCHANGED <<tip, removed, jobs, scanned, owed, plans>>
-----------------------------------------------------------------------------
JobStep(w) == \/ TargetGone(w) \/ StartJob(w) \/ PlanJob(w) \/ ScanChunk(w)
              \/ EndRange(w) \/ CompleteJob(w)
TailStep(w) == NoTarget(w) \/ PollChunk(w) \/ EndPoll(w)

Next ==
    \/ TriggerBackfill \/ RemoveTarget \/ NewBlock
    \/ \E j \in 1 .. Len(jobs) : LeaseEnds(j) \/ LeaseOverrun(j)
    \/ TailLeaseEnds \/ TailLeaseOverrun
    \/ \E w \in Workers : \/ ClaimBackfill(w) \/ JobStep(w) \/ NetworkDown(w)
                          \/ BudgetSpent(w) \/ JobFails(w) \/ Crash(w)
                          \/ ClaimTarget(w) \/ TailStep(w)

Spec == Init /\ [][Next]_vars

\* The workers keep cycling, leases run out, and a cycle that looks for targets
\* finds the lease free from time to time.
FairSpec ==
    /\ Spec
    /\ \A w \in Workers : WF_vars(ClaimBackfill(w) \/ JobStep(w) \/ TailStep(w))
    /\ SF_vars(\E w \in Workers : ClaimTarget(w))
    /\ WF_vars((\E j \in 1 .. Len(jobs) : LeaseEnds(j)) \/ TailLeaseEnds)
-----------------------------------------------------------------------------
(* Properties. *)

PlannedOnce == \A j \in 1 .. Len(jobs) : plans[j] <= 1

\* What covered_spans derives from the progress of a job was read: no worker
\* that outlived its lease, failed or crashed leaves a cursor past a block
\* nobody scanned, as long as each job is planned only once.
CoverageIsReal ==
    PlannedOnce => \A j \in 1 .. Len(jobs) : Covered(jobs[j]) \subseteq scanned

\* A plan is the window less what other backfills had scanned, in ranges that
\* are in order and do not touch (subtract_ranges).
PlansAreExact ==
    \A j \in 1 .. Len(jobs) : jobs[j].planned =>
        /\ InRanges(jobs[j].plan) = owed[j]
        /\ \A i \in 1 .. Len(jobs[j].plan) :
              /\ jobs[j].plan[i][1] <= jobs[j].plan[i][2]
              /\ i > 1 => jobs[j].plan[i - 1][2] + 1 < jobs[j].plan[i][1]

\* The whole window of a completed backfill was read, by it or by an earlier
\* one, as long as each job is planned only once.
CompletedWindowsAreRead ==
    PlannedOnce => \A j \in 1 .. Len(jobs) :
        jobs[j].status = "completed" => jobs[j].start .. Probed \subseteq scanned

\* The live tail leaves no block out between its start and its cursor, with two
\* pollers and a cursor that is written by id.
LiveTailHasNoGap ==
    live.last # NoBlock => Probed + 1 .. live.last \subseteq scanned

\* Every backfill ends: there is no job that stays open for ever, however its
\* workers fail.  (A target has one open job at a time, and few jobs.)
BackfillsEnd == []<>(\A j \in 1 .. Len(jobs) : jobs[j].status \in Settled)

\* Unless the target is removed, every confirmed block is polled in the end.
\* (The chain stops growing at MaxTip.)
LiveTailCatchesUp ==
    []<>(removed \/ \A b \in Probed + 1 .. tip : b + Confirmations <= tip => b \in scanned)

\* backfill.py, terminal states: "completed   every planned block scanned".
\* Stated for jobs that no worker has in hand any more.
CompletedMeansScanned ==
    \A j \in 1 .. Len(jobs) :
        jobs[j].status = "completed" /\ ~InHand(j) => InRanges(jobs[j].plan) \subseteq scanned
=============================================================================
