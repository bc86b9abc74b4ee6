--------------------------- MODULE AssetRiskJobs ---------------------------
(***************************************************************************)
(* The job queue of the Asset Risk Assessor: worker replicas               *)
(* (domains/asset_risk/worker.py), the Run-assessment endpoint and the     *)
(* creation of an asset (domains/asset_risk/registry.py), and the summary  *)
(* endpoint that reconciles stuck jobs (domains/asset_risk/summary.py).    *)
(*                                                                         *)
(* Every actor works in one PostgreSQL transaction at a time.  A job that  *)
(* was inserted or claimed shows as such to nobody before the commit that  *)
(* also ends its assessment: 'running' and a lease are never committed by  *)
(* this code, so a job row here is queued or settled, and what keeps two   *)
(* actors off one asset is the row lock of the claim and the unique index  *)
(* of active jobs.                                                         *)
(***************************************************************************)
EXTENDS Naturals, Sequences, FiniteSets

CONSTANTS Assets,       \* numbered in the order the query of due assets returns
                        \* them (its ties are broken alike in every replica)
          Workers,      \* replicas of the assessor worker
          Requests,     \* calls of the endpoint and creations of assets
          MaxAttempts,  \* max_attempts of every job
          BatchSize,    \* rows enqueued, and jobs claimed, in one cycle
          MaxMishaps    \* bound: failed assessments, crashes, timeouts that pass,
                        \* deletions and assessments that go stale

NoAsset == 0

ASSUME BoundsAssumption ==
    /\ MaxAttempts \in Nat \ {0} /\ BatchSize \in Nat \ {0}
    /\ MaxMishaps \in Nat
    /\ Assets \subseteq Nat \ {0} /\ Workers \cap Requests = {}

VARIABLES
    onDemand, \* configuration: assessments may run inside a request
    assets,   \* assets[a]: the committed row of a
    fresh,    \* fresh[a]: a has an assessment younger than the staleness limit
    jobs,     \* committed jobs, in the order of their creation
    proc,     \* proc[p]: the transaction and the place of p in its code
    healthy,  \* a worker heartbeat within its time to live
    judged,   \* a call of the summary endpoint has found no healthy worker, and
              \* its reconciliation is still to come
    aged,     \* jobs queued for longer than the queue timeout
    tries,    \* history: what became of the assessments workers began for a job
    mishaps

vars == <<onDemand, assets, fresh, jobs, proc, healthy, judged, aged, tries,
          mishaps>>

Procs   == Workers \cup Requests
Active  == {"queued"}
Settled == {"completed", "failed", "cancelled", "blocked"}
Job     == [asset : Assets, status : Active \cup Settled, attempts : Nat]
Proc    == [pc : {"idle", "enqueue", "insert", "batch", "claimed", "assess", "inline",
                   "done"},
            todo : SUBSET Assets,          \* due assets still to enqueue
            at : Assets \cup {NoAsset},    \* asset of the statement under way
            mine : SUBSET Assets,          \* its uncommitted job inserts
            claim : Nat,                   \* the job whose row it has locked, or 0
            left : Nat]                    \* claims left in this cycle
Try     == [failed : Nat,    \* of these assessments, those that failed,
            undone : Nat,    \* and those that failed and left no trace
            inline : BOOLEAN]\* the job was settled by the request that queued it
Idle    == [pc |-> "idle", todo |-> {}, at |-> NoAsset, mine |-> {}, claim |-> 0,
            left |-> 0]

TypeOK ==
    /\ onDemand \in BOOLEAN /\ healthy \in BOOLEAN /\ judged \in BOOLEAN
    /\ assets \in [Assets -> {"absent", "live", "deleted"}]
    /\ fresh \in [Assets -> BOOLEAN]
    /\ jobs \in Seq(Job)
    /\ proc \in [Procs -> Proc]
    /\ aged \subseteq 1 .. Len(jobs)
    /\ tries \in Seq(Try) /\ Len(tries) = Len(jobs)
    /\ mishaps \in 0 .. MaxMishaps

Init ==
    /\ onDemand \in BOOLEAN
    /\ assets \in [Assets -> {"absent", "live"}]
    /\ fresh = [a \in Assets |-> FALSE]
    /\ jobs = <<>> /\ tries = <<>>
    /\ proc = [p \in Procs |-> Idle]
    /\ healthy = FALSE /\ judged = FALSE /\ aged = {}
    /\ mishaps = 0

Mishap == mishaps < MaxMishaps /\ mishaps' = mishaps + 1
-----------------------------------------------------------------------------
(* Rows, locks and the unique index of active jobs. *)

Locked(j) == \E p \in Procs : proc[p].claim = j

ActiveJobs(a) == {j \in 1 .. Len(jobs) : jobs[j].asset = a /\ jobs[j].status \in Active}

\* An insert of a job of a waits for a transaction that has inserted one, or
\* that has written the active one and may yet settle it.
Waits(p, a) ==
    \/ \E q \in Procs \ {p} : a \in proc[q].mine
    \/ \E j \in ActiveJobs(a) : Locked(j)

\* The insert would break the unique index.
ClashWithout(a) == FALSE \* mutant: no such index
Clash(a) == ActiveJobs(a) # {}

\* Commit the inserts of S as jobs that are queued, in any order.
Orders(S) == {f \in [1 .. Cardinality(S) -> S] :
                 \A i, k \in 1 .. Cardinality(S) : f[i] = f[k] => i = k}
Untried == [failed |-> 0, undone |-> 0, inline |-> FALSE]
NewJob(a, status, n) == [asset |-> a, status |-> status, attempts |-> n]
CommitInserts(S) ==
    \E order \in Orders(S) :
        /\ jobs' = jobs \o [i \in 1 .. Cardinality(S) |-> NewJob(order[i], "queued", 0)]
        /\ tries' = tries \o [i \in 1 .. Cardinality(S) |-> Untried]
CommitOne(a, status, n) ==
    /\ jobs' = Append(jobs, NewJob(a, status, n))
    /\ tries' = Append(tries, [Untried EXCEPT !.inline = TRUE])
-----------------------------------------------------------------------------
(* A worker cycle: enqueue what is due in one transaction ... *)

\* mutant: a settled job, too, keeps its asset from being enqueued again
DueOnce == {a \in Assets : assets[a] = "live" /\ ~fresh[a]
                           /\ \A j \in 1 .. Len(jobs) : jobs[j].asset # a}
Due == {a \in Assets : assets[a] = "live" /\ ~fresh[a] /\ ActiveJobs(a) = {}}

\* The heartbeat commits; the next transaction selects the due assets.
BeginCycle(w) ==
    /\ proc[w].pc = "idle"
    /\ healthy' = TRUE
    /\ proc' = [proc EXCEPT ![w] = [Idle EXCEPT !.pc = "enqueue", !.left = BatchSize,
                  !.todo = {a \in Due : Cardinality({b \in Due : b < a}) < BatchSize}]]
    /\ UNCHANGED <<onDemand, judged, assets, fresh, jobs, aged, tries, mishaps>>

\* enqueue_assessment, its first look: an active job already exists, or not.
LookForActive(w) ==
    /\ proc[w].pc = "enqueue"
    /\ \E a \in proc[w].todo :
        /\ \A b \in proc[w].todo : a <= b
        /\ proc' = [proc EXCEPT ![w].todo = @ \ {a},
                                ![w].pc = IF Clash(a) THEN @ ELSE "insert",
                                ![w].at = IF Clash(a) THEN @ ELSE a]
    /\ UNCHANGED <<onDemand, assets, fresh, jobs, healthy, judged, aged, tries, mishaps>>

\* The insert of enqueue_assessment.  A lost race fails it, and the look that
\* follows fails with it, in a transaction that is already aborted: everything
\* the cycle has inserted is lost, and it goes on to its claims.
InsertDue(w) ==
    /\ proc[w].pc = "insert" /\ ~Waits(w, proc[w].at)
    /\ proc' = [proc EXCEPT ![w] =
          IF Clash(@.at) THEN [Idle EXCEPT !.pc = "batch", !.left = proc[w].left]
          ELSE [@ EXCEPT !.pc = "enqueue", !.at = NoAsset,
                         !.mine = proc[w].mine \cup {proc[w].at}]]
    /\ UNCHANGED <<onDemand, assets, fresh, jobs, healthy, judged, aged, tries, mishaps>>

CommitDue(w) ==
    /\ proc[w].pc = "enqueue" /\ proc[w].todo = {}
    /\ CommitInserts(proc[w].mine)
    /\ proc' = [proc EXCEPT ![w].pc = "batch", ![w].mine = {}]
    /\ UNCHANGED <<onDemand, assets, fresh, healthy, judged, aged, mishaps>>
-----------------------------------------------------------------------------
(* ... then claim and assess up to BatchSize jobs, each in one transaction. *)

\* FOR UPDATE SKIP LOCKED over the queued jobs
\* mutants: locked rows are not skipped; a retried job is not picked up
ClaimableLocked == {j \in 1 .. Len(jobs) : jobs[j].status \in Active}
ClaimableFirst  == {j \in 1 .. Len(jobs) : jobs[j].status \in Active /\ ~Locked(j)
                                           /\ jobs[j].attempts = 0}
Claimable == {j \in 1 .. Len(jobs) : jobs[j].status \in Active /\ ~Locked(j)}

ClaimNextJob(w) ==
    /\ proc[w].pc = "batch"
    /\ IF proc[w].left = 0 \/ Claimable = {}
       THEN proc' = [proc EXCEPT ![w] = Idle]
       ELSE \E j \in Claimable :
               /\ \A k \in Claimable : j <= k
               /\ proc' = [proc EXCEPT ![w].pc = "claimed", ![w].claim = j,
                                       ![w].at = jobs[j].asset, ![w].left = @ - 1]
    /\ UNCHANGED <<onDemand, assets, fresh, jobs, healthy, judged, aged, tries, mishaps>>

\* The claim and what came of it become visible together.
\* mutant: the job takes the status of the assessment
SettleAsOutcome(w, status) ==
    /\ jobs' = [jobs EXCEPT ![proc[w].claim].status =
                                IF status = "completed" THEN "partial" ELSE status,
                            ![proc[w].claim].attempts = @ + 1]
    /\ proc' = [proc EXCEPT ![w] = [Idle EXCEPT !.pc = "batch", !.left = proc[w].left]]
Settle(w, status) ==
    /\ jobs' = [jobs EXCEPT ![proc[w].claim].status = status,
                            ![proc[w].claim].attempts = @ + 1]
    /\ proc' = [proc EXCEPT ![w] = [Idle EXCEPT !.pc = "batch", !.left = proc[w].left]]

\* The asset row is read once, and what was read is what is assessed.
CancelDeleted(w) ==
    /\ proc[w].pc = "claimed" /\ assets[proc[w].at] = "deleted"
    /\ Settle(w, "cancelled")
    /\ UNCHANGED <<onDemand, assets, fresh, healthy, judged, aged, tries, mishaps>>

FindAsset(w) ==
    /\ proc[w].pc = "claimed" /\ assets[proc[w].at] = "live"
    /\ proc' = [proc EXCEPT ![w].pc = "assess"]
    /\ UNCHANGED <<onDemand, assets, fresh, jobs, healthy, judged, aged, tries, mishaps>>

AssessJob(w) ==
    /\ proc[w].pc = "assess"
    /\ Settle(w, "completed")
    /\ fresh' = [fresh EXCEPT ![proc[w].at] = TRUE]
    /\ UNCHANGED <<onDemand, assets, healthy, judged, aged, tries, mishaps>>

SpentEarly(j) == jobs[j].attempts + 2 >= MaxAttempts \* mutant: off by one
Spent(j) == jobs[j].attempts + 1 >= MaxAttempts
Blame(j, undone) ==
    tries' = [tries EXCEPT ![j].failed = @ + 1, ![j].undone = @ + undone]

\* The assessment raised outside the database: the attempt is committed, with
\* whatever the assessment had written, its own row included.
AssessmentRaises(w) ==
    /\ proc[w].pc = "assess"
    /\ Mishap
    /\ Settle(w, IF Spent(proc[w].claim) THEN "failed" ELSE "queued")
    /\ Blame(proc[w].claim, 0)
    /\ \E written \in BOOLEAN : fresh' = [fresh EXCEPT ![proc[w].at] = @ \/ written]
    /\ UNCHANGED <<onDemand, assets, healthy, judged, aged>>

\* A statement failed, of the assessment or the read of the asset row: the transaction is aborted, the update
\* of the job's status fails in it, and the claim is undone with the rest.
AssessmentAborts(w) ==
    /\ proc[w].pc \in {"claimed", "assess"}
    /\ Mishap
    /\ proc' = [proc EXCEPT ![w] = [Idle EXCEPT !.pc = "batch", !.left = proc[w].left]]
    /\ Blame(proc[w].claim, 1)
    /\ UNCHANGED <<onDemand, assets, fresh, jobs, healthy, judged, aged>>

\* The replica dies; PostgreSQL rolls its transaction back.
Crash(w) ==
    /\ proc[w].pc # "idle"
    /\ Mishap
    /\ proc' = [proc EXCEPT ![w] = Idle]
    /\ UNCHANGED <<onDemand, assets, fresh, jobs, healthy, judged, aged, tries>>
-----------------------------------------------------------------------------
(* The Run-assessment endpoint and the creation of an asset. *)

Answer(r) == proc' = [proc EXCEPT ![r] = [Idle EXCEPT !.pc = "done"]]

\* Execution mode, then the first look of enqueue_assessment: 503, deduplicated,
\* or on to the insert.
Trigger(r) ==
    /\ proc[r].pc = "idle"
    /\ \E a \in Assets :
        /\ assets[a] = "live"
        /\ IF (onDemand \/ healthy) /\ ~Clash(a)
           THEN proc' = [proc EXCEPT ![r].pc = "insert", ![r].at = a]
           ELSE Answer(r)
    /\ UNCHANGED <<onDemand, assets, fresh, jobs, healthy, judged, aged, tries, mishaps>>

\* The insert: on a lost race the call fails.  In background mode it commits,
\* on demand the same transaction claims the job and assesses the asset.
InsertTriggered(r) ==
    LET a == proc[r].at IN
    /\ proc[r].pc = "insert" /\ ~Waits(r, a)
    /\ \/ Clash(a) /\ Answer(r) /\ UNCHANGED <<jobs, tries>>
       \/ /\ ~Clash(a) /\ onDemand
          /\ proc' = [proc EXCEPT ![r].pc = "inline", ![r].mine = {a}]
          /\ UNCHANGED <<jobs, tries>>
       \/ ~Clash(a) /\ ~onDemand /\ CommitInserts({a}) /\ Answer(r)
    /\ UNCHANGED <<onDemand, assets, fresh, healthy, judged, aged, mishaps>>

\* create_asset up to persist_registry_fields: the asset row, the job and the
\* initial assessment belong to one transaction that nobody else can wait for.
BeginCreation(r) ==
    /\ proc[r].pc = "idle"
    /\ \E a \in Assets :
        /\ assets[a] = "absent" /\ \A q \in Procs : a \notin proc[q].mine
        /\ IF onDemand
           THEN /\ proc' = [proc EXCEPT ![r].pc = "inline", ![r].at = a, ![r].mine = {a}]
                /\ UNCHANGED <<assets, jobs, tries>>
           ELSE /\ assets' = [assets EXCEPT ![a] = "live"]
                /\ CommitInserts({a}) /\ Answer(r)
    /\ UNCHANGED <<onDemand, fresh, healthy, judged, aged, mishaps>>

Creating(r) == assets[proc[r].at] = "absent"
KeepAsset(r) == assets' = IF Creating(r) THEN [assets EXCEPT ![proc[r].at] = "live"]
                                         ELSE assets

AssessInline(r) ==
    /\ proc[r].pc = "inline"
    /\ KeepAsset(r)
    /\ CommitOne(proc[r].at, "completed", IF Creating(r) THEN 0 ELSE 1)
    /\ fresh' = [fresh EXCEPT ![proc[r].at] = TRUE]
    /\ Answer(r)
    /\ UNCHANGED <<onDemand, healthy, judged, aged, mishaps>>

\* Raised outside the database: a triggered job is committed as failed, an
\* asset is created with its job left in the queue.
InlineRaises(r) ==
    /\ proc[r].pc = "inline"
    /\ Mishap
    /\ KeepAsset(r)
    /\ IF Creating(r) THEN CommitInserts({proc[r].at}) /\ Answer(r)
                      ELSE CommitOne(proc[r].at, "failed", 1) /\ Answer(r)
    /\ \E written \in BOOLEAN : fresh' = [fresh EXCEPT ![proc[r].at] = @ \/ written]
    /\ UNCHANGED <<onDemand, healthy, judged, aged>>

\* A failed statement: what the handler writes next fails too, and the job, or
\* the asset under creation, is rolled back.
InlineAborts(r) ==
    /\ proc[r].pc = "inline"
    /\ Mishap
    /\ Answer(r)
    /\ UNCHANGED <<onDemand, assets, fresh, jobs, healthy, judged, aged, tries>>
-----------------------------------------------------------------------------
(* Time, users and the summary endpoint. *)

GoStale(a) ==
    /\ Mishap /\ fresh[a] /\ fresh' = [fresh EXCEPT ![a] = FALSE]
    /\ UNCHANGED <<onDemand, assets, jobs, proc, healthy, judged, aged, tries>>

DeleteAsset(a) ==
    /\ Mishap /\ assets[a] = "live" /\ assets' = [assets EXCEPT ![a] = "deleted"]
    /\ UNCHANGED <<onDemand, fresh, jobs, proc, healthy, judged, aged, tries>>

\* The heartbeat's time to live passes, or the queue timeout of what is queued.
TimePasses ==
    /\ Mishap /\ healthy' \in {healthy, FALSE}
    /\ aged' \in {aged, aged \cup {j \in 1 .. Len(jobs) : jobs[j].status \in Active}}
    /\ UNCHANGED <<onDemand, assets, fresh, jobs, proc, judged, tries>>

\* The summary endpoint looks at the heartbeats, and reconciles afterwards on what
\* it saw, whoever has started meanwhile; several calls may have seen the same.
JudgeWorkers ==
    /\ ~healthy /\ judged' = TRUE
    /\ UNCHANGED <<onDemand, assets, fresh, jobs, proc, healthy, aged, tries, mishaps>>

\* reconcile_stuck_jobs: one update, which waits for locked rows and looks at
\* their status again once it has them.
StuckOnce == aged \* mutant: the status is not looked at again
Stuck == {j \in aged : jobs[j].status \in Active}
ReconcileStuckJobs ==
    /\ judged /\ Stuck # {} /\ \A j \in Stuck : ~Locked(j)
    /\ jobs' = [j \in 1 .. Len(jobs) |->
                  IF j \in Stuck THEN [jobs[j] EXCEPT !.status = "blocked"] ELSE jobs[j]]
    /\ aged' = {}
    /\ UNCHANGED <<onDemand, assets, fresh, proc, healthy, judged, tries, mishaps>>
-----------------------------------------------------------------------------
WorkerStep(w) ==
    \/ BeginCycle(w) \/ LookForActive(w) \/ InsertDue(w) \/ CommitDue(w)
    \/ ClaimNextJob(w) \/ CancelDeleted(w) \/ FindAsset(w) \/ AssessJob(w)

RequestStep(r) == InsertTriggered(r) \/ AssessInline(r)

Next ==
    \/ \E w \in Workers : \/ WorkerStep(w) \/ AssessmentRaises(w)
                          \/ AssessmentAborts(w) \/ Crash(w)
    \/ \E r \in Requests : \/ RequestStep(r) \/ Trigger(r) \/ BeginCreation(r)
                           \/ InlineRaises(r) \/ InlineAborts(r)
    \/ \E a \in Assets : GoStale(a) \/ DeleteAsset(a)
    \/ TimePasses \/ JudgeWorkers \/ ReconcileStuckJobs

Spec == Init /\ [][Next]_vars

\* Each replica keeps cycling and each request runs on, and an insert that waits
\* for transactions which come and go is let through; nothing is assumed of
\* users, of time or of failures.
FairSpec == /\ Spec
            /\ \A w \in Workers : WF_vars(WorkerStep(w)) /\ SF_vars(InsertDue(w))
            /\ \A r \in Requests : WF_vars(RequestStep(r))
-----------------------------------------------------------------------------
(* Properties. *)

\* At most one job of an asset is active, whoever enqueued it (the worker, the
\* endpoint, the creation), as the header of worker.py promises.
OneActiveJobPerAsset == \A a \in Assets : \A j, k \in ActiveJobs(a) : j = k

\* No two actors assess one asset at the same time: neither two replicas, nor
\* a replica and an inline run.
Assessing(p) == proc[p].pc \in {"claimed", "assess", "inline"}
NoTwoAssessAtOnce ==
    \A p, q \in Procs : p # q /\ Assessing(p) /\ Assessing(q) => proc[p].at # proc[q].at

\* A worker gives a job up at its last attempt and not before: one that waits has
\* attempts left, one that was given up has none, and either counts every failed
\* assessment whose attempt was not undone with it.  Inline runs are never retried.
AttemptsDecide ==
    \A j \in 1 .. Len(jobs) : ~tries[j].inline =>
        /\ jobs[j].status = "queued" => jobs[j].attempts < MaxAttempts
        /\ jobs[j].status = "failed" => jobs[j].attempts = MaxAttempts
        /\ jobs[j].status \in {"queued", "failed"} =>
              jobs[j].attempts + tries[j].undone = tries[j].failed

\* A settled job keeps its status and its attempts: a late reconcile, a claim
\* or an inline run never writes over an outcome.
SettledJobsStaySettled ==
    [][\A j \in 1 .. Len(jobs) : jobs[j].status \in Settled => jobs'[j] = jobs[j]]_vars

\* Every queued job is settled in the end: none stays pending for ever, however
\* the claims, lost races, crashes and reconciles fall.
NoJobPendsForever ==
    \A a \in Assets : ActiveJobs(a) # {} ~> ActiveJobs(a) = {}

\* An asset whose assessment is missing or stale is assessed in the end, lost
\* enqueue batches and blocked jobs notwithstanding, unless it is deleted.
DueAssetsAreAssessed ==
    \A a \in Assets :
        assets[a] = "live" /\ ~fresh[a] ~> fresh[a] \/ assets[a] = "deleted"

\* worker.py, header: a failing asset is "retried with bounded attempts".
BoundedAttempts == \A j \in 1 .. Len(tries) : tries[j].failed <= MaxAttempts

=============================================================================
