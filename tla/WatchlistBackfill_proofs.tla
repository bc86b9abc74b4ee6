---------------------- MODULE WatchlistBackfill_proofs ----------------------
(***************************************************************************)
(* The jobs of WatchlistBackfill and their plans, and after them its live  *)
(* tail, for any number of workers, jobs and blocks, with overrun leases,  *)
(* failures, outages and crashes.                                          *)
(*                                                                         *)
(* A worker goes by the row that its claim or its plan gave it, which may  *)
(* be behind the row of the table or ahead of it.  What is inductive       *)
(* (WatchInv) is that the two have the same plan and that the blocks that  *)
(* EACH of them covers were read: whichever is written next, what the      *)
(* table says was done was done.  A second plan of a job breaks this, and  *)
(* so the part about reading is stated while every job is planned at most  *)
(* once; the plans themselves are exact without that condition, by the     *)
(* exactness of subtract_ranges (WatchlistRanges_proofs).                  *)
(***************************************************************************)
EXTENDS WatchlistBackfill, WatchlistRanges_proofs, TLAPS

-----------------------------------------------------------------------------
(* The rows of backfills, whose plans stay within the blocks before the tail. *)

Span == (1 .. Probed) \X (1 .. Probed)
Row  == [status : Open \cup Settled, planned : BOOLEAN, start : 0 .. Probed,
         plan : Seq(Span), index : Nat \ {0}, cursor : 0 .. Probed,
         count : Nat, attempts : Nat, leased : BOOLEAN]

\* Two rows with the same plan and progress.
SameWork(q, r) == /\ q.planned = r.planned /\ q.start = r.start /\ q.plan = r.plan
                  /\ q.index = r.index /\ q.cursor = r.cursor

LEMMA RowIsJob == ASSUME NEW r \in Row PROVE r \in Job
<1>1. Probed \in Nat /\ MaxTip \in Nat /\ Probed <= MaxTip
  BY BoundsAssumption
<1>2. Span \subseteq Blocks \X Blocks
  BY <1>1 DEF Span, Blocks
<1>3. r.plan \in Seq(Blocks \X Blocks)
  <2> DEFINE p == r.plan
  <2>1. p \in Seq(Span)
    BY DEF Row
  <2> HIDE DEF p
  <2>2. Len(p) \in Nat /\ p = [i \in 1 .. Len(p) |-> p[i]]
        /\ \A i \in 1 .. Len(p) : p[i] \in Blocks \X Blocks
    BY <1>2, <2>1
  <2> QED BY <2>2 DEF p
<1>4. r.start \in Blocks \cup {NoBlock} /\ r.cursor \in Blocks \cup {NoBlock}
  BY <1>1 DEF Row, Blocks, NoBlock
<1> QED BY <1>3, <1>4 DEF Row, Job, Ranges

LEMMA StatusSet ==
    ASSUME NEW r \in Row, NEW v \in Open \cup Settled
    PROVE  LET q == [r EXCEPT !.status = v] IN
           /\ q \in Row /\ SameWork(q, r)
           /\ q.status = v /\ q.count = r.count /\ q.attempts = r.attempts
  BY DEF Row, SameWork
LEMMA LeasedSet ==
    ASSUME NEW r \in Row, NEW v \in BOOLEAN
    PROVE  LET q == [r EXCEPT !.leased = v] IN
           /\ q \in Row /\ SameWork(q, r)
           /\ q.status = r.status /\ q.count = r.count /\ q.attempts = r.attempts
  BY DEF Row, SameWork
LEMMA AttemptsSet ==
    ASSUME NEW r \in Row, NEW v \in Nat
    PROVE  LET q == [r EXCEPT !.attempts = v] IN
           /\ q \in Row /\ SameWork(q, r)
           /\ q.status = r.status /\ q.count = r.count /\ q.attempts = v
  BY DEF Row, SameWork
LEMMA CountSet ==
    ASSUME NEW r \in Row, NEW v \in Nat
    PROVE  LET q == [r EXCEPT !.count = v] IN
           /\ q \in Row /\ SameWork(q, r)
           /\ q.status = r.status /\ q.attempts = r.attempts
  BY DEF Row, SameWork
LEMMA IndexSet ==
    ASSUME NEW r \in Row, NEW v \in Nat \ {0}
    PROVE  LET q == [r EXCEPT !.index = v] IN
           /\ q \in Row /\ q.planned = r.planned /\ q.start = r.start /\ q.plan = r.plan
           /\ q.index = v /\ q.cursor = r.cursor
           /\ q.status = r.status /\ q.count = r.count
  BY DEF Row
LEMMA CursorSet ==
    ASSUME NEW r \in Row, NEW v \in 0 .. Probed
    PROVE  LET q == [r EXCEPT !.cursor = v] IN
           /\ q \in Row /\ q.planned = r.planned /\ q.start = r.start /\ q.plan = r.plan
           /\ q.index = r.index /\ q.cursor = v
           /\ q.status = r.status /\ q.count = r.count
  BY DEF Row
LEMMA PlannedSet ==
    ASSUME NEW r \in Row, NEW v \in BOOLEAN
    PROVE  LET q == [r EXCEPT !.planned = v] IN
           /\ q \in Row /\ q.planned = v /\ q.status = r.status
  BY DEF Row
LEMMA StartSet ==
    ASSUME NEW r \in Row, NEW v \in 0 .. Probed
    PROVE  LET q == [r EXCEPT !.start = v] IN
           /\ q \in Row /\ q.planned = r.planned /\ q.start = v /\ q.status = r.status
  BY DEF Row
LEMMA PlanSet ==
    ASSUME NEW r \in Row, NEW v \in Seq(Span)
    PROVE  LET q == [r EXCEPT !.plan = v] IN
           /\ q \in Row /\ q.planned = r.planned /\ q.start = r.start /\ q.plan = v
           /\ q.status = r.status
  BY DEF Row

\* The ranges of a plan, one by one.
LEMMA PlanParts ==
    ASSUME NEW r \in Row
    PROVE  /\ Len(r.plan) \in Nat /\ r.index \in Nat /\ r.index >= 1
           /\ r.cursor \in Nat /\ r.cursor <= Probed
           /\ \A i \in 1 .. Len(r.plan) :
                /\ r.plan[i] \in Span
                /\ r.plan[i][1] \in Nat /\ 1 <= r.plan[i][1] /\ r.plan[i][1] <= Probed
                /\ r.plan[i][2] \in Nat /\ 1 <= r.plan[i][2] /\ r.plan[i][2] <= Probed
<1>1. Probed \in Nat
  BY BoundsAssumption
<1>2. r.plan \in Seq(Span) /\ r.index \in Nat \ {0} /\ r.cursor \in 0 .. Probed
  BY DEF Row
<1> DEFINE p == r.plan
<1> HIDE DEF p
<1>3. p \in Seq(Span)
  BY <1>2 DEF p
<1>4. Len(p) \in Nat /\ \A i \in 1 .. Len(p) : p[i] \in Span
  BY <1>3
<1>5. \A s \in Span : /\ s[1] \in Nat /\ 1 <= s[1] /\ s[1] <= Probed
                      /\ s[2] \in Nat /\ 1 <= s[2] /\ s[2] <= Probed
  BY <1>1 DEF Span
<1> QED BY <1>1, <1>2, <1>4, <1>5 DEF p

LEMMA TotalTyped == ASSUME NEW r \in Row PROVE Total(r) \in Nat
<1>1. InRanges(r.plan) \subseteq 0 .. Probed
  BY PlanParts, BoundsAssumption DEF InRanges, InRange
<1>2. IsFiniteSet(InRanges(r.plan))
  <2>1. IsFiniteSet(0 .. Probed)
    BY FS_Interval, BoundsAssumption
  <2> QED BY <1>1, <2>1, FS_Subset
<1> QED BY <1>2, FS_CardinalityType DEF Total

-----------------------------------------------------------------------------
(* What the progress of a row covers. *)

LEMMA CoveredBlocks ==
    ASSUME NEW r \in Row, NEW b
    PROVE  b \in Covered(r) <=>
             \/ \E i \in 1 .. Len(r.plan) : i < r.index /\ b \in InRange(r.plan[i])
             \/ /\ r.index <= Len(r.plan) /\ r.cursor >= r.plan[r.index][1]
                /\ b \in r.plan[r.index][1] .. Least(r.cursor, r.plan[r.index][2])
<1> DEFINE A == {r.plan[i] : i \in {k \in 1 .. Len(r.plan) : k < r.index}}
           last == <<r.plan[r.index][1], Least(r.cursor, r.plan[r.index][2])>>
           P == r.index <= Len(r.plan) /\ r.cursor >= r.plan[r.index][1]
           B == IF P THEN {last} ELSE {}
<1>1. CoveredSpans(r) = A \cup B
  BY DEF CoveredSpans, Least
<1>2. b \in Covered(r) <=> \E s \in A \cup B : b \in InRange(s)
  BY <1>1 DEF Covered
<1>3. (\E s \in A : b \in InRange(s))
        <=> \E i \in 1 .. Len(r.plan) : i < r.index /\ b \in InRange(r.plan[i])
  OBVIOUS
<1>4. (\E s \in B : b \in InRange(s)) <=> P /\ b \in InRange(last)
  OBVIOUS
<1>5. InRange(last) = r.plan[r.index][1] .. Least(r.cursor, r.plan[r.index][2])
  BY DEF InRange
<1> HIDE DEF A, B, last
<1> QED BY <1>2, <1>3, <1>4, <1>5

LEMMA SpansTyped ==
    ASSUME NEW r \in Row
    PROVE  CoveredSpans(r) \subseteq Span
<1> DEFINE A == {r.plan[i] : i \in {k \in 1 .. Len(r.plan) : k < r.index}}
           last == <<r.plan[r.index][1], Least(r.cursor, r.plan[r.index][2])>>
           P == r.index <= Len(r.plan) /\ r.cursor >= r.plan[r.index][1]
           B == IF P THEN {last} ELSE {}
<1>1. CoveredSpans(r) = A \cup B
  BY DEF CoveredSpans, Least
<1>2. A \subseteq Span
  BY PlanParts
<1>3. B \subseteq Span
  <2> SUFFICES ASSUME P PROVE last \in Span
    OBVIOUS
  <2>1. r.index \in 1 .. Len(r.plan) /\ Probed \in Nat
    BY PlanParts, BoundsAssumption
  <2>2. r.plan[r.index][1] \in 1 .. Probed
    BY <2>1, PlanParts
  <2>3. Least(r.cursor, r.plan[r.index][2]) \in 1 .. Probed
    BY <2>1, PlanParts DEF Least
  <2> QED BY <2>2, <2>3 DEF Span
<1> HIDE DEF A, B
<1> QED BY <1>1, <1>2, <1>3

LEMMA SpansFinite == Span \subseteq Pair /\ IsFiniteSet(Span)
<1>1. IsFiniteSet(1 .. Probed)
  BY FS_Interval, BoundsAssumption
<1>2. IsFiniteSet(Span)
  BY <1>1, FS_Product DEF Span
<1> QED BY <1>2, BoundsAssumption DEF Span, Pair

LEMMA SameCovered ==
    ASSUME NEW q, NEW r, q.plan = r.plan, q.index = r.index, q.cursor = r.cursor
    PROVE  Covered(q) = Covered(r)
  BY DEF Covered, CoveredSpans

\* A plan that was just made covers nothing yet.
LEMMA FreshCovered ==
    ASSUME NEW r \in Row, r.index = 1, r.cursor = NoBlock
    PROVE  Covered(r) = {}
<1> SUFFICES ASSUME NEW b \in Covered(r) PROVE FALSE
  OBVIOUS
<1>1. ~(\E i \in 1 .. Len(r.plan) : i < r.index /\ b \in InRange(r.plan[i]))
  BY PlanParts
<1>2. ~(r.index <= Len(r.plan) /\ r.cursor >= r.plan[r.index][1])
  <2> SUFFICES ASSUME 1 <= Len(r.plan) PROVE ~(0 >= r.plan[1][1])
    BY DEF NoBlock
  <2>1. 1 \in 1 .. Len(r.plan)
    BY PlanParts
  <2> QED BY <2>1, PlanParts
<1> QED BY <1>1, <1>2, CoveredBlocks

\* The chunk after the cursor begins where what is covered of its range ends.
LEMMA ChunkCovered ==
    ASSUME NEW r \in Row, r.index <= Len(r.plan),
           NEW to \in Chunk(NextBlock(r), r.plan[r.index][2]),
           NEW q \in Row, q.plan = r.plan, q.index = r.index, q.cursor = to
    PROVE  Covered(q) \subseteq Covered(r) \cup (NextBlock(r) .. to)
<1> DEFINE n == r.index  first == r.plan[n][1]  end == r.plan[n][2]  from == NextBlock(r)
<1>1. /\ n \in 1 .. Len(r.plan) /\ first \in Nat /\ end \in Nat /\ r.cursor \in Nat
  BY PlanParts
<1>2. from = IF r.cursor >= first THEN r.cursor + 1 ELSE first
  BY DEF NextBlock
<1>3. to \in Nat /\ from <= to /\ to <= end
  BY <1>1, <1>2 DEF Chunk
<1> SUFFICES ASSUME NEW b \in Covered(q) PROVE b \in Covered(r) \/ b \in from .. to
  OBVIOUS
<1>4. \/ \E i \in 1 .. Len(r.plan) : i < n /\ b \in InRange(r.plan[i])
      \/ b \in first .. Least(to, end)
  BY CoveredBlocks
<1>5. CASE \E i \in 1 .. Len(r.plan) : i < n /\ b \in InRange(r.plan[i])
  BY <1>5, CoveredBlocks
<1>6. CASE b \in first .. Least(to, end)
  <2>1. b \in Nat /\ first <= b /\ b <= to
    BY <1>1, <1>3, <1>6 DEF Least
  <2>2. CASE from <= b
    BY <1>1, <1>2, <1>3, <2>1, <2>2
  <2>3. CASE ~(from <= b)
    <3>1. r.cursor >= first /\ b <= r.cursor /\ b <= end
      BY <1>1, <1>2, <1>3, <2>1, <2>3
    <3>2. b \in first .. Least(r.cursor, end)
      BY <1>1, <2>1, <3>1 DEF Least
    <3> QED BY <3>1, <3>2, CoveredBlocks
  <2> QED BY <2>2, <2>3
<1> QED BY <1>4, <1>5, <1>6

LEMMA ChunkTyped ==
    ASSUME NEW r \in Row, r.index <= Len(r.plan),
           NEW to \in Chunk(NextBlock(r), r.plan[r.index][2])
    PROVE  /\ NextBlock(r) \in Nat /\ 1 <= NextBlock(r)
           /\ to \in Nat /\ NextBlock(r) <= to /\ to <= Probed
<1>1. r.index \in 1 .. Len(r.plan) /\ Probed \in Nat
  BY PlanParts, BoundsAssumption
<1>2. NextBlock(r) \in Nat /\ 1 <= NextBlock(r)
  BY <1>1, PlanParts DEF NextBlock
<1> QED BY <1>1, <1>2, PlanParts DEF Chunk

\* At the end of a range all of it is covered.
LEMMA RangeCovered ==
    ASSUME NEW r \in Row, r.index <= Len(r.plan), NextBlock(r) > r.plan[r.index][2],
           NEW q \in Row, q.plan = r.plan, q.index = r.index + 1, q.cursor = NoBlock
    PROVE  Covered(q) \subseteq Covered(r)
<1> DEFINE n == r.index  first == r.plan[n][1]  end == r.plan[n][2]
<1>1. /\ n \in 1 .. Len(r.plan) /\ first \in Nat /\ end \in Nat /\ r.cursor \in Nat
      /\ Len(r.plan) \in Nat
  BY PlanParts
<1> SUFFICES ASSUME NEW b \in Covered(q) PROVE b \in Covered(r)
  OBVIOUS
<1>2. ~(n + 1 <= Len(r.plan) /\ 0 >= r.plan[n + 1][1])
  <2> SUFFICES ASSUME n + 1 <= Len(r.plan) PROVE ~(0 >= r.plan[n + 1][1])
    OBVIOUS
  <2>1. n + 1 \in 1 .. Len(r.plan)
    BY <1>1
  <2> QED BY <2>1, PlanParts
<1>3. PICK i \in 1 .. Len(r.plan) : i < n + 1 /\ b \in InRange(r.plan[i])
  BY <1>2, CoveredBlocks DEF NoBlock
<1>4. CASE i < n
  BY <1>3, <1>4, CoveredBlocks
<1>5. CASE ~(i < n)
  <2>1. i = n
    BY <1>1, <1>3, <1>5
  <2>2. b \in Nat /\ first <= b /\ b <= end
    BY <1>1, <1>3, <2>1 DEF InRange
  <2>3. r.cursor >= first /\ end <= r.cursor
    BY <1>1, <2>2 DEF NextBlock
  <2>4. b \in first .. Least(r.cursor, end)
    BY <1>1, <2>2, <2>3 DEF Least
  <2> QED BY <1>1, <2>3, <2>4, CoveredBlocks
<1> QED BY <1>4, <1>5

\* After the last range all of the plan is.
LEMMA PlanCovered ==
    ASSUME NEW r \in Row, r.index > Len(r.plan)
    PROVE  InRanges(r.plan) \subseteq Covered(r)
<1> SUFFICES ASSUME NEW i \in 1 .. Len(r.plan), NEW b \in InRange(r.plan[i])
             PROVE  b \in Covered(r)
  BY DEF InRanges
<1>1. i < r.index
  BY PlanParts
<1> QED BY <1>1, CoveredBlocks

\* A plan stays in its window (plan_job).
LEMMA PlanTyped ==
    ASSUME NEW start \in 1 .. Probed, NEW C \in SUBSET Span
    PROVE  LET p == SubtractRanges(<<start, Probed>>, C) IN
           /\ p \in Seq(Span) /\ Blocked(p) /\ Apart(p)
           /\ InRanges(p) = (start .. Probed) \ UNION {InRange(r) : r \in C}
<1> DEFINE window == <<start, Probed>>
           p == SubtractRanges(window, C)
<1>1. Probed \in Nat /\ start \in Nat /\ 1 <= start
  BY BoundsAssumption
<1>2. window \in Pair /\ InRange(window) = start .. Probed
  BY <1>1 DEF Pair, InRange
<1> HIDE DEF window
<1>3. /\ p \in Seq(Pair) /\ Blocked(p) /\ Apart(p)
      /\ InRanges(p) = InRange(window) \ UNION {InRange(r) : r \in C}
  <2>1. C \in SUBSET Pair /\ IsFiniteSet(C)
    BY SpansFinite, FS_Subset
  <2> QED BY <1>2, <2>1, SubtractIsExact
<1> HIDE DEF p
<1>4. InRanges(p) \subseteq start .. Probed
  BY <1>2, <1>3
<1>5. ASSUME NEW i \in 1 .. Len(p) PROVE p[i] \in Span
  <2>1. p[i] \in Pair /\ p[i][1] \in Nat /\ p[i][2] \in Nat /\ p[i][1] <= p[i][2]
    BY <1>3 DEF Pair, Blocked
  <2>2. InRange(p[i]) \subseteq start .. Probed
    BY <1>4 DEF InRanges
  <2>3. p[i][1] \in start .. Probed /\ p[i][2] \in start .. Probed
    BY <2>1, <2>2 DEF InRange
  <2>4. p[i] = <<p[i][1], p[i][2]>>
    BY <2>1 DEF Pair
  <2>5. p[i][1] \in 1 .. Probed /\ p[i][2] \in 1 .. Probed
    BY <1>1, <2>3
  <2> QED BY <2>4, <2>5 DEF Span
<1>6. p \in Seq(Span)
  <2>1. Len(p) \in Nat /\ p = [i \in 1 .. Len(p) |-> p[i]]
    BY <1>3
  <2> QED BY <1>5, <2>1
<1> QED BY <1>2, <1>3, <1>6 DEF p, window

-----------------------------------------------------------------------------
(* The invariant. *)

\* A row is well formed and its plan is exact: o is what the plan had to cover,
\* n how often the job was planned.
JobGood(r, n, o) ==
    /\ r \in Row
    /\ r.planned => /\ n >= 1 /\ InRanges(r.plan) = o
                    /\ Blocked(r.plan) /\ Apart(r.plan)

\* What a row says was done was read: S is the set of blocks read.
JobRead(r, S) ==
    /\ Covered(r) \subseteq S
    /\ r.planned => (r.start .. Probed) \ InRanges(r.plan) \subseteq S
    /\ r.status = "completed" => r.planned /\ InRanges(r.plan) \subseteq S

\* A worker of a target with n jobs, while the chain is t blocks long.
InJob == {"start", "plan", "scan"}
Places == {"idle", "start", "plan", "scan", "poll", "tail"}
Hand(t) == [pc : Places, id : 0 .. MaxJobs, row : Row, last : 0 .. t, to : 0 .. t]
WorkerGood(x, n, t) ==
    /\ x \in Hand(t)
    /\ x.pc \in InJob => x.id \in 1 .. n
    /\ x.pc = "scan" => x.row.planned

\* The row in hand may be behind that of the table, J, and ahead of it, but it
\* has the same plan, and what it covers was read.
RowRead(x, J, S) ==
    x.pc \in InJob /\ x.pc # "plan" /\ x.row.planned =>
        /\ J[x.id].planned /\ x.row.plan = J[x.id].plan
        /\ Covered(x.row) \subseteq S

WorldGood ==
    /\ tip \in Probed .. MaxTip /\ removed \in BOOLEAN
    /\ live \in [last : 0 .. tip, leased : BOOLEAN]
    /\ scanned \subseteq 1 .. tip /\ troubles \in 0 .. MaxTroubles
ListsGood ==
    /\ jobs \in Seq(Row) /\ Len(jobs) <= MaxJobs
    /\ owed \in Seq(SUBSET Blocks) /\ Len(owed) = Len(jobs)
    /\ plans \in Seq(Nat) /\ Len(plans) = Len(jobs)
    /\ \A j \in 1 .. Len(jobs) : JobGood(jobs[j], plans[j], owed[j])
HandsGood ==
    /\ wk = [w \in Workers |-> wk[w]]
    /\ \A w \in Workers : WorkerGood(wk[w], Len(jobs), tip)
AllRead ==
    PlannedOnce => /\ \A j \in 1 .. Len(jobs) : JobRead(jobs[j], scanned)
                   /\ \A w \in Workers : RowRead(wk[w], jobs, scanned)

WatchInv == WorldGood /\ ListsGood /\ HandsGood /\ AllRead

-----------------------------------------------------------------------------
(* Steps that make no plan: what they do to the jobs and to the workers. *)

WorldMoves == WorldGood' /\ tip <= tip' /\ scanned \subseteq scanned'

JobsMove ==
    /\ jobs' \in Seq(Row) /\ Len(jobs') = Len(jobs) /\ owed' = owed /\ plans' = plans
    /\ \A j \in 1 .. Len(jobs) :
          /\ jobs'[j].planned = jobs[j].planned /\ jobs'[j].start = jobs[j].start
          /\ jobs'[j].plan = jobs[j].plan
          /\ PlannedOnce => Covered(jobs'[j]) \subseteq scanned'
          /\ PlannedOnce /\ jobs'[j].status = "completed" /\ jobs[j].status # "completed" =>
                jobs[j].planned /\ InRanges(jobs[j].plan) \subseteq scanned'

HandsMove ==
    /\ wk' = [w \in Workers |-> wk'[w]]
    /\ \A w \in Workers : /\ WorkerGood(wk'[w], Len(jobs), tip')
                          /\ PlannedOnce => RowRead(wk'[w], jobs, scanned')

LEMMA Moves == ASSUME WatchInv, WorldMoves, JobsMove, HandsMove PROVE WatchInv'
<1>1. WorldGood'
  BY DEF WorldMoves
<1>2. /\ jobs' \in Seq(Row) /\ Len(jobs') = Len(jobs) /\ owed' = owed /\ plans' = plans
      /\ Len(jobs) \in Nat
  BY DEF JobsMove, WatchInv, ListsGood
<1>3. ASSUME NEW j \in 1 .. Len(jobs) PROVE JobGood(jobs'[j], plans[j], owed[j])
  <2>1. jobs'[j] \in Row
    BY <1>2
  <2>2. JobGood(jobs[j], plans[j], owed[j])
    BY DEF WatchInv, ListsGood
  <2>3. jobs'[j].planned = jobs[j].planned /\ jobs'[j].plan = jobs[j].plan
    BY DEF JobsMove
  <2> QED BY <2>1, <2>2, <2>3 DEF JobGood
<1>4. ListsGood'
  BY <1>2, <1>3 DEF WatchInv, ListsGood
<1>5. HandsGood'
  BY <1>2 DEF HandsMove, HandsGood
<1>6. PlannedOnce' <=> PlannedOnce
  BY <1>2 DEF PlannedOnce
<1>7. ASSUME PlannedOnce, NEW j \in 1 .. Len(jobs) PROVE JobRead(jobs'[j], scanned')
  <2>1. JobRead(jobs[j], scanned) /\ scanned \subseteq scanned'
    BY <1>7 DEF WatchInv, AllRead, WorldMoves
  <2>2. /\ jobs'[j].planned = jobs[j].planned /\ jobs'[j].start = jobs[j].start
        /\ jobs'[j].plan = jobs[j].plan
        /\ Covered(jobs'[j]) \subseteq scanned'
        /\ jobs'[j].status = "completed" /\ jobs[j].status # "completed" =>
              jobs[j].planned /\ InRanges(jobs[j].plan) \subseteq scanned'
    BY <1>7 DEF JobsMove
  <2> QED BY <2>1, <2>2 DEF JobRead
<1>8. ASSUME PlannedOnce, NEW w \in Workers PROVE RowRead(wk'[w], jobs', scanned')
  <2>1. RowRead(wk'[w], jobs, scanned') /\ WorkerGood(wk'[w], Len(jobs), tip')
    BY <1>8 DEF HandsMove
  <2>2. wk'[w].pc \in InJob => /\ jobs'[wk'[w].id].planned = jobs[wk'[w].id].planned
                               /\ jobs'[wk'[w].id].plan = jobs[wk'[w].id].plan
    BY <2>1 DEF WorkerGood, JobsMove
  <2> QED BY <2>1, <2>2 DEF RowRead
<1>9. AllRead'
  BY <1>2, <1>6, <1>7, <1>8 DEF AllRead
<1> QED BY <1>1, <1>4, <1>5, <1>9 DEF WatchInv

LEMMA JobsStay ==
    ASSUME WatchInv, WorldMoves, jobs' = jobs, owed' = owed, plans' = plans
    PROVE  JobsMove
<1>1. PlannedOnce => \A j \in 1 .. Len(jobs) : Covered(jobs'[j]) \subseteq scanned'
  BY DEF WatchInv, AllRead, JobRead, WorldMoves
<1> QED BY <1>1 DEF WatchInv, ListsGood, JobsMove

\* One row is written: its plan is kept, its progress was read, and it is
\* completed only when all of the plan was.
LEMMA JobWritten ==
    ASSUME WatchInv, WorldMoves, owed' = owed, plans' = plans,
           NEW j \in 1 .. Len(jobs), NEW q \in Row, jobs' = [jobs EXCEPT ![j] = q],
           q.planned = jobs[j].planned, q.start = jobs[j].start, q.plan = jobs[j].plan,
           PlannedOnce => Covered(q) \subseteq scanned',
           PlannedOnce /\ q.status = "completed" /\ jobs[j].status # "completed" =>
               jobs[j].planned /\ InRanges(jobs[j].plan) \subseteq scanned'
    PROVE  JobsMove
<1>1. jobs \in Seq(Row)
  BY DEF WatchInv, ListsGood
<1>2. /\ jobs' \in Seq(Row) /\ Len(jobs') = Len(jobs) /\ jobs'[j] = q
      /\ \A k \in 1 .. Len(jobs) : k # j => jobs'[k] = jobs[k]
  BY <1>1
<1>3. PlannedOnce => \A k \in 1 .. Len(jobs) : Covered(jobs[k]) \subseteq scanned'
  BY DEF WatchInv, AllRead, JobRead, WorldMoves
<1>4. ASSUME NEW k \in 1 .. Len(jobs)
      PROVE  /\ jobs'[k].planned = jobs[k].planned /\ jobs'[k].start = jobs[k].start
             /\ jobs'[k].plan = jobs[k].plan
             /\ PlannedOnce => Covered(jobs'[k]) \subseteq scanned'
             /\ PlannedOnce /\ jobs'[k].status = "completed" /\ jobs[k].status # "completed" =>
                   jobs[k].planned /\ InRanges(jobs[k].plan) \subseteq scanned'
  <2>1. CASE k = j
    BY <1>2, <2>1
  <2>2. CASE k # j
    BY <1>2, <1>3, <2>2
  <2> QED BY <2>1, <2>2
<1> QED BY <1>2, <1>4 DEF JobsMove

\* What is known of a worker stays true as the chain grows and blocks are read.
LEMMA HandStays ==
    ASSUME WatchInv, WorldMoves, NEW w \in Workers
    PROVE  /\ WorkerGood(wk[w], Len(jobs), tip')
           /\ PlannedOnce => RowRead(wk[w], jobs, scanned')
<1>1. WorkerGood(wk[w], Len(jobs), tip) /\ (PlannedOnce => RowRead(wk[w], jobs, scanned))
  BY DEF WatchInv, HandsGood, AllRead
<1>2. tip \in Nat /\ tip' \in Nat /\ tip <= tip' /\ scanned \subseteq scanned'
  BY BoundsAssumption DEF WatchInv, WorldGood, WorldMoves
<1>3. 0 .. tip \subseteq 0 .. tip'
  BY <1>2
<1>4. Hand(tip) \subseteq Hand(tip')
  BY <1>3 DEF Hand
<1> QED BY <1>1, <1>2, <1>4 DEF WorkerGood, RowRead

LEMMA HandsStay ==
    ASSUME WatchInv, WorldMoves, wk' = wk
    PROVE  HandsMove
  BY HandStays DEF HandsMove, WatchInv, HandsGood

LEMMA HandWritten ==
    ASSUME WatchInv, WorldMoves, NEW w \in Workers, NEW x, wk' = [wk EXCEPT ![w] = x],
           WorkerGood(x, Len(jobs), tip'), PlannedOnce => RowRead(x, jobs, scanned')
    PROVE  HandsMove
<1>1. wk = [u \in Workers |-> wk[u]]
  BY DEF WatchInv, HandsGood
<1>2. /\ wk' = [u \in Workers |-> wk'[u]] /\ wk'[w] = x
      /\ \A u \in Workers : u # w => wk'[u] = wk[u]
  BY <1>1
<1>3. ASSUME NEW u \in Workers
      PROVE  /\ WorkerGood(wk'[u], Len(jobs), tip')
             /\ PlannedOnce => RowRead(wk'[u], jobs, scanned')
  <2>1. CASE u = w
    BY <1>2, <2>1
  <2>2. CASE u # w
    BY <1>2, <2>2, HandStays
  <2> QED BY <2>1, <2>2
<1> QED BY <1>2, <1>3 DEF HandsMove

LEMMA HandLeaves ==
    ASSUME WatchInv, WorldMoves, NEW w \in Workers, NEW pc \in {"idle", "poll"}, Leave(w, pc)
    PROVE  HandsMove
<1> DEFINE x == [Resting EXCEPT !.pc = pc]
<1>1. x = [pc |-> pc, id |-> 0, row |-> NewJob, last |-> 0, to |-> 0]
  BY DEF Resting, NoBlock
<1>2. NewJob \in Row
  BY BoundsAssumption DEF NewJob, Row, NoBlock, Open
<1>3. tip' \in Nat /\ MaxJobs \in Nat
  BY BoundsAssumption DEF WorldMoves, WorldGood
<1>4. WorkerGood(x, Len(jobs), tip') /\ RowRead(x, jobs, scanned')
  BY <1>1, <1>2, <1>3 DEF WorkerGood, Hand, Places, InJob, RowRead
<1>5. wk' = [wk EXCEPT ![w] = x]
  BY DEF Leave
<1> HIDE DEF x
<1> QED BY <1>4, <1>5, HandWritten

-----------------------------------------------------------------------------
(* Steps that settle a row, release it or end its lease. *)

\* A row is written with the same plan and progress, and not completed anew.
Settles(j) ==
    \E q \in Row : /\ jobs' = [jobs EXCEPT ![j] = q] /\ SameWork(q, jobs[j])
                   /\ q.status = "completed" => jobs[j].status = "completed"

LEMMA RowOf ==
    ASSUME WatchInv, NEW j \in 1 .. Len(jobs)
    PROVE  /\ jobs[j] \in Row /\ jobs[j].attempts \in Nat /\ jobs[j].count \in Nat
           /\ Stopped(jobs[j]) \in (Open \cup Settled) \ {"completed"}
<1>1. jobs[j] \in Row
  BY DEF WatchInv, ListsGood
<1> QED BY <1>1 DEF Row, Stopped, Settled

LEMMA StatusWritten ==
    ASSUME WatchInv, NEW j \in 1 .. Len(jobs), NEW s \in (Open \cup Settled) \ {"completed"},
           NEW leased \in BOOLEAN, NEW attempts \in Nat,
           \/ jobs' = [jobs EXCEPT ![j].status = s, ![j].leased = leased]
           \/ jobs' = [jobs EXCEPT ![j].status = s, ![j].leased = leased,
                                   ![j].attempts = attempts]
    PROVE  Settles(j)
<1> DEFINE a == [jobs[j] EXCEPT !.status = s]
           b == [a EXCEPT !.leased = leased]
           c == [b EXCEPT !.attempts = attempts]
<1>1. jobs' = [jobs EXCEPT ![j] = b] \/ jobs' = [jobs EXCEPT ![j] = c]
  BY DEF WatchInv, ListsGood
<1>2. a \in Row /\ SameWork(a, jobs[j]) /\ a.status = s
  BY RowOf, StatusSet
<1> HIDE DEF a
<1>3. b \in Row /\ SameWork(b, a) /\ b.status = s
  BY <1>2, LeasedSet
<1> HIDE DEF b
<1>4. c \in Row /\ SameWork(c, b) /\ c.status = s
  BY <1>3, AttemptsSet
<1> HIDE DEF c
<1>5. SameWork(b, jobs[j]) /\ SameWork(c, jobs[j])
  BY <1>2, <1>3, <1>4 DEF SameWork
<1> QED BY <1>1, <1>2, <1>3, <1>4, <1>5 DEF Settles

LEMMA LeaseWritten ==
    ASSUME WatchInv, NEW j \in 1 .. Len(jobs), NEW leased \in BOOLEAN, NEW attempts \in Nat,
           \/ jobs' = [jobs EXCEPT ![j].leased = leased]
           \/ jobs' = [jobs EXCEPT ![j].leased = leased, ![j].attempts = attempts]
    PROVE  Settles(j)
<1> DEFINE b == [jobs[j] EXCEPT !.leased = leased]
           c == [b EXCEPT !.attempts = attempts]
<1>1. jobs' = [jobs EXCEPT ![j] = b] \/ jobs' = [jobs EXCEPT ![j] = c]
  BY DEF WatchInv, ListsGood
<1>3. b \in Row /\ SameWork(b, jobs[j]) /\ b.status = jobs[j].status
  BY RowOf, LeasedSet
<1> HIDE DEF b
<1>4. c \in Row /\ SameWork(c, b) /\ c.status = b.status
  BY <1>3, AttemptsSet
<1> HIDE DEF c
<1>5. SameWork(c, jobs[j])
  BY <1>3, <1>4 DEF SameWork
<1> QED BY <1>1, <1>3, <1>4, <1>5 DEF Settles

LEMMA Settling ==
    ASSUME WatchInv, WorldMoves, owed' = owed, plans' = plans,
           NEW j \in 1 .. Len(jobs), Settles(j)
    PROVE  JobsMove
<1>1. PICK q \in Row : /\ jobs' = [jobs EXCEPT ![j] = q] /\ SameWork(q, jobs[j])
                       /\ q.status = "completed" => jobs[j].status = "completed"
  BY DEF Settles
<1>2. Covered(q) = Covered(jobs[j])
  BY <1>1, SameCovered DEF SameWork
<1>3. PlannedOnce => Covered(q) \subseteq scanned'
  BY <1>2 DEF WatchInv, AllRead, JobRead, WorldMoves
<1> QED BY <1>1, <1>3, JobWritten DEF SameWork

\* The world but for the jobs and workers.
LEMMA WorldStays ==
    ASSUME WatchInv, tip' = tip, removed' \in BOOLEAN, scanned' = scanned,
           \/ live' = live
           \/ \E b \in BOOLEAN : live' = [live EXCEPT !.leased = b],
           troubles' = troubles \/ Trouble
    PROVE  WorldMoves
<1>1. /\ tip \in Probed .. MaxTip /\ live \in [last : 0 .. tip, leased : BOOLEAN]
      /\ scanned \subseteq 1 .. tip /\ troubles \in 0 .. MaxTroubles
      /\ Probed \in Nat /\ MaxTip \in Nat /\ MaxTroubles \in Nat
  BY BoundsAssumption DEF WatchInv, WorldGood
<1>2. live' \in [last : 0 .. tip, leased : BOOLEAN]
  BY <1>1
<1>3. troubles' \in 0 .. MaxTroubles
  BY <1>1 DEF Trouble
<1>4. tip <= tip'
  BY <1>1
<1> QED BY <1>1, <1>2, <1>3, <1>4 DEF WorldMoves, WorldGood

\* The worker has a job in hand.
LEMMA InHandRow ==
    ASSUME WatchInv, NEW w \in Workers, wk[w].pc \in InJob
    PROVE  /\ wk[w].id \in 1 .. Len(jobs) /\ wk[w].row \in Row
           /\ wk[w].row.attempts \in Nat
           /\ Stopped(wk[w].row) \in (Open \cup Settled) \ {"completed"}
<1>1. WorkerGood(wk[w], Len(jobs), tip)
  BY DEF WatchInv, HandsGood
<1>2. wk[w].row \in Row /\ wk[w].id \in 1 .. Len(jobs)
  BY <1>1 DEF WorkerGood, Hand
<1> QED BY <1>2 DEF Row, Stopped, Settled

LEMMA FailedAttemptSettles ==
    ASSUME WatchInv, NEW w \in Workers, wk[w].pc \in InJob, FailedAttempt(w)
    PROVE  Settles(wk[w].id) /\ \E pc \in {"idle", "poll"} : Leave(w, pc)
<1> DEFINE j == wk[w].id
           a == jobs[j].attempts + 1
<1>1. j \in 1 .. Len(jobs) /\ a \in Nat
  BY InHandRow, RowOf
<1>2. CASE Release(w, 1, "poll")
  <2>1. jobs' = [jobs EXCEPT ![j].leased = FALSE, ![j].attempts = a]
    BY <1>1, <1>2 DEF Release, WatchInv, ListsGood
  <2> QED BY <1>1, <1>2, <2>1, LeaseWritten DEF Release
<1>3. CASE /\ jobs' = [jobs EXCEPT ![j].status = Stopped(jobs[j]), ![j].leased = FALSE,
                               ![j].attempts = @ + 1]
           /\ Leave(w, "poll")
  <2> DEFINE s == Stopped(jobs[j])
  <2>1. s \in (Open \cup Settled) \ {"completed"}
    BY <1>1, RowOf
  <2>2. jobs' = [jobs EXCEPT ![j].status = s, ![j].leased = FALSE, ![j].attempts = a]
    BY <1>1, <1>3 DEF WatchInv, ListsGood
  <2> HIDE DEF s, a
  <2> QED BY <1>1, <1>3, <2>1, <2>2, StatusWritten
<1> QED BY <1>2, <1>3 DEF FailedAttempt

LEMMA FinishSettles ==
    ASSUME WatchInv, NEW w \in Workers, wk[w].pc \in InJob,
           NEW s \in (Open \cup Settled) \ {"completed"}, Finish(w, s)
    PROVE  Settles(wk[w].id) /\ \E pc \in {"idle", "poll"} : Leave(w, pc)
<1>1. wk[w].id \in 1 .. Len(jobs)
  BY InHandRow
<1>2. jobs' = [jobs EXCEPT ![wk[w].id].status = s, ![wk[w].id].leased = FALSE]
  BY DEF Finish
<1>3. Settles(wk[w].id)
  BY <1>1, <1>2, StatusWritten
<1> QED BY <1>3 DEF Finish

\* The steps by which a worker is done with a job that is not complete.
LEMMA GivesUp ==
    ASSUME WatchInv, NEW w \in Workers,
           \/ TargetGone(w) \/ NetworkDown(w) \/ BudgetSpent(w) \/ JobFails(w)
    PROVE  WatchInv'
<1> DEFINE j == wk[w].id
<1>1. wk[w].pc \in InJob
  BY DEF TargetGone, NetworkDown, BudgetSpent, JobFails, InJob
<1>2. j \in 1 .. Len(jobs)
  BY <1>1, InHandRow
<1>3. Settles(j) /\ \E pc \in {"idle", "poll"} : Leave(w, pc)
  <2>1. CASE TargetGone(w)
    BY <1>1, <2>1, InHandRow, FinishSettles DEF TargetGone
  <2>2. CASE NetworkDown(w)
    <3> DEFINE a == wk[w].row.attempts + 1
               s == Stopped(wk[w].row)
    <3>1. a \in Nat /\ s \in (Open \cup Settled) \ {"completed"}
      BY <1>1, InHandRow
    <3>2. \/ Finish(w, s)
          \/ /\ jobs' = [jobs EXCEPT ![j].status = s, ![j].leased = FALSE, ![j].attempts = a]
             /\ Leave(w, "poll")
          \/ Release(w, 1, "poll")
      BY <2>2 DEF NetworkDown
    <3> HIDE DEF a, s
    <3>3. CASE Finish(w, s)
      BY <1>1, <3>1, <3>3, FinishSettles
    <3>4. CASE /\ jobs' = [jobs EXCEPT ![j].status = s, ![j].leased = FALSE, ![j].attempts = a]
               /\ Leave(w, "poll")
      BY <1>2, <3>1, <3>4, StatusWritten
    <3>5. CASE Release(w, 1, "poll")
      <4>1. jobs' = [jobs EXCEPT ![j].leased = FALSE, ![j].attempts = jobs[j].attempts + 1]
        BY <1>2, <3>5 DEF Release, WatchInv, ListsGood
      <4>2. jobs[j].attempts + 1 \in Nat
        BY <1>2, RowOf
      <4> QED BY <1>2, <3>5, <4>1, <4>2, LeaseWritten DEF Release
    <3> QED BY <3>2, <3>3, <3>4, <3>5
  <2>3. CASE BudgetSpent(w)
    <3>1. jobs' = [jobs EXCEPT ![j].leased = FALSE, ![j].attempts = jobs[j].attempts + 0]
      BY <1>2, <2>3 DEF BudgetSpent, Release, WatchInv, ListsGood
    <3>2. jobs[j].attempts + 0 \in Nat
      BY <1>2, RowOf
    <3> QED BY <1>2, <2>3, <3>1, <3>2, LeaseWritten DEF BudgetSpent, Release
  <2>4. CASE JobFails(w)
    <3>1. FailedAttempt(w) \/ Finish(w, Stopped(jobs[j]))
      BY <2>4 DEF JobFails
    <3>2. Stopped(jobs[j]) \in (Open \cup Settled) \ {"completed"}
      BY <1>2, RowOf
    <3> QED BY <1>1, <3>1, <3>2, FailedAttemptSettles, FinishSettles
  <2> QED BY <2>1, <2>2, <2>3, <2>4
<1>4. /\ tip' = tip /\ removed' = removed /\ live' = live /\ scanned' = scanned
      /\ owed' = owed /\ plans' = plans /\ (troubles' = troubles \/ Trouble)
  BY DEF TargetGone, NetworkDown, BudgetSpent, JobFails
<1>5. WorldMoves
  BY <1>4, WorldStays DEF WatchInv, WorldGood
<1>6. JobsMove
  BY <1>2, <1>3, <1>4, <1>5, Settling
<1>7. HandsMove
  BY <1>3, <1>5, HandLeaves
<1> QED BY <1>5, <1>6, <1>7, Moves

\* A completed job: all of the plan that the worker has in hand was read, and
\* it is the plan of the row.
LEMMA Completes ==
    ASSUME WatchInv, NEW w \in Workers, CompleteJob(w)
    PROVE  WatchInv'
<1> DEFINE j == wk[w].id
           a == [jobs[j] EXCEPT !.status = "completed"]
           b == [a EXCEPT !.leased = FALSE]
<1>1. /\ wk[w].pc = "scan" /\ wk[w].row.index > Len(wk[w].row.plan)
      /\ jobs' = [jobs EXCEPT ![j].status = "completed", ![j].leased = FALSE]
      /\ Leave(w, "poll")
      /\ tip' = tip /\ removed' = removed /\ live' = live /\ scanned' = scanned
      /\ owed' = owed /\ plans' = plans /\ troubles' = troubles
  BY DEF CompleteJob, Finish
<1>2. j \in 1 .. Len(jobs) /\ wk[w].row \in Row /\ wk[w].pc \in InJob
  BY <1>1, InHandRow DEF InJob
<1>3. jobs' = [jobs EXCEPT ![j] = b]
  BY <1>1, <1>2 DEF WatchInv, ListsGood
<1>4. a \in Row /\ SameWork(a, jobs[j])
  BY <1>2, RowOf, StatusSet DEF Settled
<1> HIDE DEF a
<1>5. b \in Row /\ SameWork(b, a)
  BY <1>4, LeasedSet
<1> HIDE DEF b
<1>6. /\ b.planned = jobs[j].planned /\ b.start = jobs[j].start /\ b.plan = jobs[j].plan
      /\ b.index = jobs[j].index /\ b.cursor = jobs[j].cursor
  BY <1>4, <1>5 DEF SameWork
<1>7. WorldMoves
  BY <1>1, WorldStays DEF WatchInv, WorldGood
<1>8. ASSUME PlannedOnce
      PROVE  /\ jobs[j].planned /\ InRanges(jobs[j].plan) \subseteq scanned
             /\ Covered(b) \subseteq scanned
  <2>1. wk[w].row.planned
    BY <1>1 DEF WatchInv, HandsGood, WorkerGood
  <2>2. RowRead(wk[w], jobs, scanned) /\ JobRead(jobs[j], scanned)
    BY <1>2, <1>8 DEF WatchInv, AllRead
  <2>3. /\ jobs[j].planned /\ wk[w].row.plan = jobs[j].plan
        /\ Covered(wk[w].row) \subseteq scanned
    BY <1>1, <1>2, <2>1, <2>2 DEF RowRead
  <2>4. InRanges(wk[w].row.plan) \subseteq Covered(wk[w].row)
    BY <1>1, <1>2, PlanCovered
  <2>5. Covered(b) = Covered(jobs[j])
    BY <1>6, SameCovered
  <2> QED BY <2>2, <2>3, <2>4, <2>5 DEF JobRead
<1>9. JobsMove
  BY <1>1, <1>2, <1>3, <1>5, <1>6, <1>7, <1>8, JobWritten
<1>10. HandsMove
  BY <1>1, <1>7, HandLeaves
<1> QED BY <1>7, <1>9, <1>10, Moves

-----------------------------------------------------------------------------
(* The steps of a worker that goes on with its job. *)

LEMMA PcSet ==
    ASSUME NEW t, NEW x \in Hand(t), NEW v \in Places
    PROVE  LET y == [x EXCEPT !.pc = v] IN
           y \in Hand(t) /\ y.pc = v /\ y.id = x.id /\ y.row = x.row
  BY DEF Hand
LEMMA IdSet ==
    ASSUME NEW t, NEW x \in Hand(t), NEW v \in 0 .. MaxJobs
    PROVE  LET y == [x EXCEPT !.id = v] IN
           y \in Hand(t) /\ y.pc = x.pc /\ y.id = v /\ y.row = x.row
  BY DEF Hand
LEMMA RowSet ==
    ASSUME NEW t, NEW x \in Hand(t), NEW v \in Row
    PROVE  LET y == [x EXCEPT !.row = v] IN
           y \in Hand(t) /\ y.pc = x.pc /\ y.id = x.id /\ y.row = v
  BY DEF Hand
LEMMA LastSet ==
    ASSUME NEW t, NEW x \in Hand(t), NEW v \in 0 .. t
    PROVE  LET y == [x EXCEPT !.last = v] IN
           y \in Hand(t) /\ y.pc = x.pc /\ y.id = x.id /\ y.row = x.row
  BY DEF Hand

LEMMA HandOf ==
    ASSUME WatchInv, NEW w \in Workers
    PROVE  wk[w] \in Hand(tip) /\ WorkerGood(wk[w], Len(jobs), tip)
  BY DEF WatchInv, HandsGood, WorkerGood

LEMMA Starts ==
    ASSUME WatchInv, NEW w \in Workers, StartJob(w)
    PROVE  WatchInv'
<1> DEFINE pc == IF wk[w].row.planned THEN "scan" ELSE "plan"
           x == [wk[w] EXCEPT !.pc = pc]
<1>1. /\ wk[w].pc = "start" /\ wk' = [wk EXCEPT ![w].pc = pc]
      /\ tip' = tip /\ removed' = removed /\ live' = live /\ scanned' = scanned
      /\ jobs' = jobs /\ owed' = owed /\ plans' = plans /\ troubles' = troubles
  BY DEF StartJob
<1>2. WorldMoves
  BY <1>1, WorldStays DEF WatchInv, WorldGood
<1>3. JobsMove
  BY <1>1, <1>2, JobsStay
<1>4. wk' = [wk EXCEPT ![w] = x]
  BY <1>1 DEF WatchInv, HandsGood
<1>5. wk[w].id \in 1 .. Len(jobs)
  BY <1>1, InHandRow DEF InJob
<1>6. pc \in {"plan", "scan"} /\ pc \in Places /\ (pc = "scan" => wk[w].row.planned)
  BY DEF Places
<1> HIDE DEF pc
<1>7. x \in Hand(tip) /\ x.pc = pc /\ x.id = wk[w].id /\ x.row = wk[w].row
  BY <1>6, HandOf, PcSet
<1> HIDE DEF x
<1>8. WorkerGood(x, Len(jobs), tip')
  BY <1>1, <1>5, <1>6, <1>7 DEF WorkerGood
<1>9. PlannedOnce => RowRead(x, jobs, scanned')
  <2>1. PlannedOnce => RowRead(wk[w], jobs, scanned)
    BY DEF WatchInv, AllRead
  <2> QED BY <1>1, <1>6, <1>7, <2>1 DEF RowRead, InJob
<1>10. HandsMove
  BY <1>2, <1>4, <1>8, <1>9, HandWritten
<1> QED BY <1>2, <1>3, <1>10, Moves

LEMMA Crashes ==
    ASSUME WatchInv, NEW w \in Workers, Crash(w)
    PROVE  WatchInv'
<1>1. /\ Leave(w, "idle")
      /\ tip' = tip /\ removed' = removed /\ live' = live /\ scanned' = scanned
      /\ jobs' = jobs /\ owed' = owed /\ plans' = plans /\ Trouble
  BY DEF Crash
<1>2. WorldMoves
  BY <1>1, WorldStays DEF WatchInv, WorldGood
<1>3. JobsMove
  BY <1>1, <1>2, JobsStay
<1>4. HandsMove
  BY <1>1, <1>2, HandLeaves
<1> QED BY <1>2, <1>3, <1>4, Moves

\* A claim returns the row as it is.
LEMMA Claims ==
    ASSUME WatchInv, NEW w \in Workers, ClaimBackfill(w)
    PROVE  WatchInv'
<1>1. PICK j \in Claimable :
        /\ jobs' = [jobs EXCEPT ![j].status = "running", ![j].leased = TRUE]
        /\ wk' = [wk EXCEPT ![w].pc = "start", ![w].id = j, ![w].row = jobs'[j]]
  BY DEF ClaimBackfill
<1>2. /\ tip' = tip /\ removed' = removed /\ live' = live /\ scanned' = scanned
      /\ owed' = owed /\ plans' = plans /\ troubles' = troubles
  BY DEF ClaimBackfill
<1>3. j \in 1 .. Len(jobs) /\ j \in 0 .. MaxJobs
  BY BoundsAssumption DEF Claimable, WatchInv, ListsGood
<1>4. WorldMoves
  BY <1>2, WorldStays DEF WatchInv, WorldGood
<1>5. Settles(j)
  <2> DEFINE s == "running"
  <2>1. s \in (Open \cup Settled) \ {"completed"}
    BY DEF Open
  <2>2. jobs' = [jobs EXCEPT ![j].status = s, ![j].leased = TRUE]
    BY <1>1
  <2> HIDE DEF s
  <2> QED BY <1>3, <2>1, <2>2, StatusWritten
<1>6. JobsMove
  BY <1>2, <1>3, <1>4, <1>5, Settling
<1> DEFINE row == jobs'[j]
<1>7. row \in Row /\ row.planned = jobs[j].planned /\ row.plan = jobs[j].plan
  BY <1>3, <1>6 DEF JobsMove, WatchInv, ListsGood
<1>8. PlannedOnce => Covered(row) \subseteq scanned'
  BY <1>3, <1>6 DEF JobsMove
<1> HIDE DEF row
<1> DEFINE pc == "start"
           x == [wk[w] EXCEPT !.pc = pc]
           y == [x EXCEPT !.id = j]
           z == [y EXCEPT !.row = row]
<1>9. wk' = [wk EXCEPT ![w].pc = pc, ![w].id = j, ![w].row = row]
  BY <1>1 DEF row
<1>10. pc \in Places /\ pc # "scan"
  BY DEF Places
<1> HIDE DEF pc
<1>17. wk' = [wk EXCEPT ![w] = z]
  BY <1>9 DEF WatchInv, HandsGood
<1>11. x \in Hand(tip) /\ x.pc = pc
  BY <1>10, HandOf, PcSet
<1> HIDE DEF x
<1>12. y \in Hand(tip) /\ y.pc = pc /\ y.id = j
  BY <1>3, <1>11, IdSet
<1> HIDE DEF y
<1>13. z \in Hand(tip) /\ z.pc = pc /\ z.id = j /\ z.row = row
  BY <1>7, <1>12, RowSet
<1> HIDE DEF z
<1>14. WorkerGood(z, Len(jobs), tip')
  BY <1>2, <1>3, <1>10, <1>13 DEF WorkerGood
<1>15. PlannedOnce => RowRead(z, jobs, scanned')
  BY <1>7, <1>8, <1>13 DEF RowRead
<1>16. HandsMove
  BY <1>4, <1>17, <1>14, <1>15, HandWritten
<1> QED BY <1>4, <1>6, <1>16, Moves

\* A chunk: the row in hand and that of the table get the same cursor, and have
\* the same plan, so they cover the same from then on.
LEMMA Scans ==
    ASSUME WatchInv, NEW w \in Workers, ScanChunk(w)
    PROVE  WatchInv'
<1> DEFINE j == wk[w].id  row == wk[w].row
           from == NextBlock(row)  end == row.plan[row.index][2]
<1>1. PICK to \in Chunk(from, end) :
        /\ scanned' = scanned \cup (from .. to)
        /\ jobs' = [jobs EXCEPT ![j].index = row.index, ![j].cursor = to,
                                ![j].count = Least(Total(jobs[j]), @ + to - from + 1),
                                ![j].leased = TRUE]
        /\ wk' = [wk EXCEPT ![w].row.cursor = to]
  BY DEF ScanChunk
<1>2. /\ wk[w].pc = "scan" /\ row.index <= Len(row.plan)
      /\ tip' = tip /\ removed' = removed /\ live' = live
      /\ owed' = owed /\ plans' = plans /\ troubles' = troubles
  BY DEF ScanChunk
<1>3. j \in 1 .. Len(jobs) /\ row \in Row /\ wk[w].pc \in InJob /\ row.planned
  BY <1>2, InHandRow DEF InJob, WatchInv, HandsGood, WorkerGood
<1>4. /\ from \in Nat /\ 1 <= from /\ to \in Nat /\ from <= to /\ to <= Probed
      /\ Probed \in Nat
  BY <1>2, <1>3, ChunkTyped, BoundsAssumption
<1>5. WorldMoves
  <2>1. /\ tip \in Probed .. MaxTip /\ MaxTip \in Nat /\ scanned \subseteq 1 .. tip
        /\ WorldGood
    BY BoundsAssumption DEF WatchInv, WorldGood
  <2>2. from .. to \subseteq 1 .. tip
    BY <1>4, <2>1
  <2>3. scanned' \subseteq 1 .. tip
    BY <1>1, <2>1, <2>2
  <2>4. scanned \subseteq scanned'
    BY <1>1
  <2>5. tip <= tip'
    BY <1>2, <1>4, <2>1
  <2> QED BY <1>2, <2>1, <2>3, <2>4, <2>5 DEF WorldMoves, WorldGood
<1> DEFINE n == Least(Total(jobs[j]), jobs[j].count + to - from + 1)
           a == [jobs[j] EXCEPT !.index = row.index]
           b == [a EXCEPT !.cursor = to]
           c == [b EXCEPT !.count = n]
           d == [c EXCEPT !.leased = TRUE]
           hand == [row EXCEPT !.cursor = to]
           x == [wk[w] EXCEPT !.row = hand]
<1>6. jobs' = [jobs EXCEPT ![j] = d]
  <2>1. jobs \in Seq(Row) /\ DOMAIN jobs = 1 .. Len(jobs)
    BY DEF WatchInv, ListsGood
  <2>2. b.count = jobs[j].count
    BY <1>3, <2>1 DEF Row
  <2> QED BY <1>1, <1>3, <2>1, <2>2
<1>7. wk' = [wk EXCEPT ![w] = x]
  BY <1>1 DEF WatchInv, HandsGood
<1>8. n \in Nat
  <2>1. jobs[j].count \in Nat /\ Total(jobs[j]) \in Nat
    BY <1>3, RowOf, TotalTyped
  <2> QED BY <1>4, <2>1 DEF Least
<1>9. row.index \in Nat \ {0} /\ to \in 0 .. Probed /\ jobs[j] \in Row
  BY <1>3, <1>4, PlanParts, RowOf
<1> HIDE DEF n
<1>10. /\ a \in Row /\ a.planned = jobs[j].planned /\ a.start = jobs[j].start
       /\ a.plan = jobs[j].plan /\ a.index = row.index /\ a.status = jobs[j].status
  BY <1>9, IndexSet
<1> HIDE DEF a
<1>11. /\ b \in Row /\ b.planned = jobs[j].planned /\ b.start = jobs[j].start
       /\ b.plan = jobs[j].plan /\ b.index = row.index /\ b.cursor = to
       /\ b.status = jobs[j].status
  BY <1>9, <1>10, CursorSet
<1> HIDE DEF b
<1>12. c \in Row /\ SameWork(c, b) /\ c.status = b.status
  BY <1>8, <1>11, CountSet
<1> HIDE DEF c
<1>13. d \in Row /\ SameWork(d, c) /\ d.status = c.status
  BY <1>12, LeasedSet
<1>14. /\ hand \in Row /\ hand.planned = row.planned /\ hand.plan = row.plan
       /\ hand.index = row.index /\ hand.cursor = to
  BY <1>3, <1>9, CursorSet
<1> HIDE DEF d, hand
<1>15. /\ d.planned = jobs[j].planned /\ d.start = jobs[j].start /\ d.plan = jobs[j].plan
       /\ d.index = row.index /\ d.cursor = to /\ d.status = jobs[j].status
  BY <1>11, <1>12, <1>13 DEF SameWork
<1>16. x \in Hand(tip) /\ x.pc = wk[w].pc /\ x.id = j /\ x.row = hand
  BY <1>14, HandOf, RowSet
<1> HIDE DEF x
<1>17. ASSUME PlannedOnce
       PROVE  /\ Covered(hand) \subseteq scanned' /\ Covered(d) \subseteq scanned'
              /\ jobs[j].planned /\ hand.plan = jobs[j].plan
  <2>1. RowRead(wk[w], jobs, scanned)
    BY <1>17 DEF WatchInv, AllRead
  <2>2. /\ jobs[j].planned /\ row.plan = jobs[j].plan /\ Covered(row) \subseteq scanned
    BY <1>2, <1>3, <2>1 DEF RowRead
  <2>3. Covered(hand) \subseteq Covered(row) \cup (from .. to)
    BY <1>1, <1>2, <1>3, <1>14, ChunkCovered
  <2>4. Covered(d) = Covered(hand)
    BY <1>14, <1>15, <2>2, SameCovered
  <2> QED BY <1>1, <1>14, <2>2, <2>3, <2>4
<1>18. JobsMove
  BY <1>2, <1>3, <1>5, <1>6, <1>13, <1>15, <1>17, JobWritten
<1>19. WorkerGood(x, Len(jobs), tip')
  BY <1>2, <1>3, <1>14, <1>16 DEF WorkerGood
<1>20. PlannedOnce => RowRead(x, jobs, scanned')
  BY <1>16, <1>17 DEF RowRead
<1>21. HandsMove
  BY <1>5, <1>7, <1>19, <1>20, HandWritten
<1> QED BY <1>5, <1>18, <1>21, Moves

LEMMA RangeEnds ==
    ASSUME WatchInv, NEW w \in Workers, EndRange(w)
    PROVE  WatchInv'
<1> DEFINE j == wk[w].id  row == wk[w].row  n == row.index + 1
<1>1. /\ wk[w].pc = "scan" /\ row.index <= Len(row.plan)
      /\ NextBlock(row) > row.plan[row.index][2]
      /\ jobs' = [jobs EXCEPT ![j].index = n, ![j].cursor = NoBlock]
      /\ wk' = [wk EXCEPT ![w].row.index = @ + 1, ![w].row.cursor = NoBlock]
      /\ tip' = tip /\ removed' = removed /\ live' = live /\ scanned' = scanned
      /\ owed' = owed /\ plans' = plans /\ troubles' = troubles
  BY DEF EndRange
<1>2. j \in 1 .. Len(jobs) /\ row \in Row /\ wk[w].pc \in InJob /\ row.planned
  BY <1>1, InHandRow DEF InJob, WatchInv, HandsGood, WorkerGood
<1>3. WorldMoves
  BY <1>1, WorldStays DEF WatchInv, WorldGood
<1> DEFINE a == [jobs[j] EXCEPT !.index = n]
           b == [a EXCEPT !.cursor = NoBlock]
           c == [row EXCEPT !.index = n]
           d == [c EXCEPT !.cursor = NoBlock]
           x == [wk[w] EXCEPT !.row = d]
<1>4. jobs' = [jobs EXCEPT ![j] = b]
  BY <1>1, <1>2 DEF WatchInv, ListsGood
<1>5. wk' = [wk EXCEPT ![w] = x]
  BY <1>1 DEF WatchInv, HandsGood
<1>6. n \in Nat \ {0} /\ NoBlock \in 0 .. Probed /\ jobs[j] \in Row
  BY <1>2, PlanParts, RowOf, BoundsAssumption DEF NoBlock
<1>7. /\ a \in Row /\ a.planned = jobs[j].planned /\ a.start = jobs[j].start
      /\ a.plan = jobs[j].plan /\ a.index = n /\ a.status = jobs[j].status
  BY <1>6, IndexSet
<1>8. c \in Row /\ c.planned = row.planned /\ c.plan = row.plan /\ c.index = n
  BY <1>2, <1>6, IndexSet
<1> HIDE DEF a, c
<1>9. /\ b \in Row /\ b.planned = jobs[j].planned /\ b.start = jobs[j].start
      /\ b.plan = jobs[j].plan /\ b.index = n /\ b.cursor = NoBlock
      /\ b.status = jobs[j].status
  BY <1>6, <1>7, CursorSet
<1>10. /\ d \in Row /\ d.planned = row.planned /\ d.plan = row.plan /\ d.index = n
       /\ d.cursor = NoBlock
  BY <1>6, <1>8, CursorSet
<1> HIDE DEF b, d
<1>11. x \in Hand(tip) /\ x.pc = wk[w].pc /\ x.id = j /\ x.row = d
  BY <1>10, HandOf, RowSet
<1> HIDE DEF x
<1>12. ASSUME PlannedOnce
       PROVE  /\ Covered(b) \subseteq scanned /\ Covered(d) \subseteq scanned
              /\ jobs[j].planned /\ d.plan = jobs[j].plan
  <2>1. RowRead(wk[w], jobs, scanned)
    BY <1>12 DEF WatchInv, AllRead
  <2>2. /\ jobs[j].planned /\ row.plan = jobs[j].plan /\ Covered(row) \subseteq scanned
    BY <1>1, <1>2, <2>1 DEF RowRead
  <2>3. Covered(d) \subseteq Covered(row)
    BY <1>1, <1>2, <1>10, RangeCovered
  <2>4. Covered(b) = Covered(d)
    BY <1>9, <1>10, <2>2, SameCovered
  <2> QED BY <1>10, <2>2, <2>3, <2>4
<1>13. JobsMove
  BY <1>1, <1>2, <1>3, <1>4, <1>9, <1>12, JobWritten
<1>14. WorkerGood(x, Len(jobs), tip')
  BY <1>1, <1>2, <1>10, <1>11 DEF WorkerGood
<1>15. PlannedOnce => RowRead(x, jobs, scanned')
  BY <1>1, <1>11, <1>12 DEF RowRead
<1>16. HandsMove
  BY <1>3, <1>5, <1>14, <1>15, HandWritten
<1> QED BY <1>3, <1>13, <1>16, Moves

-----------------------------------------------------------------------------
(* The steps of the live tail leave the jobs alone and read blocks of the chain. *)

LEMMA ClaimsTarget ==
    ASSUME WatchInv, NEW w \in Workers, ClaimTarget(w)
    PROVE  WatchInv'
<1> DEFINE last == LiveStart
           to == PollEnd
           pc == "tail"
           a == [Resting EXCEPT !.pc = pc]
           b == [a EXCEPT !.last = last]
           x == [b EXCEPT !.to = to]
<1>1. /\ live' = [live EXCEPT !.leased = TRUE]
      /\ wk' = [wk EXCEPT ![w] = [Resting EXCEPT !.pc = pc, !.last = last, !.to = to]]
      /\ tip' = tip /\ removed' = removed /\ scanned' = scanned
      /\ jobs' = jobs /\ owed' = owed /\ plans' = plans /\ troubles' = troubles
  BY DEF ClaimTarget
<1>2. WorldMoves
  BY <1>1, WorldStays DEF WatchInv, WorldGood
<1>3. JobsMove
  BY <1>1, <1>2, JobsStay
<1>4. last \in 0 .. tip /\ to \in 0 .. tip
  <2>1. /\ Probed \in Nat /\ Confirmations \in Nat /\ MaxPerPoll \in Nat /\ MaxTip \in Nat
        /\ tip \in Probed .. MaxTip /\ live.last \in 0 .. tip
    BY BoundsAssumption DEF WatchInv, WorldGood
  <2>2. last \in 0 .. tip
    BY <2>1 DEF LiveStart
  <2>3. SafeTip \in 0 .. tip
    BY <2>1 DEF SafeTip, NoBlock
  <2>4. to = IF SafeTip < last + MaxPerPoll THEN SafeTip ELSE last + MaxPerPoll
    BY DEF PollEnd, Least
  <2> HIDE DEF last, to
  <2> QED BY <2>1, <2>2, <2>3, <2>4
<1>5. wk' = [wk EXCEPT ![w] = x]
  BY <1>1
<1>6. pc \in Places /\ pc \notin InJob /\ pc # "scan"
  BY DEF Places, InJob
<1> HIDE DEF last, to, pc
<1>7. NewJob \in Row /\ 0 \in 0 .. MaxJobs
  BY BoundsAssumption DEF NewJob, Row, NoBlock, Open
<1>8. a = [pc |-> pc, id |-> 0, row |-> NewJob, last |-> NoBlock, to |-> NoBlock]
  BY DEF Resting
<1> HIDE DEF a
<1>9. b = [pc |-> pc, id |-> 0, row |-> NewJob, last |-> last, to |-> NoBlock]
  BY <1>8
<1> HIDE DEF b
<1>10. x = [pc |-> pc, id |-> 0, row |-> NewJob, last |-> last, to |-> to]
  BY <1>9
<1> HIDE DEF x
<1>11. WorkerGood(x, Len(jobs), tip') /\ RowRead(x, jobs, scanned')
  BY <1>1, <1>4, <1>6, <1>7, <1>10 DEF WorkerGood, Hand, RowRead
<1>12. HandsMove
  BY <1>2, <1>5, <1>11, HandWritten
<1> QED BY <1>2, <1>3, <1>12, Moves

LEMMA Polls ==
    ASSUME WatchInv, NEW w \in Workers, PollChunk(w)
    PROVE  WatchInv'
<1> DEFINE last == wk[w].last  x(t) == [wk[w] EXCEPT !.last = t]
<1>1. PICK to \in Chunk(last + 1, wk[w].to) :
        /\ scanned' = scanned \cup (last + 1 .. to)
        /\ live' = [live EXCEPT !.last = to]
        /\ wk' = [wk EXCEPT ![w].last = to]
  BY DEF PollChunk
<1>2. /\ wk[w].pc = "tail" /\ tip' = tip /\ removed' = removed
      /\ jobs' = jobs /\ owed' = owed /\ plans' = plans /\ troubles' = troubles
  BY DEF PollChunk
<1>3. last \in 0 .. tip /\ wk[w].to \in 0 .. tip /\ tip \in Nat
  BY HandOf, BoundsAssumption DEF Hand, WatchInv, WorldGood
<1>4. to \in 0 .. tip /\ last + 1 .. to \subseteq 1 .. tip
  BY <1>1, <1>3 DEF Chunk
<1>5. WorldMoves
  <2>1. /\ live' \in [last : 0 .. tip, leased : BOOLEAN]
        /\ scanned' \subseteq 1 .. tip /\ scanned \subseteq scanned' /\ tip <= tip'
    BY <1>1, <1>2, <1>3, <1>4 DEF WatchInv, WorldGood
  <2> QED BY <1>2, <2>1 DEF WorldMoves, WatchInv, WorldGood
<1>6. JobsMove
  BY <1>2, <1>5, JobsStay
<1>7. wk' = [wk EXCEPT ![w] = x(to)]
  BY <1>1 DEF WatchInv, HandsGood
<1>8. x(to) \in Hand(tip) /\ x(to).pc = wk[w].pc
  BY <1>4, HandOf, LastSet
<1> HIDE DEF x
<1>9. WorkerGood(x(to), Len(jobs), tip') /\ RowRead(x(to), jobs, scanned')
  BY <1>2, <1>8 DEF WorkerGood, RowRead, InJob
<1>10. HandsMove
  BY <1>5, <1>7, <1>9, HandWritten
<1> QED BY <1>5, <1>6, <1>10, Moves

LEMMA PollEnds ==
    ASSUME WatchInv, NEW w \in Workers, NoTarget(w) \/ EndPoll(w)
    PROVE  WatchInv'
<1>1. /\ Leave(w, "idle") /\ tip' = tip /\ removed' = removed /\ scanned' = scanned
      /\ jobs' = jobs /\ owed' = owed /\ plans' = plans
      /\ (troubles' = troubles \/ Trouble)
      /\ (live' = live \/ live' = [live EXCEPT !.leased = FALSE])
  BY DEF NoTarget, EndPoll
<1>2. WorldMoves
  BY <1>1, WorldStays DEF WatchInv, WorldGood
<1>3. JobsMove
  BY <1>1, <1>2, JobsStay
<1>4. HandsMove
  BY <1>1, <1>2, HandLeaves
<1> QED BY <1>2, <1>3, <1>4, Moves

-----------------------------------------------------------------------------
(* The endpoints, the chain and the leases. *)

LEMMA LeasesEnd ==
    ASSUME WatchInv, NEW j \in 1 .. Len(jobs), LeaseEnds(j) \/ LeaseOverrun(j)
    PROVE  WatchInv'
<1>1. /\ jobs' = [jobs EXCEPT ![j].leased = FALSE] /\ wk' = wk
      /\ tip' = tip /\ removed' = removed /\ live' = live /\ scanned' = scanned
      /\ owed' = owed /\ plans' = plans /\ (troubles' = troubles \/ Trouble)
  BY DEF LeaseEnds, LeaseOverrun
<1>2. WorldMoves
  BY <1>1, WorldStays DEF WatchInv, WorldGood
<1>3. Settles(j)
  BY <1>1, LeaseWritten
<1>4. JobsMove
  BY <1>1, <1>2, <1>3, Settling
<1>5. HandsMove
  BY <1>1, <1>2, HandsStay
<1> QED BY <1>2, <1>4, <1>5, Moves

LEMMA TailLeasesEnd ==
    ASSUME WatchInv, TailLeaseEnds \/ TailLeaseOverrun
    PROVE  WatchInv'
<1>1. /\ jobs' = jobs /\ wk' = wk /\ live' = [live EXCEPT !.leased = FALSE]
      /\ tip' = tip /\ removed' = removed /\ scanned' = scanned
      /\ owed' = owed /\ plans' = plans /\ (troubles' = troubles \/ Trouble)
  BY DEF TailLeaseEnds, TailLeaseOverrun
<1>2. WorldMoves
  BY <1>1, WorldStays DEF WatchInv, WorldGood
<1> QED BY <1>1, <1>2, JobsStay, HandsStay, Moves

LEMMA ChainGrows == ASSUME WatchInv, NewBlock PROVE WatchInv'
<1>1. /\ tip < MaxTip /\ tip' = tip + 1 /\ removed' = removed /\ live' = live
      /\ scanned' = scanned /\ troubles' = troubles /\ wk' = wk
      /\ jobs' = jobs /\ owed' = owed /\ plans' = plans
  BY DEF NewBlock
<1>2. WorldMoves
  <2>1. /\ Probed \in Nat /\ MaxTip \in Nat /\ tip \in Probed .. MaxTip
        /\ live \in [last : 0 .. tip, leased : BOOLEAN] /\ scanned \subseteq 1 .. tip
    BY BoundsAssumption DEF WatchInv, WorldGood
  <2>2. /\ tip' \in Probed .. MaxTip /\ tip <= tip' /\ 0 .. tip \subseteq 0 .. tip'
        /\ 1 .. tip \subseteq 1 .. tip'
    BY <1>1, <2>1
  <2>3. live' \in [last : 0 .. tip', leased : BOOLEAN] /\ scanned' \subseteq 1 .. tip'
    BY <1>1, <2>1, <2>2
  <2> QED BY <1>1, <2>2, <2>3 DEF WorldMoves, WatchInv, WorldGood
<1> QED BY <1>1, <1>2, JobsStay, HandsStay, Moves

\* Removing the target settles its open jobs; their plans and progress stay.
LEMMA Removes == ASSUME WatchInv, RemoveTarget PROVE WatchInv'
<1> DEFINE a(j) == [jobs[j] EXCEPT !.status = Stopped(jobs[j])]
           b(j) == [a(j) EXCEPT !.leased = FALSE]
           q(j) == IF jobs[j].status \in Open THEN b(j) ELSE jobs[j]
<1>1. /\ jobs' = [j \in 1 .. Len(jobs) |-> q(j)] /\ wk' = wk /\ removed' = TRUE
      /\ live' = [live EXCEPT !.leased = FALSE] /\ tip' = tip /\ scanned' = scanned
      /\ owed' = owed /\ plans' = plans /\ troubles' = troubles
  BY DEF RemoveTarget
<1>2. WorldMoves
  BY <1>1, WorldStays
<1>3. ASSUME NEW j \in 1 .. Len(jobs)
      PROVE  /\ q(j) \in Row /\ SameWork(q(j), jobs[j])
             /\ q(j).status = "completed" => jobs[j].status = "completed"
  <2> DEFINE s == Stopped(jobs[j])
  <2>1. jobs[j] \in Row /\ s \in (Open \cup Settled) \ {"completed"}
    BY RowOf
  <2> HIDE DEF s
  <2>2. a(j) \in Row /\ SameWork(a(j), jobs[j]) /\ a(j).status = s
    BY <2>1, StatusSet DEF s
  <2> HIDE DEF a
  <2>3. b(j) \in Row /\ SameWork(b(j), a(j)) /\ b(j).status = s
    BY <2>2, LeasedSet
  <2> HIDE DEF b
  <2>4. b(j) \in Row /\ SameWork(b(j), jobs[j]) /\ b(j).status # "completed"
    BY <2>1, <2>2, <2>3 DEF SameWork
  <2> QED BY <2>1, <2>4 DEF SameWork
<1> HIDE DEF q
<1>4. JobsMove
  <2>1. Len(jobs) \in Nat
    BY DEF WatchInv, ListsGood
  <2>2. jobs' \in Seq(Row) /\ Len(jobs') = Len(jobs)
    BY <1>1, <1>3, <2>1
  <2>3. ASSUME NEW j \in 1 .. Len(jobs)
        PROVE  /\ jobs'[j] = q(j) /\ Covered(q(j)) = Covered(jobs[j])
               /\ PlannedOnce => Covered(jobs[j]) \subseteq scanned'
    <3>1. Covered(q(j)) = Covered(jobs[j])
      BY <1>3, SameCovered DEF SameWork
    <3> QED BY <1>1, <3>1 DEF WatchInv, AllRead, JobRead
  <2> QED BY <1>1, <1>3, <2>2, <2>3 DEF JobsMove, SameWork
<1> QED BY <1>1, <1>2, <1>4, HandsStay, Moves

\* A new job covers nothing and has no plan.
LEMMA Triggers == ASSUME WatchInv, TriggerBackfill PROVE WatchInv'
<1> DEFINE n == Len(jobs)
<1>1. /\ n < MaxJobs /\ jobs' = Append(jobs, NewJob)
      /\ owed' = Append(owed, {}) /\ plans' = Append(plans, 0)
      /\ tip' = tip /\ removed' = removed /\ live' = live /\ wk' = wk
      /\ scanned' = scanned /\ troubles' = troubles
  BY DEF TriggerBackfill
<1>2. /\ jobs \in Seq(Row) /\ owed \in Seq(SUBSET Blocks) /\ plans \in Seq(Nat)
      /\ Len(owed) = n /\ Len(plans) = n /\ n \in Nat
  BY DEF WatchInv, ListsGood
<1>3. NewJob \in Row /\ NewJob.plan = <<>> /\ ~NewJob.planned /\ NewJob.status # "completed"
      /\ NewJob.index = 1 /\ NewJob.cursor = NoBlock
  BY BoundsAssumption DEF NewJob, Row, NoBlock, Open
<1> HIDE DEF n
<1>4. /\ jobs' \in Seq(Row) /\ owed' \in Seq(SUBSET Blocks) /\ plans' \in Seq(Nat)
      /\ Len(jobs') = n + 1 /\ Len(owed') = n + 1 /\ Len(plans') = n + 1
      /\ jobs'[n + 1] = NewJob
      /\ \A j \in 1 .. n : jobs'[j] = jobs[j] /\ owed'[j] = owed[j] /\ plans'[j] = plans[j]
      /\ \A j \in 1 .. n + 1 : j \in 1 .. n \/ j = n + 1
      /\ \A j \in 1 .. n : j \in 1 .. n + 1
  BY <1>1, <1>2, <1>3 DEF n
<1>5. ASSUME NEW j \in 1 .. n + 1 PROVE JobGood(jobs'[j], plans'[j], owed'[j])
  <2>1. CASE j \in 1 .. n
    BY <1>4, <2>1 DEF WatchInv, ListsGood, n
  <2>2. CASE j = n + 1
    BY <1>3, <1>4, <2>2 DEF JobGood
  <2> QED BY <1>4, <2>1, <2>2
<1>6. ListsGood'
  <2>1. Len(jobs') <= MaxJobs
    BY <1>1, <1>2, <1>4, BoundsAssumption DEF n
  <2> QED BY <1>4, <1>5, <2>1 DEF ListsGood
<1>7. ASSUME NEW w \in Workers PROVE WorkerGood(wk[w], n + 1, tip)
  BY <1>4, HandOf DEF WorkerGood, n
<1>8. HandsGood'
  BY <1>1, <1>4, <1>7 DEF WatchInv, HandsGood
<1>9. AllRead'
  <2> SUFFICES ASSUME PlannedOnce'
               PROVE  /\ \A j \in 1 .. n + 1 : JobRead(jobs'[j], scanned)
                      /\ \A w \in Workers : RowRead(wk[w], jobs', scanned)
    BY <1>1, <1>4 DEF AllRead
  <2>1. PlannedOnce
    BY <1>4 DEF PlannedOnce, n
  <2>2. /\ \A j \in 1 .. n : JobRead(jobs[j], scanned)
        /\ \A w \in Workers : RowRead(wk[w], jobs, scanned)
    BY <2>1 DEF WatchInv, AllRead, n
  <2>3. JobRead(NewJob, scanned)
    BY <1>3, FreshCovered DEF JobRead
  <2>4. ASSUME NEW w \in Workers PROVE RowRead(wk[w], jobs', scanned)
    <3>1. wk[w].pc \in InJob => jobs'[wk[w].id] = jobs[wk[w].id]
      BY <1>4, HandOf DEF WorkerGood, n
    <3> QED BY <2>2, <3>1 DEF RowRead
  <2> QED BY <1>4, <2>2, <2>3, <2>4
<1>10. WorldGood'
  BY <1>1 DEF WatchInv, WorldGood
<1> QED BY <1>6, <1>8, <1>9, <1>10 DEF WatchInv

-----------------------------------------------------------------------------
(* A plan. *)

\* The row that plan_job writes.
PlanRow(j, start, plan) ==
    [jobs[j] EXCEPT !.planned = TRUE, !.start = start, !.plan = plan,
                    !.index = 1, !.cursor = NoBlock]

LEMMA PlanRowTyped ==
    ASSUME WatchInv, NEW j \in 1 .. Len(jobs), NEW start \in 1 .. Probed,
           NEW plan \in Seq(Span)
    PROVE  LET row == PlanRow(j, start, plan) IN
           /\ row \in Row /\ row.planned /\ row.start = start /\ row.plan = plan
           /\ row.index = 1 /\ row.cursor = NoBlock /\ row.status = jobs[j].status
<1> DEFINE a == [jobs[j] EXCEPT !.planned = TRUE]
           b == [a EXCEPT !.start = start]
           c == [b EXCEPT !.plan = plan]
           d == [c EXCEPT !.index = 1]
           e == [d EXCEPT !.cursor = NoBlock]
<1>1. PlanRow(j, start, plan) = e
  BY DEF PlanRow
<1>2. jobs[j] \in Row /\ start \in 0 .. Probed /\ 1 \in Nat \ {0} /\ NoBlock \in 0 .. Probed
  BY RowOf, BoundsAssumption DEF NoBlock
<1>3. a \in Row /\ a.planned /\ a.status = jobs[j].status
  BY <1>2, PlannedSet
<1> HIDE DEF a
<1>4. b \in Row /\ b.planned /\ b.start = start /\ b.status = jobs[j].status
  BY <1>2, <1>3, StartSet
<1> HIDE DEF b
<1>5. c \in Row /\ c.planned /\ c.start = start /\ c.plan = plan /\ c.status = jobs[j].status
  BY <1>4, PlanSet
<1> HIDE DEF c
<1>6. /\ d \in Row /\ d.planned /\ d.start = start /\ d.plan = plan /\ d.index = 1
      /\ d.status = jobs[j].status
  <2>1. /\ d \in Row /\ d.planned = c.planned /\ d.start = c.start /\ d.plan = c.plan
        /\ d.index = 1 /\ d.status = c.status
    BY <1>2, <1>5, IndexSet
  <2> HIDE DEF d
  <2> QED BY <1>5, <2>1
<1> HIDE DEF d
<1>7. /\ e \in Row /\ e.planned /\ e.start = start /\ e.plan = plan /\ e.index = 1
      /\ e.cursor = NoBlock /\ e.status = jobs[j].status
  BY <1>2, <1>6, CursorSet
<1> QED BY <1>1, <1>7

\* The plan of job j is the window less what the other jobs cover.
LEMMA PlanIsExact ==
    ASSUME WatchInv, NEW j \in 1 .. Len(jobs), NEW start \in 1 .. Probed
    PROVE  LET plan == SubtractRanges(<<start, Probed>>, Others(j)) IN
           /\ plan \in Seq(Span) /\ Blocked(plan) /\ Apart(plan)
           /\ InRanges(plan) = {b \in start .. Probed :
                \A k \in (1 .. Len(jobs)) \ {j} : b \notin Covered(jobs[k])}
<1> DEFINE K == (1 .. Len(jobs)) \ {j}
           plan == SubtractRanges(<<start, Probed>>, Others(j))
<1>1. \A k \in K : CoveredSpans(jobs[k]) \subseteq Span
  BY RowOf, SpansTyped
<1>2. Others(j) \in SUBSET Span
  BY <1>1 DEF Others
<1>3. /\ plan \in Seq(Span) /\ Blocked(plan) /\ Apart(plan)
      /\ InRanges(plan) = (start .. Probed) \ UNION {InRange(r) : r \in Others(j)}
  BY <1>2, PlanTyped
<1>4. ASSUME NEW b
      PROVE  b \in UNION {InRange(r) : r \in Others(j)} <=> \E k \in K : b \in Covered(jobs[k])
  BY DEF Others, Covered
<1> HIDE DEF plan
<1> QED BY <1>3, <1>4 DEF plan

\* A plan of a job that had none: no other worker has a plan of it in hand.  A
\* job that had one is planned twice from then on.
LEMMA Plans ==
    ASSUME WatchInv, NEW w \in Workers, PlanJob(w)
    PROVE  WatchInv'
<1> DEFINE j == wk[w].id
           n == Len(jobs)
<1>1. /\ wk[w].pc = "plan" /\ tip' = tip /\ removed' = removed /\ live' = live
      /\ scanned' = scanned /\ troubles' = troubles
  BY DEF PlanJob
<1>2. wk[w].pc \in InJob /\ j \in 1 .. n
  BY <1>1, InHandRow DEF InJob
<1>3. WorldMoves
  BY <1>1, WorldStays DEF WatchInv, WorldGood
<1>4. CASE FailedAttempt(w) /\ UNCHANGED <<owed, plans>>
  <2>1. Settles(j) /\ \E pc \in {"idle", "poll"} : Leave(w, pc)
    BY <1>2, <1>4, FailedAttemptSettles
  <2>2. JobsMove
    BY <1>2, <1>3, <1>4, <2>1, Settling
  <2>3. HandsMove
    BY <1>3, <2>1, HandLeaves
  <2> QED BY <1>3, <2>2, <2>3, Moves
<1>5. ASSUME NEW start \in 1 .. Probed,
             NEW plan, plan = SubtractRanges(<<start, Probed>>, Others(j)),
             NEW row, row = PlanRow(j, start, plan),
             NEW due, due = {b \in start .. Probed :
                               \A k \in (1 .. n) \ {j} : b \notin Covered(jobs[k])},
             jobs' = [jobs EXCEPT ![j] = row],
             wk' = [wk EXCEPT ![w].pc = "scan", ![w].row = row],
             owed' = [owed EXCEPT ![j] = due],
             plans' = [plans EXCEPT ![j] = @ + 1]
      PROVE  WatchInv'
  <2>1. /\ plan \in Seq(Span) /\ Blocked(plan) /\ Apart(plan) /\ InRanges(plan) = due
    BY <1>2, <1>5, PlanIsExact
  <2>2. /\ row \in Row /\ row.planned /\ row.start = start /\ row.plan = plan
        /\ row.index = 1 /\ row.cursor = NoBlock /\ row.status = jobs[j].status
    BY <1>2, <1>5, <2>1, PlanRowTyped
  <2>3. /\ jobs \in Seq(Row) /\ owed \in Seq(SUBSET Blocks) /\ plans \in Seq(Nat)
        /\ Len(owed) = n /\ Len(plans) = n /\ n \in Nat /\ n <= MaxJobs
    BY DEF WatchInv, ListsGood
  <2> HIDE DEF n
  <2>4. due \subseteq Blocks
    BY <1>5, BoundsAssumption DEF Blocks
  <2>5. /\ jobs' \in Seq(Row) /\ Len(jobs') = n /\ jobs'[j] = row
        /\ \A k \in 1 .. n : k # j => jobs'[k] = jobs[k]
    BY <1>2, <1>5, <2>2, <2>3 DEF n
  <2>6. /\ owed' \in Seq(SUBSET Blocks) /\ Len(owed') = n /\ owed'[j] = due
        /\ \A k \in 1 .. n : k # j => owed'[k] = owed[k]
    BY <1>2, <1>5, <2>3, <2>4
  <2>7. /\ plans' \in Seq(Nat) /\ Len(plans') = n /\ plans[j] \in Nat
        /\ plans'[j] = plans[j] + 1
        /\ \A k \in 1 .. n : k # j => plans'[k] = plans[k]
    <3> DEFINE p == plans[j] + 1
    <3>1. plans[j] \in Nat /\ p \in Nat
      <4>1. j \in 1 .. Len(plans)
        BY <1>2, <2>3 DEF n
      <4>2. plans[j] \in Nat
        BY <2>3, <4>1
      <4> QED BY <4>2
    <3>2. plans' = [plans EXCEPT ![j] = p]
      BY <1>5
    <3> HIDE DEF p
    <3>3. /\ plans' \in Seq(Nat) /\ Len(plans') = n /\ plans'[j] = p
          /\ \A k \in 1 .. n : k # j => plans'[k] = plans[k]
      BY <1>2, <2>3, <3>1, <3>2
    <3> QED BY <3>1, <3>3 DEF p
  <2>8. ASSUME NEW k \in 1 .. n PROVE JobGood(jobs'[k], plans'[k], owed'[k])
    <3>1. CASE k = j
      <4>1. plans[j] + 1 >= 1
        BY <2>7
      <4>2. JobGood(row, plans[j] + 1, due)
        BY <2>1, <2>2, <4>1 DEF JobGood
      <4> QED BY <2>5, <2>6, <2>7, <3>1, <4>2
    <3>2. CASE k # j
      BY <2>5, <2>6, <2>7, <3>2 DEF WatchInv, ListsGood, n
    <3> QED BY <3>1, <3>2
  <2>9. ListsGood'
    BY <2>3, <2>5, <2>6, <2>7, <2>8 DEF ListsGood
  <2> DEFINE pc == "scan"
             a == [wk[w] EXCEPT !.pc = pc]
             x == [a EXCEPT !.row = row]
  <2>10. wk' = [wk EXCEPT ![w].pc = pc, ![w].row = row]
    BY <1>5
  <2>11. pc \in Places
    BY DEF Places
  <2> HIDE DEF pc
  <2>12. wk' = [wk EXCEPT ![w] = x]
    BY <2>10 DEF WatchInv, HandsGood
  <2>13. a \in Hand(tip) /\ a.pc = pc /\ a.id = j
    BY <2>11, HandOf, PcSet
  <2> HIDE DEF a
  <2>14. x \in Hand(tip) /\ x.pc = pc /\ x.id = j /\ x.row = row
    BY <2>2, <2>13, RowSet
  <2> HIDE DEF x
  <2>15. WorkerGood(x, n, tip)
    BY <1>2, <2>2, <2>14 DEF WorkerGood
  <2>16. wk = [u \in Workers |-> wk[u]]
    BY DEF WatchInv, HandsGood
  <2>17. /\ wk' = [u \in Workers |-> wk'[u]] /\ wk'[w] = x
         /\ \A u \in Workers : u # w => wk'[u] = wk[u]
    BY <2>12, <2>16
  <2>18. ASSUME NEW u \in Workers PROVE WorkerGood(wk'[u], n, tip)
    BY <2>15, <2>17, HandOf DEF n
  <2>19. HandsGood'
    BY <1>1, <2>5, <2>17, <2>18 DEF HandsGood
  <2>20. AllRead'
    <3> SUFFICES ASSUME PlannedOnce'
                 PROVE  /\ \A k \in 1 .. n : JobRead(jobs'[k], scanned)
                        /\ \A u \in Workers : RowRead(wk'[u], jobs', scanned)
      BY <1>1, <2>5 DEF AllRead
    <3>1. plans[j] = 0 /\ \A k \in 1 .. n : plans[k] <= 1
      <4>1. \A k \in 1 .. n : plans'[k] <= 1
        BY <2>5 DEF PlannedOnce
      <4>2. plans[j] = 0
        BY <1>2, <2>7, <4>1
      <4>3. ASSUME NEW k \in 1 .. n PROVE plans[k] <= 1
        BY <2>7, <4>1, <4>2, <4>3
      <4> QED BY <4>2, <4>3
    <3>2. PlannedOnce
      BY <3>1 DEF PlannedOnce, n
    <3>3. /\ \A k \in 1 .. n : JobRead(jobs[k], scanned)
          /\ \A u \in Workers : RowRead(wk[u], jobs, scanned)
      BY <3>2 DEF WatchInv, AllRead, n
    <3>4. ~jobs[j].planned
      <4>1. JobGood(jobs[j], plans[j], owed[j])
        BY <1>2 DEF WatchInv, ListsGood, n
      <4> QED BY <3>1, <4>1 DEF JobGood
    <3>5. jobs[j].status # "completed"
      BY <1>2, <3>3, <3>4 DEF JobRead
    <3>6. Covered(row) = {}
      BY <2>2, FreshCovered
    <3>7. (start .. Probed) \ due \subseteq scanned
      <4> SUFFICES ASSUME NEW b \in start .. Probed, b \notin due PROVE b \in scanned
        OBVIOUS
      <4>1. PICK k \in (1 .. n) \ {j} : b \in Covered(jobs[k])
        BY <1>5
      <4> QED BY <3>3, <4>1 DEF JobRead
    <3>8. JobRead(row, scanned)
      BY <2>1, <2>2, <3>5, <3>6, <3>7 DEF JobRead
    <3>9. \A k \in 1 .. n : JobRead(jobs'[k], scanned)
      BY <2>5, <3>3, <3>8
    <3>10. RowRead(x, jobs', scanned)
      BY <2>2, <2>5, <2>14, <3>6 DEF RowRead
    <3>11. ASSUME NEW u \in Workers, u # w PROVE RowRead(wk[u], jobs', scanned)
      <4>1. RowRead(wk[u], jobs, scanned) /\ (wk[u].pc \in InJob => wk[u].id \in 1 .. n)
        BY <3>3, HandOf DEF WorkerGood, n
      <4>2. CASE wk[u].id = j
        BY <3>4, <4>1, <4>2 DEF RowRead
      <4>3. CASE wk[u].id # j
        BY <2>5, <4>1, <4>3 DEF RowRead
      <4> QED BY <4>2, <4>3
    <3> QED BY <2>17, <3>9, <3>10, <3>11
  <2> QED BY <1>3, <2>9, <2>19, <2>20 DEF WatchInv, WorldMoves
<1>6. PICK start \in 1 .. Probed :
        LET row == PlanRow(j, start, SubtractRanges(<<start, Probed>>, Others(j))) IN
        IF row.count <= Total(row) \/ row.plan = <<>>
        THEN /\ jobs' = [jobs EXCEPT ![j] = row]
             /\ wk' = [wk EXCEPT ![w].pc = "scan", ![w].row = row]
             /\ owed' = [owed EXCEPT ![j] =
                           {b \in start .. Probed :
                              \A k \in (1 .. n) \ {j} : b \notin Covered(jobs[k])}]
             /\ plans' = [plans EXCEPT ![j] = @ + 1]
        ELSE FailedAttempt(w) /\ UNCHANGED <<owed, plans>>
  BY DEF PlanJob, PlanRow
<1>7. CASE LET row == PlanRow(j, start, SubtractRanges(<<start, Probed>>, Others(j))) IN
           /\ jobs' = [jobs EXCEPT ![j] = row]
           /\ wk' = [wk EXCEPT ![w].pc = "scan", ![w].row = row]
           /\ owed' = [owed EXCEPT ![j] =
                         {b \in start .. Probed :
                            \A k \in (1 .. n) \ {j} : b \notin Covered(jobs[k])}]
           /\ plans' = [plans EXCEPT ![j] = @ + 1]
  BY <1>5, <1>7
<1> QED BY <1>4, <1>6, <1>7

-----------------------------------------------------------------------------
LEMMA WatchInvStarts == Init => WatchInv
<1> SUFFICES ASSUME Init PROVE WatchInv
  OBVIOUS
<1>1. /\ tip = Probed /\ removed = FALSE /\ jobs = <<>> /\ owed = <<>> /\ plans = <<>>
      /\ live = [last |-> NoBlock, leased |-> FALSE]
      /\ wk = [w \in Workers |-> Resting] /\ scanned = {} /\ troubles = 0
  BY DEF Init
<1>2. WorldGood
  <2>1. Probed \in Nat /\ MaxTip \in Nat /\ Probed <= MaxTip /\ MaxTroubles \in Nat
    BY BoundsAssumption
  <2>2. /\ Probed \in Probed .. MaxTip /\ 0 \in 0 .. Probed /\ 0 \in 0 .. MaxTroubles
        /\ FALSE \in BOOLEAN /\ {} \subseteq 1 .. Probed
    BY <2>1
  <2>3. live \in [last : 0 .. tip, leased : BOOLEAN]
    BY <1>1, <2>2 DEF NoBlock
  <2> QED BY <1>1, <2>2, <2>3 DEF WorldGood
<1>3. ListsGood
  BY <1>1, BoundsAssumption DEF ListsGood
<1>4. WorkerGood(Resting, 0, Probed) /\ RowRead(Resting, jobs, scanned)
  <2>1. NewJob \in Row
    BY BoundsAssumption DEF NewJob, Row, NoBlock, Open
  <2> QED BY <2>1, BoundsAssumption
          DEF Resting, WorkerGood, Hand, Places, InJob, RowRead, NoBlock
<1>5. HandsGood
  BY <1>1, <1>4 DEF HandsGood
<1>6. AllRead
  BY <1>1, <1>4 DEF AllRead
<1> QED BY <1>2, <1>3, <1>5, <1>6 DEF WatchInv

LEMMA WatchInvHolds == WatchInv /\ [Next]_vars => WatchInv'
<1> SUFFICES ASSUME WatchInv, [Next]_vars PROVE WatchInv'
  OBVIOUS
<1>1. CASE UNCHANGED vars
  <2>1. /\ tip' = tip /\ removed' = removed /\ jobs' = jobs /\ live' = live /\ wk' = wk
        /\ scanned' = scanned /\ owed' = owed /\ plans' = plans /\ troubles' = troubles
    BY <1>1 DEF vars
  <2>2. WorldMoves
    BY <2>1, WorldStays DEF WatchInv, WorldGood
  <2> QED BY <2>1, <2>2, JobsStay, HandsStay, Moves
<1>2. CASE TriggerBackfill \/ RemoveTarget \/ NewBlock \/ TailLeaseEnds \/ TailLeaseOverrun
  BY <1>2, Triggers, Removes, ChainGrows, TailLeasesEnd
<1>3. CASE \E j \in 1 .. Len(jobs) : LeaseEnds(j) \/ LeaseOverrun(j)
  BY <1>3, LeasesEnd
<1>4. ASSUME NEW w \in Workers, ClaimBackfill(w) \/ JobStep(w) PROVE WatchInv'
  BY <1>4, Claims, GivesUp, Starts, Plans, Scans, RangeEnds, Completes DEF JobStep
<1>5. ASSUME NEW w \in Workers,
             NetworkDown(w) \/ BudgetSpent(w) \/ JobFails(w) \/ Crash(w)
      PROVE  WatchInv'
  BY <1>5, GivesUp, Crashes
<1>6. ASSUME NEW w \in Workers, ClaimTarget(w) \/ TailStep(w) PROVE WatchInv'
  BY <1>6, ClaimsTarget, Polls, PollEnds DEF TailStep
<1> QED BY <1>1, <1>2, <1>3, <1>4, <1>5, <1>6 DEF Next

\* Every state is well formed, whatever the workers do.
THEOREM TypeCorrect == Spec => []TypeOK
<1>1. WatchInv => TypeOK
  <2> SUFFICES ASSUME WatchInv PROVE TypeOK
    OBVIOUS
  <2>1. Probed \in Nat /\ MaxTip \in Nat /\ tip \in Probed .. MaxTip /\ Blocks = 1 .. MaxTip
    BY BoundsAssumption DEF WatchInv, WorldGood, Blocks
  <2>2. 0 .. tip \subseteq Blocks \cup {NoBlock}
    BY <2>1 DEF NoBlock
  <2>3. jobs \in Seq(Job)
    <3>1. jobs \in Seq(Row)
      BY DEF WatchInv, ListsGood
    <3>2. Len(jobs) \in Nat /\ jobs = [j \in 1 .. Len(jobs) |-> jobs[j]]
          /\ \A j \in 1 .. Len(jobs) : jobs[j] \in Row
      BY <3>1
    <3>3. \A j \in 1 .. Len(jobs) : jobs[j] \in Job
      BY <3>2, RowIsJob
    <3> QED BY <3>2, <3>3
  <2>4. ASSUME NEW w \in Workers PROVE wk[w] \in Worker
    <3>1. wk[w] \in Hand(tip)
      BY HandOf
    <3>2. wk[w].row \in Job
      BY <3>1, RowIsJob DEF Hand
    <3> QED BY <2>2, <3>1, <3>2 DEF Hand, Places, Worker
  <2>5. wk \in [Workers -> Worker]
    BY <2>4 DEF WatchInv, HandsGood
  <2> QED BY <2>1, <2>2, <2>3, <2>5 DEF TypeOK, WatchInv, WorldGood, ListsGood
<1> QED BY <1>1, WatchInvStarts, WatchInvHolds, PTL DEF Spec

\* Every plan is exactly the window less what the other backfills had scanned,
\* in ranges that are in order and do not touch (plan_job, subtract_ranges).
THEOREM EveryPlanIsExact == Spec => []PlansAreExact
<1>1. WatchInv => PlansAreExact
  <2> SUFFICES ASSUME WatchInv, NEW j \in 1 .. Len(jobs), jobs[j].planned
               PROVE  /\ InRanges(jobs[j].plan) = owed[j]
                      /\ \A i \in 1 .. Len(jobs[j].plan) :
                            /\ jobs[j].plan[i][1] <= jobs[j].plan[i][2]
                            /\ i > 1 => jobs[j].plan[i - 1][2] + 1 < jobs[j].plan[i][1]
    BY DEF PlansAreExact
  <2>1. JobGood(jobs[j], plans[j], owed[j])
    BY DEF WatchInv, ListsGood
  <2>2. Len(jobs[j].plan) \in Nat
    BY RowOf, PlanParts
  <2> QED BY <2>1, <2>2 DEF JobGood, Blocked, Apart
<1> QED BY <1>1, WatchInvStarts, WatchInvHolds, PTL DEF Spec

\* No worker that outlived its lease, failed or crashed leaves progress that
\* covers a block nobody scanned, while each job is planned only once.
THEOREM ProgressIsReal == Spec => []CoverageIsReal
<1>1. WatchInv => CoverageIsReal
  BY DEF WatchInv, AllRead, JobRead, CoverageIsReal
<1> QED BY <1>1, WatchInvStarts, WatchInvHolds, PTL DEF Spec

\* The window of a completed backfill was read to its last block, by it or by an
\* earlier one, while each job is planned only once.
THEOREM WindowsRead == Spec => []CompletedWindowsAreRead
<1>1. WatchInv => CompletedWindowsAreRead
  <2> SUFFICES ASSUME WatchInv, PlannedOnce, NEW j \in 1 .. Len(jobs),
                      jobs[j].status = "completed"
               PROVE  jobs[j].start .. Probed \subseteq scanned
    BY DEF CompletedWindowsAreRead
  <2>1. JobRead(jobs[j], scanned)
    BY DEF WatchInv, AllRead
  <2> QED BY <2>1 DEF JobRead
<1> QED BY <1>1, WatchInvStarts, WatchInvHolds, PTL DEF Spec

\* "completed: every planned block scanned" (backfill.py, terminal states) is
\* broken by a second plan of a job and by nothing else, also while a worker
\* still has the job in hand.
THEOREM ScannedUnlessReplanned ==
    Spec => [](PlannedOnce => CompletedMeansScanned)
<1>1. WatchInv => (PlannedOnce => CompletedMeansScanned)
  BY DEF WatchInv, AllRead, JobRead, CompletedMeansScanned
<1> QED BY <1>1, WatchInvStarts, WatchInvHolds, PTL DEF Spec

-----------------------------------------------------------------------------
(***************************************************************************)
(* The live tail leaves no block out.                                      *)
(*                                                                         *)
(* A worker that polls holds a cursor of its own and writes it by id, so   *)
(* the cursor of the target may go back to that of a slower worker.  What  *)
(* is inductive is that BOTH cursors end a run of committed blocks that    *)
(* begins where the tail began: whichever is written next, nothing before  *)
(* it is missing.  The jobs and their plans play no part: of a worker the  *)
(* argument needs only that it is a record with these five fields.         *)
(***************************************************************************)

\* A worker has these fields, whatever is in them.
Fields(r) ==
    r = [pc |-> r.pc, id |-> r.id, row |-> r.row, last |-> r.last, to |-> r.to]

\* Every block from the start of the tail to b was read and committed.
ReadUpTo(b) == \A n \in Nat : Probed < n /\ n <= b => n \in scanned

TailShape ==
    /\ tip \in Nat
    /\ live \in [last : Nat, leased : BOOLEAN]
    /\ DOMAIN wk = Workers /\ wk = [w \in Workers |-> wk[w]]
    /\ \A w \in Workers : Fields(wk[w])

CursorsReadUpTo ==
    /\ ReadUpTo(live.last)
    /\ \A w \in Workers : wk[w].pc = "tail" =>
          /\ wk[w].last \in Nat /\ wk[w].to \in Nat
          /\ ReadUpTo(wk[w].last)

TailInv == TailShape /\ CursorsReadUpTo

-----------------------------------------------------------------------------
\* A step that keeps the live cursor, and of the workers moves one to where it
\* does not poll, keeps the invariant: committed blocks stay committed.
LEMMA OffTheTail ==
    ASSUME TailInv, tip' \in Nat, scanned \subseteq scanned',
           live' \in [last : Nat, leased : BOOLEAN], live'.last = live.last,
           NEW w \in Workers, NEW r, Fields(r), r.pc # "tail",
           wk' = [wk EXCEPT ![w] = r]
    PROVE  TailInv'
<1>1. TailShape'
  BY DEF TailInv, TailShape, Fields
<1>2. ASSUME NEW u \in Workers, wk'[u].pc = "tail"
      PROVE  wk'[u] = wk[u]
  BY <1>2 DEF TailInv, TailShape
<1>3. ASSUME NEW b, ReadUpTo(b)
      PROVE  ReadUpTo(b)'
  BY <1>3 DEF ReadUpTo
<1>4. CursorsReadUpTo'
  BY <1>2, <1>3 DEF TailInv, CursorsReadUpTo, ReadUpTo
<1> QED
  BY <1>1, <1>4 DEF TailInv

\* So does a step that leaves the workers alone.
LEMMA WorkersStill ==
    ASSUME TailInv, tip' \in Nat, scanned' = scanned,
           live' \in [last : Nat, leased : BOOLEAN], live'.last = live.last,
           wk' = wk
    PROVE  TailInv'
  BY DEF TailInv, TailShape, CursorsReadUpTo, ReadUpTo, Fields

\* The worker goes on to something else, by Leave.
LEMMA Leaving ==
    ASSUME TailInv, tip' \in Nat, scanned \subseteq scanned',
           live' \in [last : Nat, leased : BOOLEAN], live'.last = live.last,
           NEW w \in Workers, NEW pc, pc # "tail", Leave(w, pc)
    PROVE  TailInv'
<1> DEFINE r == [Resting EXCEPT !.pc = pc]
<1>1. /\ r = [pc |-> pc, id |-> 0, row |-> NewJob, last |-> NoBlock, to |-> NoBlock]
      /\ r.pc # "tail"
  BY DEF Resting
<1>2. Fields(r)
  BY <1>1 DEF Fields
<1>3. wk' = [wk EXCEPT ![w] = r]
  BY DEF Leave
<1> HIDE DEF r
<1> QED
  BY <1>1, <1>2, <1>3, OffTheTail

-----------------------------------------------------------------------------
(* The steps of a worker with a backfill. *)

\* Some fields of one worker's record written, and the others kept.
Claimed(w, pc, id, row) == [wk EXCEPT ![w].pc = pc, ![w].id = id, ![w].row = row]
LEMMA ClaimWritten ==
    ASSUME TailShape, NEW w \in Workers, NEW pc, NEW id, NEW row
    PROVE  Claimed(w, pc, id, row)
             = [wk EXCEPT ![w] = [pc |-> pc, id |-> id, row |-> row,
                                  last |-> wk[w].last, to |-> wk[w].to]]
<1> DEFINE p == wk[w].pc  i == wk[w].id  r == wk[w].row
           l == wk[w].last  t == wk[w].to
<1>1. wk[w] = [pc |-> p, id |-> i, row |-> r, last |-> l, to |-> t]
  BY DEF TailShape, Fields
<1>2. [wk EXCEPT ![w].pc = pc, ![w].id = id, ![w].row = row]
        = [wk EXCEPT ![w] = [wk[w] EXCEPT !.pc = pc, !.id = id, !.row = row]]
  BY DEF TailShape
<1> DEFINE u == [wk[w] EXCEPT !.pc = pc]
           v == [u EXCEPT !.id = id]
<1>3. [wk[w] EXCEPT !.pc = pc, !.id = id, !.row = row] = [v EXCEPT !.row = row]
  OBVIOUS
<1> HIDE DEF Claimed, p, i, r, l, t
<1>4. u = [pc |-> pc, id |-> i, row |-> r, last |-> l, to |-> t]
  BY <1>1
<1> HIDE DEF u
<1>5. v = [pc |-> pc, id |-> id, row |-> r, last |-> l, to |-> t]
  BY <1>4
<1> HIDE DEF v
<1>6. [v EXCEPT !.row = row] = [pc |-> pc, id |-> id, row |-> row, last |-> l, to |-> t]
  BY <1>5
<1> QED
  BY <1>2, <1>3, <1>6 DEF Claimed, p, i, r, l, t

LEMMA PcAndRowWritten ==
    ASSUME TailShape, NEW w \in Workers, NEW pc, NEW row
    PROVE  [wk EXCEPT ![w].pc = pc, ![w].row = row]
             = [wk EXCEPT ![w] = [pc |-> pc, id |-> wk[w].id, row |-> row,
                                  last |-> wk[w].last, to |-> wk[w].to]]
<1> DEFINE p == wk[w].pc  i == wk[w].id  r == wk[w].row
           l == wk[w].last  t == wk[w].to
<1>1. wk[w] = [pc |-> p, id |-> i, row |-> r, last |-> l, to |-> t]
  BY DEF TailShape, Fields
<1>2. [wk EXCEPT ![w].pc = pc, ![w].row = row]
        = [wk EXCEPT ![w] = [wk[w] EXCEPT !.pc = pc, !.row = row]]
  BY DEF TailShape
<1> DEFINE u == [wk[w] EXCEPT !.pc = pc]
<1>3. [wk[w] EXCEPT !.pc = pc, !.row = row] = [u EXCEPT !.row = row]
  OBVIOUS
<1> HIDE DEF p, i, r, l, t
<1>4. u = [pc |-> pc, id |-> i, row |-> r, last |-> l, to |-> t]
  BY <1>1
<1> HIDE DEF u
<1>5. [u EXCEPT !.row = row] = [pc |-> pc, id |-> i, row |-> row, last |-> l, to |-> t]
  BY <1>4
<1> QED
  BY <1>2, <1>3, <1>5 DEF p, i, r, l, t

LEMMA PcWritten ==
    ASSUME TailShape, NEW w \in Workers, NEW pc
    PROVE  [wk EXCEPT ![w].pc = pc]
             = [wk EXCEPT ![w] = [pc |-> pc, id |-> wk[w].id, row |-> wk[w].row,
                                  last |-> wk[w].last, to |-> wk[w].to]]
<1> DEFINE p == wk[w].pc  i == wk[w].id  r == wk[w].row
           l == wk[w].last  t == wk[w].to
<1>1. wk[w] = [pc |-> p, id |-> i, row |-> r, last |-> l, to |-> t]
  BY DEF TailShape, Fields
<1>2. [wk EXCEPT ![w].pc = pc]
        = [wk EXCEPT ![w] = [wk[w] EXCEPT !.pc = pc]]
  BY DEF TailShape
<1> HIDE DEF p, i, r, l, t
<1>3. [wk[w] EXCEPT !.pc = pc] = [pc |-> pc, id |-> i, row |-> r, last |-> l, to |-> t]
  BY <1>1
<1> QED
  BY <1>2, <1>3 DEF p, i, r, l, t

LEMMA RowWritten ==
    ASSUME TailShape, NEW w \in Workers, NEW row
    PROVE  [wk EXCEPT ![w].row = row]
             = [wk EXCEPT ![w] = [pc |-> wk[w].pc, id |-> wk[w].id, row |-> row,
                                  last |-> wk[w].last, to |-> wk[w].to]]
<1> DEFINE p == wk[w].pc  i == wk[w].id  r == wk[w].row
           l == wk[w].last  t == wk[w].to
<1>1. wk[w] = [pc |-> p, id |-> i, row |-> r, last |-> l, to |-> t]
  BY DEF TailShape, Fields
<1>2. [wk EXCEPT ![w].row = row]
        = [wk EXCEPT ![w] = [wk[w] EXCEPT !.row = row]]
  BY DEF TailShape
<1> HIDE DEF p, i, r, l, t
<1>3. [wk[w] EXCEPT !.row = row] = [pc |-> p, id |-> i, row |-> row, last |-> l, to |-> t]
  BY <1>1
<1> QED
  BY <1>2, <1>3 DEF p, i, r, l, t

LEMMA ClaimStep ==
    ASSUME TailInv, NEW w \in Workers, ClaimBackfill(w)
    PROVE  TailInv'
<1>1. PICK j \in Claimable :
        wk' = [wk EXCEPT ![w].pc = "start", ![w].id = j, ![w].row = jobs'[j]]
  BY DEF ClaimBackfill
<1> DEFINE r == [pc |-> "start", id |-> j, row |-> jobs'[j],
                 last |-> wk[w].last, to |-> wk[w].to]
<1>2. wk' = [wk EXCEPT ![w] = r]
  <2> DEFINE row == jobs'[j]
             pc == "start"
  <2>1. wk' = Claimed(w, pc, j, row)
    BY <1>1 DEF Claimed
  <2>2. r = [pc |-> pc, id |-> j, row |-> row, last |-> wk[w].last, to |-> wk[w].to]
    OBVIOUS
  <2> HIDE DEF row, pc, r
  <2>3. Claimed(w, pc, j, row)
          = [wk EXCEPT ![w] = [pc |-> pc, id |-> j, row |-> row,
                               last |-> wk[w].last, to |-> wk[w].to]]
    BY ClaimWritten DEF TailInv
  <2> QED
    BY <2>1, <2>2, <2>3
<1>3. Fields(r) /\ r.pc # "tail"
  BY DEF Fields
<1>4. /\ tip' \in Nat /\ scanned \subseteq scanned'
      /\ live' \in [last : Nat, leased : BOOLEAN] /\ live'.last = live.last
  BY DEF ClaimBackfill, TailInv, TailShape
<1> HIDE DEF r
<1> QED
  BY <1>2, <1>3, <1>4, OffTheTail

LEMMA StartStep ==
    ASSUME TailInv, NEW w \in Workers, StartJob(w)
    PROVE  TailInv'
<1> DEFINE pc == IF wk[w].row.planned THEN "scan" ELSE "plan"
           r == [pc |-> pc, id |-> wk[w].id, row |-> wk[w].row,
                 last |-> wk[w].last, to |-> wk[w].to]
<1>1. wk' = [wk EXCEPT ![w] = r]
  <2>1. wk' = [wk EXCEPT ![w].pc = pc]
    BY DEF StartJob
  <2> HIDE DEF pc
  <2> QED
    BY <2>1, PcWritten DEF TailInv
<1>2. Fields(r) /\ r.pc # "tail"
  BY DEF Fields
<1>3. /\ tip' \in Nat /\ scanned \subseteq scanned'
      /\ live' \in [last : Nat, leased : BOOLEAN] /\ live'.last = live.last
  BY DEF StartJob, TailInv, TailShape
<1> HIDE DEF r
<1> QED
  BY <1>1, <1>2, <1>3, OffTheTail

LEMMA PlanStep ==
    ASSUME TailInv, NEW w \in Workers, PlanJob(w)
    PROVE  TailInv'
<1>1. /\ tip' \in Nat /\ scanned \subseteq scanned'
      /\ live' \in [last : Nat, leased : BOOLEAN] /\ live'.last = live.last
  BY DEF PlanJob, TailInv, TailShape
<1>2. \/ FailedAttempt(w)
      \/ \E row : wk' = [wk EXCEPT ![w].pc = "scan", ![w].row = row]
  BY DEF PlanJob
<1>3. CASE FailedAttempt(w)
  <2>1. Leave(w, "poll")
    BY <1>3 DEF FailedAttempt, Release
  <2> QED
    BY <1>1, <2>1, Leaving
<1>4. CASE \E row : wk' = [wk EXCEPT ![w].pc = "scan", ![w].row = row]
  <2>1. PICK row : wk' = [wk EXCEPT ![w].pc = "scan", ![w].row = row]
    BY <1>4
  <2> DEFINE r == [pc |-> "scan", id |-> wk[w].id, row |-> row,
                   last |-> wk[w].last, to |-> wk[w].to]
  <2>2. wk' = [wk EXCEPT ![w] = r]
    <3> DEFINE pc == "scan"
    <3>1. wk' = [wk EXCEPT ![w].pc = pc, ![w].row = row]
      BY <2>1
    <3>2. r = [pc |-> pc, id |-> wk[w].id, row |-> row,
               last |-> wk[w].last, to |-> wk[w].to]
      OBVIOUS
    <3> HIDE DEF pc, r
    <3>3. [wk EXCEPT ![w].pc = pc, ![w].row = row]
            = [wk EXCEPT ![w] = [pc |-> pc, id |-> wk[w].id, row |-> row,
                                 last |-> wk[w].last, to |-> wk[w].to]]
      BY PcAndRowWritten DEF TailInv
    <3> QED
      BY <3>1, <3>2, <3>3
  <2>3. Fields(r) /\ r.pc # "tail"
    BY DEF Fields
  <2> HIDE DEF r
  <2> QED
    BY <1>1, <2>2, <2>3, OffTheTail
<1> QED
  BY <1>2, <1>3, <1>4

\* Scanning and the end of a range change only the row the worker holds.
LEMMA ScanStep ==
    ASSUME TailInv, NEW w \in Workers, ScanChunk(w) \/ EndRange(w)
    PROVE  TailInv'
<1>1. /\ wk[w].pc = "scan"
      /\ tip' \in Nat /\ scanned \subseteq scanned'
      /\ live' \in [last : Nat, leased : BOOLEAN] /\ live'.last = live.last
  BY DEF ScanChunk, EndRange, TailInv, TailShape
<1>2. \E row : wk' = [wk EXCEPT ![w].row = row]
  <2>1. CASE ScanChunk(w)
    <3>1. PICK to : wk' = [wk EXCEPT ![w].row.cursor = to]
      BY <2>1 DEF ScanChunk
    <3>2. wk' = [wk EXCEPT ![w].row = [wk[w].row EXCEPT !.cursor = to]]
      BY <3>1 DEF TailInv, TailShape, Fields
    <3> QED
      BY <3>2
  <2>2. CASE EndRange(w)
    <3>1. wk' = [wk EXCEPT ![w].row.index = @ + 1, ![w].row.cursor = NoBlock]
      BY <2>2 DEF EndRange
    <3>2. wk' = [wk EXCEPT ![w].row =
                    [wk[w].row EXCEPT !.index = @ + 1, !.cursor = NoBlock]]
      BY <3>1 DEF TailInv, TailShape, Fields
    <3> QED
      BY <3>2
  <2> QED
    BY <2>1, <2>2
<1>3. PICK row : wk' = [wk EXCEPT ![w].row = row]
  BY <1>2
<1> DEFINE r == [pc |-> "scan", id |-> wk[w].id, row |-> row,
                 last |-> wk[w].last, to |-> wk[w].to]
<1>4. wk' = [wk EXCEPT ![w] = r]
  <2>1. [wk EXCEPT ![w].row = row]
          = [wk EXCEPT ![w] = [pc |-> wk[w].pc, id |-> wk[w].id, row |-> row,
                               last |-> wk[w].last, to |-> wk[w].to]]
    BY RowWritten DEF TailInv
  <2> QED
    BY <1>1, <1>3, <2>1
<1>5. Fields(r) /\ r.pc # "tail"
  BY DEF Fields
<1> HIDE DEF r
<1> QED
  BY <1>1, <1>4, <1>5, OffTheTail

\* Every other step of a backfill leaves it.
LEMMA JobEnds ==
    ASSUME TailInv, NEW w \in Workers,
           \/ TargetGone(w) \/ NetworkDown(w) \/ CompleteJob(w)
           \/ BudgetSpent(w) \/ JobFails(w) \/ Crash(w)
    PROVE  TailInv'
<1>1. /\ tip' \in Nat /\ scanned \subseteq scanned'
      /\ live' \in [last : Nat, leased : BOOLEAN] /\ live'.last = live.last
  BY DEF TargetGone, NetworkDown, CompleteJob, BudgetSpent, JobFails, Crash,
         TailInv, TailShape
<1>2. Leave(w, "poll") \/ Leave(w, "idle")
  BY DEF TargetGone, NetworkDown, CompleteJob, BudgetSpent, JobFails, Crash,
         Finish, Release, FailedAttempt
<1> QED
  BY <1>1, <1>2, Leaving

-----------------------------------------------------------------------------
(* The steps of the live tail. *)

\* A poll starts from the cursor of the row it claimed.
LEMMA ClaimTargetStep ==
    ASSUME TailInv, NEW w \in Workers, ClaimTarget(w)
    PROVE  TailInv'
<1> DEFINE last == LiveStart
           to == PollEnd
           pc == "tail"
           r == [pc |-> pc, id |-> 0, row |-> NewJob, last |-> last, to |-> to]
<1>1. /\ Probed \in Nat /\ Confirmations \in Nat /\ MaxPerPoll \in Nat
      /\ tip \in Nat /\ live \in [last : Nat, leased : BOOLEAN]
  BY BoundsAssumption DEF TailInv, TailShape
<1>2. last \in Nat /\ to \in Nat
  BY <1>1 DEF LiveStart, PollEnd, SafeTip, Least, NoBlock
<1>3. ReadUpTo(last)
  <2>1. CASE live.last = NoBlock
    BY <1>1, <2>1 DEF LiveStart, ReadUpTo
  <2>2. CASE live.last # NoBlock
    BY <2>2 DEF TailInv, CursorsReadUpTo, LiveStart
  <2> QED
    BY <2>1, <2>2
<1>4. wk' = [wk EXCEPT ![w] = r]
  <2>1. wk' = [wk EXCEPT ![w] = [Resting EXCEPT !.pc = pc, !.last = last, !.to = to]]
    BY DEF ClaimTarget
  <2> DEFINE u == [Resting EXCEPT !.pc = pc]
             v == [u EXCEPT !.last = last]
  <2>2. [Resting EXCEPT !.pc = pc, !.last = last, !.to = to] = [v EXCEPT !.to = to]
    OBVIOUS
  <2> HIDE DEF last, to, pc
  <2>3. u = [pc |-> pc, id |-> 0, row |-> NewJob, last |-> NoBlock, to |-> NoBlock]
    BY DEF Resting
  <2> HIDE DEF u
  <2>4. v = [pc |-> pc, id |-> 0, row |-> NewJob, last |-> last, to |-> NoBlock]
    BY <2>3
  <2> HIDE DEF v
  <2>5. [v EXCEPT !.to = to] = r
    BY <2>4
  <2> HIDE DEF r
  <2> QED
    BY <2>1, <2>2, <2>5
<1>5. tip' \in Nat /\ scanned' = scanned
  BY <1>1 DEF ClaimTarget
<1>6. live' \in [last : Nat, leased : BOOLEAN] /\ live'.last = live.last
  BY <1>1 DEF ClaimTarget
<1>7. r = [pc |-> r.pc, id |-> r.id, row |-> r.row, last |-> r.last, to |-> r.to]
      /\ r.last = last /\ r.to = to
  OBVIOUS
<1> HIDE DEF r, last, to, pc
<1>8. TailShape'
  BY <1>4, <1>5, <1>6, <1>7 DEF TailInv, TailShape, Fields
<1>9. \A b : ReadUpTo(b) => ReadUpTo(b)'
  BY <1>5 DEF ReadUpTo
<1>10. CursorsReadUpTo'
  <2>1. \A n \in Nat : Probed < n /\ n <= live'.last => n \in scanned'
    BY <1>6, <1>5 DEF TailInv, CursorsReadUpTo, ReadUpTo
  <2>2. ASSUME NEW u \in Workers, wk'[u].pc = "tail"
        PROVE  /\ wk'[u].last \in Nat /\ wk'[u].to \in Nat
               /\ \A n \in Nat : Probed < n /\ n <= wk'[u].last => n \in scanned'
    <3>1. CASE u = w
      <4>1. wk'[u] = r
        BY <1>4, <3>1 DEF TailInv, TailShape
      <4> QED
        BY <1>2, <1>3, <1>5, <1>7, <4>1 DEF ReadUpTo
    <3>2. CASE u # w
      <4>1. wk'[u] = wk[u]
        BY <1>4, <3>2 DEF TailInv, TailShape
      <4> QED
        BY <1>5, <2>2, <4>1 DEF TailInv, CursorsReadUpTo, ReadUpTo
    <3> QED
      BY <3>1, <3>2
  <2> QED
    BY <2>1, <2>2 DEF CursorsReadUpTo, ReadUpTo
<1> QED
  BY <1>8, <1>10 DEF TailInv

\* A chunk begins right after the cursor of its worker, and the cursor of the
\* target goes to the end of that chunk, wherever it was before.
LEMMA PollChunkStep ==
    ASSUME TailInv, NEW w \in Workers, PollChunk(w)
    PROVE  TailInv'
<1> DEFINE last == wk[w].last
<1>1. wk[w].pc = "tail" /\ last \in Nat /\ wk[w].to \in Nat /\ ReadUpTo(last)
  BY DEF PollChunk, TailInv, CursorsReadUpTo
<1>2. PICK to \in Chunk(last + 1, wk[w].to) :
        /\ scanned' = scanned \cup (last + 1 .. to)
        /\ live' = [live EXCEPT !.last = to]
        /\ wk' = [wk EXCEPT ![w].last = to]
  BY DEF PollChunk
<1>3. to \in Nat
  BY <1>1, <1>2 DEF Chunk
<1>4. \A n \in Nat : Probed < n /\ n <= to => n \in scanned'
  BY <1>1, <1>2, <1>3 DEF ReadUpTo
<1>5. \A b : ReadUpTo(b) => ReadUpTo(b)'
  BY <1>2 DEF ReadUpTo
<1>6. live' \in [last : Nat, leased : BOOLEAN] /\ live'.last = to
  BY <1>2, <1>3 DEF TailInv, TailShape
<1> DEFINE r == [wk[w] EXCEPT !.last = to]
<1>7. wk' = [wk EXCEPT ![w] = r]
  BY <1>2 DEF TailInv, TailShape
<1>8. r = [pc |-> wk[w].pc, id |-> wk[w].id, row |-> wk[w].row,
           last |-> to, to |-> wk[w].to]
  BY DEF TailInv, TailShape, Fields
<1> HIDE DEF r
<1>9. Fields(r) /\ r.last = to /\ r.to = wk[w].to
  BY <1>8 DEF Fields
<1>10. tip' \in Nat
  BY DEF PollChunk, TailInv, TailShape
<1>11. TailShape'
  BY <1>6, <1>7, <1>9, <1>10 DEF TailInv, TailShape, Fields
<1>12. ASSUME NEW u \in Workers, wk'[u].pc = "tail"
       PROVE  /\ wk'[u].last \in Nat /\ wk'[u].to \in Nat
              /\ \A n \in Nat : Probed < n /\ n <= wk'[u].last => n \in scanned'
  <2>1. CASE u = w
    <3>1. wk'[u] = r
      BY <1>7, <2>1 DEF TailInv, TailShape
    <3> QED
      BY <1>1, <1>3, <1>4, <1>9, <3>1
  <2>2. CASE u # w
    <3>1. wk'[u] = wk[u]
      BY <1>7, <2>2 DEF TailInv, TailShape
    <3> QED
      BY <1>2, <1>12, <3>1 DEF TailInv, CursorsReadUpTo, ReadUpTo
  <2> QED
    BY <2>1, <2>2
<1>13. CursorsReadUpTo'
  BY <1>4, <1>6, <1>12 DEF CursorsReadUpTo, ReadUpTo
<1> QED
  BY <1>11, <1>13 DEF TailInv

LEMMA TailEnds ==
    ASSUME TailInv, NEW w \in Workers, NoTarget(w) \/ EndPoll(w)
    PROVE  TailInv'
<1>1. /\ tip' \in Nat /\ scanned \subseteq scanned'
      /\ live' \in [last : Nat, leased : BOOLEAN] /\ live'.last = live.last
  BY DEF NoTarget, EndPoll, TailInv, TailShape
<1>2. Leave(w, "idle")
  BY DEF NoTarget, EndPoll
<1> QED
  BY <1>1, <1>2, Leaving

-----------------------------------------------------------------------------
(* The endpoints, the chain and the leases. *)

LEMMA WorldStep ==
    ASSUME TailInv,
           \/ TriggerBackfill \/ RemoveTarget \/ NewBlock
           \/ \E j \in 1 .. Len(jobs) : LeaseEnds(j) \/ LeaseOverrun(j)
           \/ TailLeaseEnds \/ TailLeaseOverrun
    PROVE  TailInv'
<1> DEFINE Still == /\ tip' \in Nat /\ scanned' = scanned /\ wk' = wk
                    /\ live' \in [last : Nat, leased : BOOLEAN]
                    /\ live'.last = live.last
<1>1. tip \in Nat /\ live \in [last : Nat, leased : BOOLEAN]
  BY DEF TailInv, TailShape
<1>2. ASSUME TriggerBackfill
      PROVE  Still
  <2>1. tip' = tip /\ scanned' = scanned /\ wk' = wk /\ live' = live
    BY <1>2 DEF TriggerBackfill
  <2> QED
    BY <1>1, <2>1
<1>3. ASSUME NewBlock
      PROVE  Still
  <2>1. tip' = tip + 1 /\ scanned' = scanned /\ wk' = wk /\ live' = live
    BY <1>3 DEF NewBlock
  <2> QED
    BY <1>1, <2>1
<1>4. ASSUME RemoveTarget \/ TailLeaseEnds \/ TailLeaseOverrun
      PROVE  Still
  <2>1. /\ tip' = tip /\ scanned' = scanned /\ wk' = wk
        /\ live' = [live EXCEPT !.leased = FALSE]
    BY <1>4 DEF RemoveTarget, TailLeaseEnds, TailLeaseOverrun
  <2> QED
    BY <1>1, <2>1
<1>5. ASSUME \E j \in 1 .. Len(jobs) : LeaseEnds(j) \/ LeaseOverrun(j)
      PROVE  Still
  <2>1. tip' = tip /\ scanned' = scanned /\ wk' = wk /\ live' = live
    BY <1>5 DEF LeaseEnds, LeaseOverrun
  <2> QED
    BY <1>1, <2>1
<1>6. Still
  BY <1>2, <1>3, <1>4, <1>5
<1> QED
  BY <1>6, WorkersStill

-----------------------------------------------------------------------------
LEMMA TailInvStarts == Init => TailInv
<1> SUFFICES ASSUME Init PROVE TailInv
  OBVIOUS
<1>1. TailShape
  BY BoundsAssumption DEF Init, TailShape, Fields, Resting, NoBlock
<1>2. CursorsReadUpTo
  BY BoundsAssumption DEF Init, CursorsReadUpTo, ReadUpTo, Resting, NoBlock
<1> QED
  BY <1>1, <1>2 DEF TailInv

LEMMA TailInvHolds == TailInv /\ [Next]_vars => TailInv'
<1> SUFFICES ASSUME TailInv, [Next]_vars PROVE TailInv'
  OBVIOUS
<1>1. CASE UNCHANGED vars
  <2>1. /\ tip' \in Nat /\ scanned' = scanned /\ wk' = wk
        /\ live' \in [last : Nat, leased : BOOLEAN] /\ live'.last = live.last
    BY <1>1 DEF vars, TailInv, TailShape
  <2> QED
    BY <2>1, WorkersStill
<1>2. CASE \/ TriggerBackfill \/ RemoveTarget \/ NewBlock
           \/ \E j \in 1 .. Len(jobs) : LeaseEnds(j) \/ LeaseOverrun(j)
           \/ TailLeaseEnds \/ TailLeaseOverrun
  BY <1>2, WorldStep
<1>3. ASSUME NEW w \in Workers, ClaimBackfill(w) PROVE TailInv'
  BY <1>3, ClaimStep
<1>4. ASSUME NEW w \in Workers, JobStep(w) PROVE TailInv'
  BY <1>4, StartStep, PlanStep, ScanStep, JobEnds DEF JobStep
<1>5. ASSUME NEW w \in Workers,
             NetworkDown(w) \/ BudgetSpent(w) \/ JobFails(w) \/ Crash(w)
      PROVE  TailInv'
  BY <1>5, JobEnds
<1>6. ASSUME NEW w \in Workers, ClaimTarget(w) PROVE TailInv'
  BY <1>6, ClaimTargetStep
<1>7. ASSUME NEW w \in Workers, TailStep(w) PROVE TailInv'
  BY <1>7, PollChunkStep, TailEnds DEF TailStep
<1> QED
  BY <1>1, <1>2, <1>3, <1>4, <1>5, <1>6, <1>7 DEF Next

\* The live tail leaves no block out between its start and its cursor, with any
\* number of pollers whose cursors are written by id and whose leases may be
\* overrun (poll_target).
THEOREM TailHasNoGap == Spec => []LiveTailHasNoGap
<1>1. TailInv => LiveTailHasNoGap
  <2> SUFFICES ASSUME TailInv, NEW n \in Probed + 1 .. live.last PROVE n \in scanned
    BY DEF LiveTailHasNoGap
  <2>1. Probed \in Nat /\ live.last \in Nat
    BY BoundsAssumption DEF TailInv, TailShape
  <2>2. n \in Nat /\ Probed < n /\ n <= live.last
    BY <2>1
  <2> QED
    BY <2>2 DEF TailInv, CursorsReadUpTo, ReadUpTo
<1> QED
  BY <1>1, TailInvStarts, TailInvHolds, PTL DEF Spec
=============================================================================
