------------------------ MODULE AssetRiskJobs_proofs ------------------------
(***************************************************************************)
(* Theorems about the job queue of the Asset Risk Assessor, for any        *)
(* number of assets, replicas, requests, attempts and mishaps.             *)
(*                                                                         *)
(* The row lock of a claim and the index of active jobs protect what is    *)
(* committed; the invariant says what they protect meanwhile: which job a  *)
(* transaction has locked, which assets it has inserted a job of, and that *)
(* nobody else can have a hand in these.                                   *)
(***************************************************************************)
EXTENDS AssetRiskJobs, SequenceTheorems, FiniteSetTheorems, TLAPS

-----------------------------------------------------------------------------
(* The invariant. *)

\* What a transaction r has in hand, at each place of its code, when the asset
\* rows are A.
Place(r, A) ==
    /\ IsFiniteSet(r.mine)
    /\ r.claim # 0 <=> r.pc \in {"claimed", "assess"}
    /\ r.pc \in {"insert", "claimed", "assess", "inline"} => r.at \in Assets
    /\ r.mine # {} => r.pc \in {"enqueue", "insert", "inline"}
    /\ r.pc = "inline" => r.mine = {r.at}
    /\ r.pc \in {"enqueue", "insert"} => \A a \in r.mine \cup r.todo : A[a] # "absent"
    /\ r.pc = "insert" => A[r.at] # "absent"
    /\ r.pc = "idle" => r.todo = {}

\* The job r has claimed is one of J that waits for its outcome.
Holds(r, J) == r.claim # 0 => /\ r.claim \in 1 .. Len(J) /\ J[r.claim].status \in Active
                              /\ J[r.claim].asset = r.at

\* Two transactions do not lock one job, or insert a job of one asset.
Apart(r, s) == /\ r.mine \cap s.mine = {}
               /\ r.claim = s.claim => r.claim = 0

\* The row j of a job, of which the history tells t: a job that was settled inline
\* never waits, any other is as AttemptsDecide says.
Decided(j, t) ==
    /\ t.inline => j.status \notin Active
    /\ ~t.inline => /\ j.status = "queued" => j.attempts < MaxAttempts
                    /\ j.status = "failed" => j.attempts = MaxAttempts
                    /\ j.status \in {"queued", "failed"} =>
                          j.attempts + t.undone = t.failed
AllDecided == \A j \in 1 .. Len(jobs) : Decided(jobs[j], tries[j])

Places == \A p \in Procs : /\ Place(proc[p], assets) /\ Holds(proc[p], jobs)
                           /\ \A a \in proc[p].mine : ActiveJobs(a) = {}
AllApart == \A p, q \in Procs : p # q => Apart(proc[p], proc[q])
AbsentQuiet == \A a \in Assets : assets[a] = "absent" => ActiveJobs(a) = {}

IInv == /\ TypeOK /\ Places /\ AllApart /\ AbsentQuiet
        /\ OneActiveJobPerAsset /\ AllDecided
-----------------------------------------------------------------------------
(* Moves of the job table. *)

\* The committed jobs of a step that inserts active ones for the assets of S:
\* old rows keep their asset, and their outcome if they have one.
Inserts(S) ==
    /\ jobs' \in Seq(Job) /\ Len(jobs) <= Len(jobs')
    /\ tries' \in Seq(Try) /\ Len(tries') = Len(jobs')
    /\ \A j \in 1 .. Len(jobs) :
          /\ jobs'[j].asset = jobs[j].asset
          /\ jobs[j].status \notin Active => jobs'[j] = jobs[j]
    /\ \A j \in 1 .. Len(jobs') : j > Len(jobs) =>
          /\ jobs'[j].status \in Active => jobs'[j].asset \in S
          /\ \A k \in 1 .. Len(jobs') :
                k > Len(jobs) /\ jobs'[j].asset = jobs'[k].asset => j = k
    /\ \A j \in 1 .. Len(jobs') : Decided(jobs'[j], tries'[j])

\* The history keeps its shape.
TriesStay == tries' \in Seq(Try) /\ Len(tries') = Len(tries)

LEMMA JobFields ==
    /\ \A j \in Job : j.asset \in Assets /\ j.status \in Active \cup Settled
                      /\ j.attempts \in Nat
    /\ \A a \in Assets, s \in Active \cup Settled, n \in Nat :
          /\ NewJob(a, s, n) \in Job /\ NewJob(a, s, n).asset = a
          /\ NewJob(a, s, n).status = s /\ NewJob(a, s, n).attempts = n
    /\ \A j \in Job, s \in Active \cup Settled :
          /\ [j EXCEPT !.status = s] \in Job /\ [j EXCEPT !.status = s].asset = j.asset
          /\ [j EXCEPT !.status = s].status = s
          /\ [j EXCEPT !.status = s].attempts = j.attempts
BY DEF Job, NewJob

LEMMA JobsTyped ==
    ASSUME TypeOK
    PROVE  /\ Len(jobs) \in Nat /\ \A j \in 1 .. Len(jobs) : jobs[j] \in Job
           /\ Len(tries) = Len(jobs) /\ \A j \in 1 .. Len(jobs) : tries[j] \in Try
           /\ \A j \in 1 .. Len(jobs) : jobs[j].asset \in Assets /\ jobs[j].attempts \in Nat
<1>1. jobs \in Seq(Job) /\ tries \in Seq(Try) /\ Len(tries) = Len(jobs)
  BY DEF TypeOK
<1>2. Len(jobs) \in Nat
  BY <1>1, LenProperties
<1>3. \A j \in 1 .. Len(jobs) : jobs[j] \in Job /\ tries[j] \in Try
  BY <1>1, ElementOfSeq
<1> QED BY <1>1, <1>2, <1>3, JobFields

LEMMA FunctionIsSeq ==
    ASSUME NEW S, NEW n \in Nat, NEW f \in [1 .. n -> S]
    PROVE  f \in Seq(S) /\ Len(f) = n
OBVIOUS

LEMMA BoundsUsed == MaxAttempts \in Nat /\ MaxAttempts > 0 /\ Active = {"queued"}
                    /\ NoAsset \notin Assets
BY BoundsAssumption DEF Active, NoAsset

LEMMA UntriedFields ==
    /\ Untried \in Try /\ Untried.failed = 0 /\ Untried.undone = 0 /\ ~Untried.inline
    /\ \A t \in Try : t.failed \in Nat /\ t.undone \in Nat /\ t.inline \in BOOLEAN
BY DEF Untried, Try

LEMMA TriesKept ==
    ASSUME TypeOK, AllDecided, tries' = tries
    PROVE  TriesStay /\ \A j \in 1 .. Len(jobs) : Decided(jobs[j], tries'[j])
BY DEF TypeOK, AllDecided, TriesStay

\* An assessment that failed is entered in the history of its job.
LEMMA TriesBlamed ==
    ASSUME TypeOK, NEW c \in 1 .. Len(jobs), NEW u \in Nat, Blame(c, u)
    PROVE  /\ TriesStay /\ \A j \in 1 .. Len(jobs) \ {c} : tries'[j] = tries[j]
           /\ tries'[c].failed = tries[c].failed + 1
           /\ tries'[c].undone = tries[c].undone + u
           /\ tries'[c].inline = tries[c].inline
<1> DEFINE t == [tries[c] EXCEPT !.failed = @ + 1, !.undone = @ + u]
<1>1. tries \in Seq(Try) /\ Len(tries) = Len(jobs) /\ tries[c] \in Try
  BY JobsTyped DEF TypeOK
<1>2. /\ t \in Try /\ t.failed = tries[c].failed + 1 /\ t.undone = tries[c].undone + u
      /\ t.inline = tries[c].inline
  <2>1. tries[c].failed + 1 \in Nat /\ tries[c].undone + u \in Nat
    BY <1>1, UntriedFields
  <2> QED BY <1>1, <2>1 DEF Try
<1>3. tries' = [tries EXCEPT ![c] = t]
  <2>1. tries' = [tries EXCEPT ![c].failed = @ + 1, ![c].undone = @ + u]
    BY DEF Blame
  <2>2. tries \in [1 .. Len(jobs) -> Try]
    BY <1>1, LenProperties
  <2> QED BY <2>1, <2>2
<1> HIDE DEF t
<1>4. /\ tries' \in Seq(Try) /\ Len(tries') = Len(tries)
      /\ \A j \in 1 .. Len(tries) : tries'[j] = IF j = c THEN t ELSE tries[j]
  BY <1>1, <1>2, <1>3, ExceptSeq
<1> QED BY <1>1, <1>2, <1>4 DEF TriesStay

\* Nothing is committed.
LEMMA InsertsNone ==
    ASSUME TypeOK, jobs' = jobs, TriesStay,
           \A j \in 1 .. Len(jobs) : Decided(jobs[j], tries'[j])
    PROVE  Inserts({})
BY JobsTyped DEF Inserts, TypeOK, TriesStay

\* CommitInserts and its use in the endpoint and in the creation of an asset.
LEMMA InsertsSet ==
    ASSUME TypeOK, AllDecided, NEW S \in SUBSET Assets, IsFiniteSet(S), CommitInserts(S)
    PROVE  Inserts(S) /\ \A j \in 1 .. Len(jobs) : jobs'[j] = jobs[j]
<1> DEFINE n == Cardinality(S)
           zeros == [i \in 1 .. n |-> Untried]
<1>1. n \in Nat
  BY FS_CardinalityType
<1>2. PICK order \in Orders(S) :
          /\ jobs' = jobs \o [i \in 1 .. n |-> NewJob(order[i], "queued", 0)]
          /\ tries' = tries \o zeros
  BY DEF CommitInserts
<1> DEFINE new == [i \in 1 .. n |-> NewJob(order[i], "queued", 0)]
<1>3. /\ \A i \in 1 .. n : order[i] \in S
      /\ \A i, k \in 1 .. n : order[i] = order[k] => i = k
  BY <1>2 DEF Orders
<1>4. \A i \in 1 .. n : /\ new[i] \in Job /\ new[i].asset = order[i]
                        /\ new[i].status = "queued" /\ new[i].attempts = 0
  <2> TAKE i \in 1 .. n
  <2>1. order[i] \in Assets
    BY <1>3
  <2>2. new[i] = NewJob(order[i], "queued", 0) /\ "queued" \in Active
    BY DEF Active
  <2> HIDE DEF new
  <2> QED BY <2>1, <2>2, JobFields
<1>5. new \in Seq(Job) /\ Len(new) = n /\ zeros \in Seq(Try) /\ Len(zeros) = n
  <2>1. Untried \in Try
    BY UntriedFields
  <2>2. zeros \in [1 .. n -> Try]
    BY <2>1
  <2> QED BY <1>1, <1>4, <2>2, FunctionIsSeq
<1>14. \A i \in 1 .. n : zeros[i] = Untried
  OBVIOUS
<1> HIDE DEF n, new, zeros
<1>6. jobs \in Seq(Job) /\ tries \in Seq(Try) /\ Len(tries) = Len(jobs) /\ Len(jobs) \in Nat
  BY JobsTyped DEF TypeOK
<1>7. /\ jobs' = jobs \o new /\ tries' = tries \o zeros
  BY <1>2 DEF new
<1>8. /\ jobs' \in Seq(Job) /\ Len(jobs') = Len(jobs) + n
      /\ \A i \in 1 .. Len(jobs) + n :
            jobs'[i] = IF i <= Len(jobs) THEN jobs[i] ELSE new[i - Len(jobs)]
  <2>1. new \in Seq(Job) /\ jobs \in Seq(Job)
    BY <1>5, <1>6
  <2>2. /\ jobs \o new \in Seq(Job) /\ Len(jobs \o new) = Len(jobs) + Len(new)
        /\ \A i \in 1 .. Len(jobs) + Len(new) :
              (jobs \o new)[i] = IF i <= Len(jobs) THEN jobs[i] ELSE new[i - Len(jobs)]
    BY <2>1, ConcatProperties, Zenon
  <2>3. Len(new) = n
    BY <1>5
  <2> QED BY <2>2, <2>3, <1>7, Zenon
<1>9. /\ tries' \in Seq(Try) /\ Len(tries') = Len(jobs) + n
      /\ \A i \in 1 .. Len(jobs) + n :
            tries'[i] = IF i <= Len(jobs) THEN tries[i] ELSE zeros[i - Len(jobs)]
  <2>1. zeros \in Seq(Try) /\ tries \in Seq(Try) /\ Len(tries) = Len(jobs) /\ Len(zeros) = n
    BY <1>5, <1>6
  <2>2. /\ tries \o zeros \in Seq(Try) /\ Len(tries \o zeros) = Len(tries) + Len(zeros)
        /\ \A i \in 1 .. Len(tries) + Len(zeros) :
              (tries \o zeros)[i] = IF i <= Len(tries) THEN tries[i]
                                                       ELSE zeros[i - Len(tries)]
    BY <2>1, ConcatProperties, Zenon
  <2> QED BY <2>1, <2>2, <1>7, Zenon
<1>10. \A j \in 1 .. Len(jobs) : jobs'[j] = jobs[j] /\ tries'[j] = tries[j]
  BY <1>1, <1>6, <1>8, <1>9
<1>11. \A j \in 1 .. Len(jobs') : j > Len(jobs) =>
          /\ j - Len(jobs) \in 1 .. n /\ jobs'[j] = new[j - Len(jobs)]
          /\ tries'[j] = Untried
  BY <1>1, <1>6, <1>8, <1>9, <1>14
<1>12. \A j \in 1 .. Len(jobs') : Decided(jobs'[j], tries'[j])
  <2> TAKE j \in 1 .. Len(jobs')
  <2>1. CASE j > Len(jobs)
    <3> DEFINE i == j - Len(jobs)
    <3>1. i \in 1 .. n /\ jobs'[j] = new[i] /\ tries'[j] = Untried
      BY <2>1, <1>11
    <3>2. new[i].status = "queued" /\ new[i].attempts = 0
      BY <3>1, <1>4
    <3>3. Decided(new[i], Untried)
      BY <3>2, BoundsUsed, UntriedFields DEF Decided
    <3> QED BY <3>1, <3>3
  <2>2. CASE ~(j > Len(jobs))
    <3>1. j \in 1 .. Len(jobs)
      BY <2>2, <1>1, <1>6, <1>8
    <3> QED BY <3>1, <1>10 DEF AllDecided
  <2> QED BY <2>1, <2>2
<1>13. \A j \in 1 .. Len(jobs') : j > Len(jobs) =>
          /\ jobs'[j].asset \in S
          /\ \A k \in 1 .. Len(jobs') :
                k > Len(jobs) /\ jobs'[j].asset = jobs'[k].asset => j = k
  <2> SUFFICES ASSUME NEW j \in 1 .. Len(jobs'), j > Len(jobs)
               PROVE  /\ jobs'[j].asset \in S
                      /\ \A k \in 1 .. Len(jobs') :
                            k > Len(jobs) /\ jobs'[j].asset = jobs'[k].asset => j = k
    OBVIOUS
  <2>1. \A k \in 1 .. Len(jobs') : k > Len(jobs) =>
            k - Len(jobs) \in 1 .. n /\ jobs'[k].asset = order[k - Len(jobs)]
    BY <1>11, <1>4
  <2>2. jobs'[j].asset \in S
    BY <2>1, <1>3
  <2>3. ASSUME NEW k \in 1 .. Len(jobs'), k > Len(jobs), jobs'[j].asset = jobs'[k].asset
        PROVE  j = k
    <3>1. j - Len(jobs) = k - Len(jobs)
      BY <2>1, <2>3, <1>3
    <3> QED BY <3>1, <1>1, <1>6, <1>8
  <2> QED BY <2>2, <2>3
<1> QED BY <1>1, <1>6, <1>8, <1>9, <1>10, <1>12, <1>13 DEF Inserts

\* An inline run commits its job settled.
LEMMA InsertsOne ==
    ASSUME TypeOK, AllDecided, NEW a \in Assets, NEW s \in Settled, NEW n \in Nat,
           CommitOne(a, s, n)
    PROVE  Inserts({}) /\ \A j \in 1 .. Len(jobs) : jobs'[j] = jobs[j]
<1> DEFINE x == NewJob(a, s, n)
           y == [Untried EXCEPT !.inline = TRUE]
<1>1. x \in Job /\ x.status = s /\ x.attempts = n
  BY JobFields
<1>11. y \in Try /\ y.inline
  BY UntriedFields DEF Try, Untried
<1>2. s \notin Active /\ s # "queued"
  BY DEF Settled, Active
<1>3. jobs' = Append(jobs, x) /\ tries' = Append(tries, y)
  BY DEF CommitOne
<1> HIDE DEF x, y
<1>4. jobs \in Seq(Job) /\ tries \in Seq(Try) /\ Len(tries) = Len(jobs) /\ Len(jobs) \in Nat
  BY JobsTyped DEF TypeOK
<1>5. /\ jobs' \in Seq(Job) /\ Len(jobs') = Len(jobs) + 1
      /\ \A j \in 1 .. Len(jobs) : jobs'[j] = jobs[j]
      /\ jobs'[Len(jobs) + 1] = x
  BY <1>1, <1>3, <1>4, AppendProperties
<1>6. /\ tries' \in Seq(Try) /\ Len(tries') = Len(jobs) + 1
      /\ \A j \in 1 .. Len(jobs) : tries'[j] = tries[j]
      /\ tries'[Len(jobs) + 1] = y
  BY <1>11, <1>3, <1>4, AppendProperties
<1>7. \A j \in 1 .. Len(jobs') : j > Len(jobs) => j = Len(jobs) + 1
  BY <1>4, <1>5
<1>8. Decided(x, y)
  BY <1>1, <1>2, <1>11 DEF Decided
<1>9. \A j \in 1 .. Len(jobs') : Decided(jobs'[j], tries'[j])
  <2> TAKE j \in 1 .. Len(jobs')
  <2>1. j \in 1 .. Len(jobs) \/ j = Len(jobs) + 1
    BY <1>4, <1>5
  <2> QED BY <2>1, <1>5, <1>6, <1>8 DEF AllDecided
<1>10. Len(jobs) <= Len(jobs')
  BY <1>4, <1>5
<1> QED BY <1>1, <1>2, <1>5, <1>6, <1>7, <1>9, <1>10 DEF Inserts

\* A claimed job is settled, or goes back with one attempt more.
LEMMA InsertsSettled ==
    ASSUME TypeOK, AllDecided, NEW c \in 1 .. Len(jobs), jobs[c].status \in Active,
           NEW s \in Active \cup Settled, NEW n \in Nat, Decided(NewJob(jobs[c].asset, s, n), tries'[c]),
           jobs' = [jobs EXCEPT ![c] = NewJob(@.asset, s, n)],
           TriesStay, \A j \in 1 .. Len(jobs) \ {c} : tries'[j] = tries[j]
    PROVE  /\ Inserts({}) /\ Len(jobs') = Len(jobs)
           /\ \A j \in 1 .. Len(jobs) \ {c} : jobs'[j] = jobs[j]
<1> DEFINE x == NewJob(jobs[c].asset, s, n)
<1>1. /\ jobs \in Seq(Job) /\ Len(tries) = Len(jobs) /\ Len(jobs) \in Nat
      /\ jobs[c].asset \in Assets
  BY JobsTyped DEF TypeOK
<1>2. x \in Job /\ x.asset = jobs[c].asset
  BY <1>1, JobFields
<1>3. Decided(x, tries'[c]) /\ jobs' = [jobs EXCEPT ![c] = x]
  OBVIOUS
<1> HIDE DEF x
<1>4. /\ jobs' \in Seq(Job) /\ Len(jobs') = Len(jobs)
      /\ \A j \in 1 .. Len(jobs) : jobs'[j] = IF j = c THEN x ELSE jobs[j]
  BY <1>1, <1>2, <1>3, ExceptSeq
<1>5. \A j \in 1 .. Len(jobs') : Decided(jobs'[j], tries'[j])
  BY <1>3, <1>4 DEF AllDecided
<1>6. \A j \in 1 .. Len(jobs) : /\ jobs'[j].asset = jobs[j].asset
                                /\ jobs[j].status \notin Active => jobs'[j] = jobs[j]
  BY <1>2, <1>4
<1>7. \A j \in 1 .. Len(jobs') : ~(j > Len(jobs))
  BY <1>1, <1>4
<1> QED BY <1>1, <1>4, <1>5, <1>6, <1>7 DEF Inserts, TriesStay

\* Reconciliation blocks jobs that wait, and no others.
LEMMA InsertsStuck ==
    ASSUME TypeOK, AllDecided, ReconcileStuckJobs
    PROVE  /\ Inserts({}) /\ Len(jobs') = Len(jobs)
           /\ \A j \in 1 .. Len(jobs) : Locked(j) => jobs'[j] = jobs[j]
<1>1. /\ jobs \in Seq(Job) /\ Len(tries) = Len(jobs) /\ Len(jobs) \in Nat
      /\ tries' = tries /\ tries \in Seq(Try)
      /\ \A j \in 1 .. Len(jobs) : jobs[j] \in Job
  BY JobsTyped DEF TypeOK, ReconcileStuckJobs
<1> DEFINE row(j) == IF j \in Stuck THEN [jobs[j] EXCEPT !.status = "blocked"] ELSE jobs[j]
<1>2. /\ jobs' = [j \in 1 .. Len(jobs) |-> row(j)]
      /\ \A j \in Stuck : ~Locked(j) /\ jobs[j].status \in Active
  BY DEF ReconcileStuckJobs, Stuck
<1>3. \A j \in 1 .. Len(jobs) : /\ row(j) \in Job /\ row(j).asset = jobs[j].asset
                                /\ Decided(row(j), tries[j])
  <2> TAKE j \in 1 .. Len(jobs)
  <2>1. CASE j \in Stuck
    <3>1. /\ row(j) \in Job /\ row(j).asset = jobs[j].asset /\ row(j).status = "blocked"
      BY <2>1, <1>1, JobFields DEF Settled
    <3> QED BY <3>1 DEF Decided, Active
  <2>2. CASE j \notin Stuck
    BY <2>2, <1>1 DEF AllDecided
  <2> QED BY <2>1, <2>2
<1>4. \A j \in 1 .. Len(jobs) : (jobs[j].status \notin Active \/ Locked(j)) => row(j) = jobs[j]
  BY <1>2
<1>5. /\ jobs' \in Seq(Job) /\ Len(jobs') = Len(jobs)
      /\ \A j \in 1 .. Len(jobs) : jobs'[j] = row(j)
  <2> HIDE DEF row
  <2>1. jobs' \in [1 .. Len(jobs) -> Job] /\ \A j \in 1 .. Len(jobs) : jobs'[j] = row(j)
    BY <1>2, <1>3
  <2> QED BY <2>1, <1>1, FunctionIsSeq
<1> HIDE DEF row
<1>6. \A j \in 1 .. Len(jobs') : ~(j > Len(jobs))
  BY <1>1, <1>5
<1> QED BY <1>1, <1>3, <1>4, <1>5, <1>6 DEF Inserts
-----------------------------------------------------------------------------
(* What such a move keeps. *)

LEMMA ActiveAfter ==
    ASSUME TypeOK, OneActiveJobPerAsset, NEW S \in SUBSET Assets, Inserts(S),
           \A a \in S : ActiveJobs(a) = {}
    PROVE  /\ \A a \in Assets \ S : ActiveJobs(a)' \subseteq ActiveJobs(a)
           /\ OneActiveJobPerAsset' /\ AllDecided'
           /\ jobs' \in Seq(Job) /\ tries' \in Seq(Try) /\ Len(tries') = Len(jobs')
           /\ Len(jobs) \in Nat /\ Len(jobs') \in Nat /\ Len(jobs) <= Len(jobs')
<1>1. /\ jobs' \in Seq(Job) /\ tries' \in Seq(Try) /\ Len(tries') = Len(jobs')
      /\ Len(jobs) \in Nat /\ Len(jobs) <= Len(jobs')
  BY JobsTyped DEF Inserts
<1>2. Len(jobs') \in Nat
  BY <1>1, LenProperties
<1>3. AllDecided'
  BY DEF Inserts, AllDecided
<1>4. \A a \in Assets : \A j \in ActiveJobs(a)' :
          /\ j \in 1 .. Len(jobs') /\ jobs'[j].asset = a /\ jobs'[j].status \in Active
          /\ j <= Len(jobs) => j \in ActiveJobs(a)
          /\ j > Len(jobs) => a \in S
  <2> TAKE a \in Assets
  <2> TAKE j \in ActiveJobs(a)'
  <2>1. j \in 1 .. Len(jobs') /\ jobs'[j].asset = a /\ jobs'[j].status \in Active
    BY DEF ActiveJobs
  <2>2. ASSUME j <= Len(jobs) PROVE j \in ActiveJobs(a)
    <3>1. j \in 1 .. Len(jobs)
      BY <2>1, <2>2, <1>1, <1>2
    <3>2. /\ jobs'[j].asset = jobs[j].asset
          /\ jobs[j].status \notin Active => jobs'[j] = jobs[j]
      BY <3>1 DEF Inserts
    <3> QED BY <3>1, <3>2, <2>1 DEF ActiveJobs
  <2>3. ASSUME j > Len(jobs) PROVE a \in S
    BY <2>1, <2>3 DEF Inserts
  <2> QED BY <2>1, <2>2, <2>3
<1>5. \A a \in Assets \ S : ActiveJobs(a)' \subseteq ActiveJobs(a)
  BY <1>4, <1>1, <1>2
<1>6. OneActiveJobPerAsset'
  <2> SUFFICES ASSUME NEW a \in Assets, NEW j \in ActiveJobs(a)', NEW k \in ActiveJobs(a)'
               PROVE  j = k
    BY DEF OneActiveJobPerAsset
  <2>1. CASE a \in S
    <3>1. j > Len(jobs) /\ k > Len(jobs)
      BY <2>1, <1>4, <1>1, <1>2
    <3>2. /\ j \in 1 .. Len(jobs') /\ k \in 1 .. Len(jobs')
          /\ jobs'[j].asset = jobs'[k].asset
      BY <1>4
    <3> QED BY <3>1, <3>2 DEF Inserts
  <2>2. CASE a \notin S
    <3>1. j \in ActiveJobs(a) /\ k \in ActiveJobs(a)
      BY <2>2, <1>5
    <3> QED BY <3>1 DEF OneActiveJobPerAsset
  <2> QED BY <2>1, <2>2
<1> QED BY <1>1, <1>2, <1>3, <1>5, <1>6

LEMMA OutcomesKept ==
    ASSUME TypeOK, NEW S, Inserts(S)
    PROVE  \A j \in 1 .. Len(jobs) : jobs[j].status \in Settled => jobs'[j] = jobs[j]
<1>1. \A s \in Settled : s \notin Active
  BY DEF Settled, Active
<1> QED BY <1>1 DEF Inserts

\* What every step is shown to do.
OutcomesStand == \A j \in 1 .. Len(jobs) : jobs[j].status \in Settled => jobs'[j] = jobs[j]
Kept == IInv' /\ OutcomesStand

\* Everything but jobs and transactions.
Frame ==
    /\ onDemand' = onDemand /\ healthy' \in BOOLEAN /\ judged' \in BOOLEAN
    /\ assets' \in [Assets -> {"absent", "live", "deleted"}]
    /\ \A a \in Assets : assets'[a] = "absent" => assets[a] = "absent"
    /\ fresh' \in [Assets -> BOOLEAN]
    /\ aged' \subseteq 1 .. Len(jobs)
    /\ mishaps' \in 0 .. MaxMishaps

LEMMA Combine ==
    ASSUME IInv, Frame, NEW S \in SUBSET Assets, Inserts(S),
           \A a \in S : ActiveJobs(a) = {} /\ assets'[a] # "absent",
           proc' \in [Procs -> Proc],
           \A p \in Procs : /\ Place(proc'[p], assets') /\ Holds(proc'[p], jobs')
                            /\ \A a \in proc'[p].mine : ActiveJobs(a) = {} /\ a \notin S,
           \A p, q \in Procs : p # q => Apart(proc'[p], proc'[q])
    PROVE  Kept
<1>1. /\ \A a \in Assets \ S : ActiveJobs(a)' \subseteq ActiveJobs(a)
      /\ OneActiveJobPerAsset' /\ AllDecided'
      /\ jobs' \in Seq(Job) /\ tries' \in Seq(Try) /\ Len(tries') = Len(jobs')
      /\ Len(jobs) \in Nat /\ Len(jobs') \in Nat /\ Len(jobs) <= Len(jobs')
  BY ActiveAfter DEF IInv
<1>2. TypeOK'
  <2>1. aged' \subseteq 1 .. Len(jobs')
    BY <1>1 DEF Frame
  <2> QED BY <2>1, <1>1 DEF Frame, IInv, TypeOK
<1>3. Places'
  <2> SUFFICES ASSUME NEW p \in Procs
               PROVE  \A a \in proc'[p].mine : ActiveJobs(a)' = {}
    BY DEF Places
  <2>1. \A a \in proc'[p].mine : a \in Assets \ S /\ ActiveJobs(a) = {}
    BY DEF Proc
  <2> QED BY <2>1, <1>1
<1>4. AllApart'
  BY DEF AllApart
<1>5. AbsentQuiet'
  <2> SUFFICES ASSUME NEW a \in Assets, assets'[a] = "absent"
               PROVE  ActiveJobs(a)' = {}
    BY DEF AbsentQuiet
  <2>1. a \notin S /\ assets[a] = "absent"
    BY DEF Frame
  <2>2. ActiveJobs(a) = {}
    BY <2>1 DEF IInv, AbsentQuiet
  <2> QED BY <2>1, <2>2, <1>1
<1>6. OutcomesStand
  BY OutcomesKept DEF IInv, OutcomesStand
<1> QED BY <1>1, <1>2, <1>3, <1>4, <1>5, <1>6 DEF IInv, Kept

LEMMA PlaceKept ==
    ASSUME IInv, Frame, NEW q \in Procs
    PROVE  Place(proc[q], assets')
<1>1. Place(proc[q], assets) /\ proc[q] \in Proc
  BY DEF IInv, Places, TypeOK
<1>2. proc[q].mine \subseteq Assets /\ proc[q].todo \subseteq Assets
  BY <1>1 DEF Proc
<1> QED BY <1>1, <1>2 DEF Place, Frame

\* A step of p, which is left as r and commits active jobs of S.
LEMMA ProcStep ==
    ASSUME IInv, Frame, NEW p \in Procs, NEW r \in Proc, proc' = [proc EXCEPT ![p] = r],
           NEW S \in SUBSET Assets, Inserts(S),
           \A a \in S : ActiveJobs(a) = {} /\ assets'[a] # "absent",
           Place(r, assets'), Holds(r, jobs'),
           r.claim # 0 => \A q \in Procs \ {p} : proc[q].claim # r.claim,
           \A a \in r.mine : /\ ActiveJobs(a) = {} /\ a \notin S
                             /\ \A q \in Procs \ {p} : a \notin proc[q].mine,
           \A q \in Procs \ {p} :
              /\ \A a \in S : a \notin proc[q].mine
              /\ proc[q].claim # 0 => jobs'[proc[q].claim] = jobs[proc[q].claim]
    PROVE  Kept
<1>1. /\ proc \in [Procs -> Proc] /\ proc' \in [Procs -> Proc]
      /\ proc'[p] = r /\ \A q \in Procs \ {p} : proc'[q] = proc[q]
  BY DEF IInv, TypeOK
<1>2. Len(jobs) \in Nat /\ Len(jobs') \in Nat /\ Len(jobs) <= Len(jobs')
  BY ActiveAfter DEF IInv
<1>3. ASSUME NEW q \in Procs \ {p}
      PROVE  /\ Place(proc[q], assets') /\ Holds(proc[q], jobs')
             /\ \A a \in proc[q].mine : ActiveJobs(a) = {} /\ a \notin S
  <2>1. /\ Holds(proc[q], jobs)
        /\ \A a \in proc[q].mine : ActiveJobs(a) = {}
    BY DEF IInv, Places
  <2>2. Holds(proc[q], jobs')
    BY <2>1, <1>2 DEF Holds
  <2> QED BY <2>1, <2>2, PlaceKept
<1>4. ASSUME NEW q \in Procs, NEW s \in Procs, q # s
      PROVE  Apart(proc'[q], proc'[s])
  <2>1. CASE q # p /\ s # p
    BY <2>1, <1>1, <1>4 DEF IInv, AllApart
  <2>2. CASE q = p \/ s = p
    BY <2>2, <1>1, <1>4 DEF Apart
  <2> QED BY <2>1, <2>2
<1>5. \A q \in Procs : /\ Place(proc'[q], assets') /\ Holds(proc'[q], jobs')
                       /\ \A a \in proc'[q].mine : ActiveJobs(a) = {} /\ a \notin S
  BY <1>1, <1>3
<1> QED BY <1>1, <1>4, <1>5, Combine

LEMMA ClaimsKept ==
    ASSUME IInv, \A j \in 1 .. Len(jobs) : jobs'[j] = jobs[j]
    PROVE  \A q \in Procs : proc[q].claim # 0 => jobs'[proc[q].claim] = jobs[proc[q].claim]
BY DEF IInv, Places, Holds

\* A step of nobody's transaction.
LEMMA WorldStep ==
    ASSUME IInv, Frame, proc' = proc, Inserts({}),
           \A q \in Procs :
              proc[q].claim # 0 => jobs'[proc[q].claim] = jobs[proc[q].claim]
    PROVE  Kept
<1>1. Len(jobs) \in Nat /\ Len(jobs') \in Nat /\ Len(jobs) <= Len(jobs')
  BY ActiveAfter DEF IInv
<1>2. \A q \in Procs : /\ Place(proc'[q], assets') /\ Holds(proc'[q], jobs')
                       /\ \A a \in proc'[q].mine : ActiveJobs(a) = {} /\ a \notin {}
  <2> TAKE q \in Procs
  <2>1. Holds(proc[q], jobs) /\ \A a \in proc[q].mine : ActiveJobs(a) = {}
    BY DEF IInv, Places
  <2>2. Holds(proc[q], jobs')
    BY <2>1, <1>1 DEF Holds
  <2> QED BY <2>1, <2>2, PlaceKept
<1>3. proc' \in [Procs -> Proc] /\ \A p, q \in Procs : p # q => Apart(proc'[p], proc'[q])
  BY DEF IInv, TypeOK, AllApart
<1> QED BY <1>2, <1>3, Combine

\* A step of p that commits nothing and touches no asset row.
LEMMA OnlyProc ==
    ASSUME IInv, Frame, NEW p \in Procs, NEW r \in Proc, proc' = [proc EXCEPT ![p] = r],
           UNCHANGED <<jobs, tries, assets>>,
           Place(r, assets), Holds(r, jobs),
           r.claim # 0 => \A q \in Procs \ {p} : proc[q].claim # r.claim,
           \A a \in r.mine : /\ ActiveJobs(a) = {}
                             /\ \A q \in Procs \ {p} : a \notin proc[q].mine
    PROVE  Kept
<1>1. Inserts({})
  BY TriesKept, InsertsNone DEF IInv
<1> QED BY <1>1, ProcStep

\* A step that ends with nothing in hand, and commits active jobs of S.
LEMMA LetGo ==
    ASSUME IInv, Frame, NEW p \in Procs, NEW r \in Proc, proc' = [proc EXCEPT ![p] = r],
           r.mine = {}, r.claim = 0, r.pc \in {"idle", "batch", "done"},
           r.pc = "idle" => r.todo = {},
           NEW S \in SUBSET Assets, Inserts(S),
           \A a \in S : /\ ActiveJobs(a) = {} /\ assets'[a] # "absent"
                        /\ \A q \in Procs \ {p} : a \notin proc[q].mine,
           \A q \in Procs \ {p} :
              proc[q].claim # 0 => jobs'[proc[q].claim] = jobs[proc[q].claim]
    PROVE  Kept
<1>1. Place(r, assets') /\ Holds(r, jobs')
  BY FS_EmptySet DEF Place, Holds
<1> QED BY <1>1, ProcStep

LEMMA LetGoOfAll ==
    ASSUME IInv, Frame, NEW p \in Procs, NEW r \in Proc, proc' = [proc EXCEPT ![p] = r],
           r.mine = {}, r.claim = 0, r.pc \in {"idle", "batch", "done"},
           r.pc = "idle" => r.todo = {},
           jobs' = jobs, TriesStay, \A j \in 1 .. Len(jobs) : Decided(jobs[j], tries'[j])
    PROVE  Kept
<1>1. Inserts({})
  BY InsertsNone DEF IInv
<1> QED BY <1>1, LetGo

\* What is known of a transaction before its step.
LEMMA Before ==
    ASSUME IInv, NEW p \in Procs
    PROVE  /\ proc[p] \in Proc /\ proc[p].todo \subseteq Assets
           /\ proc[p].mine \subseteq Assets /\ proc[p].left \in Nat
           /\ Place(proc[p], assets) /\ Holds(proc[p], jobs)
           /\ \A a \in proc[p].mine : /\ ActiveJobs(a) = {}
                                      /\ \A q \in Procs \ {p} : a \notin proc[q].mine
           /\ proc[p].claim # 0 => \A q \in Procs \ {p} : proc[q].claim # proc[p].claim
<1>1. proc[p] \in Proc
  BY DEF IInv, TypeOK
<1>2. /\ Place(proc[p], assets) /\ Holds(proc[p], jobs)
      /\ \A a \in proc[p].mine : ActiveJobs(a) = {}
  BY DEF IInv, Places
<1>3. \A q \in Procs \ {p} : Apart(proc[p], proc[q])
  BY DEF IInv, AllApart
<1> QED BY <1>1, <1>2, <1>3 DEF Proc, Apart

LEMMA FrameStays ==
    ASSUME TypeOK
    PROVE  /\ UNCHANGED <<onDemand, assets, fresh, healthy, judged, aged, mishaps>> => Frame
           /\ UNCHANGED <<onDemand, assets, fresh, healthy, judged, aged>> /\ Mishap => Frame
<1>1. mishaps \in 0 .. MaxMishaps /\ MaxMishaps \in Nat
  BY BoundsAssumption DEF TypeOK
<1>2. Mishap => mishaps' \in 0 .. MaxMishaps
  BY <1>1 DEF Mishap
<1> QED BY <1>2 DEF TypeOK, Frame
-----------------------------------------------------------------------------
(* The steps of a worker cycle. *)

LEMMA BeginCycleStep ==
    ASSUME IInv, NEW w \in Procs, BeginCycle(w)
    PROVE  Kept
<1> DEFINE T == {a \in Due : Cardinality({b \in Due : b < a}) < BatchSize}
           r == [Idle EXCEPT !.pc = "enqueue", !.left = BatchSize, !.todo = T]
<1>1. proc' = [proc EXCEPT ![w] = r] /\ UNCHANGED <<jobs, tries, assets>>
  BY DEF BeginCycle
<1>2. T \subseteq Assets /\ \A a \in T : assets[a] # "absent"
  BY DEF Due
<1> HIDE DEF T
<1>3. /\ r \in Proc /\ r.mine = {} /\ r.claim = 0 /\ r.pc = "enqueue" /\ r.todo = T
  BY <1>2, BoundsAssumption DEF Proc, Idle
<1> HIDE DEF r
<1>4. Place(r, assets) /\ Holds(r, jobs)
  BY <1>2, <1>3, FS_EmptySet DEF Place, Holds
<1>5. Frame
  BY DEF BeginCycle, IInv, TypeOK, Frame
<1> QED BY <1>1, <1>3, <1>4, <1>5, OnlyProc

LEMMA LookForActiveStep ==
    ASSUME IInv, NEW w \in Procs, LookForActive(w)
    PROVE  Kept
<1>1. PICK a \in proc[w].todo :
          proc' = [proc EXCEPT ![w].todo = @ \ {a},
                               ![w].pc = IF Clash(a) THEN @ ELSE "insert",
                               ![w].at = IF Clash(a) THEN @ ELSE a]
  BY DEF LookForActive
<1> DEFINE r == [proc[w] EXCEPT !.todo = @ \ {a},
                                !.pc = IF Clash(a) THEN @ ELSE "insert",
                                !.at = IF Clash(a) THEN @ ELSE a]
<1>2. proc' = [proc EXCEPT ![w] = r] /\ UNCHANGED <<jobs, tries, assets>>
  BY <1>1 DEF LookForActive, IInv, TypeOK
<1>3. proc[w].pc = "enqueue"
  BY DEF LookForActive
<1>4. /\ r \in Proc /\ r.mine = proc[w].mine /\ r.claim = proc[w].claim
      /\ r.todo \subseteq proc[w].todo /\ r.pc \in {"enqueue", "insert"}
      /\ r.pc = "insert" => r.at = a
  BY <1>3, Before DEF Proc
<1> HIDE DEF r
<1>5. /\ Place(proc[w], assets) /\ Holds(proc[w], jobs) /\ proc[w].todo \subseteq Assets
  BY Before
<1>6. r.claim = 0 /\ Holds(r, jobs)
  BY <1>3, <1>4, <1>5 DEF Place, Holds
<1>7. Place(r, assets)
  BY <1>1, <1>3, <1>4, <1>5, <1>6 DEF Place
<1>8. Frame
  BY FrameStays DEF LookForActive, IInv
<1> QED BY <1>2, <1>4, <1>6, <1>7, <1>8, Before, OnlyProc

LEMMA NobodyElse ==
    ASSUME IInv, NEW p \in Procs, NEW a \in Assets, ~Waits(p, a), ~Clash(a)
    PROVE  ActiveJobs(a) = {} /\ \A q \in Procs \ {p} : a \notin proc[q].mine
BY DEF Waits, Clash

LEMMA InsertDueStep ==
    ASSUME IInv, NEW w \in Procs, InsertDue(w)
    PROVE  Kept
<1>1. proc[w].pc = "insert" /\ ~Waits(w, proc[w].at) /\ UNCHANGED <<jobs, tries, assets>>
  BY DEF InsertDue
<1>2. /\ Place(proc[w], assets) /\ proc[w].mine \subseteq Assets
      /\ proc[w] \in Proc /\ proc[w].at \in Assets /\ proc[w].claim = 0
  BY <1>1, Before DEF Place
<1>3. Frame
  BY FrameStays DEF InsertDue, IInv
<1>4. CASE Clash(proc[w].at)
  <2> DEFINE r == [Idle EXCEPT !.pc = "batch", !.left = proc[w].left]
  <2>1. proc' = [proc EXCEPT ![w] = r]
    BY <1>4 DEF InsertDue
  <2>2. r \in Proc /\ r.mine = {} /\ r.claim = 0 /\ r.pc = "batch"
    BY Before DEF Proc, Idle
  <2> HIDE DEF r
  <2>3. TriesStay /\ \A j \in 1 .. Len(jobs) : Decided(jobs[j], tries'[j])
    BY <1>1, TriesKept DEF IInv
  <2> QED BY <1>1, <1>3, <2>1, <2>2, <2>3, LetGoOfAll
<1>5. CASE ~Clash(proc[w].at)
  <2> DEFINE r == [proc[w] EXCEPT !.pc = "enqueue", !.mine = @ \cup {proc[w].at},
                                  !.at = NoAsset]
  <2>1. proc' = [proc EXCEPT ![w] = r]
    BY <1>5 DEF InsertDue
  <2>2. /\ r \in Proc /\ r.mine = proc[w].mine \cup {proc[w].at} /\ r.claim = 0
        /\ r.pc = "enqueue" /\ r.todo = proc[w].todo
    BY <1>2 DEF Proc
  <2> HIDE DEF r
  <2>3. IsFiniteSet(r.mine)
    <3>1. IsFiniteSet(proc[w].mine)
      BY <1>2 DEF Place
    <3>2. IsFiniteSet(proc[w].mine \cup {proc[w].at})
      BY <3>1, FS_AddElement, Zenon
    <3> QED BY <2>2, <3>2
  <2>4. Place(r, assets) /\ Holds(r, jobs)
    BY <1>1, <1>2, <2>2, <2>3 DEF Place, Holds
  <2>5. \A a \in r.mine : ActiveJobs(a) = {} /\ \A q \in Procs \ {w} : a \notin proc[q].mine
    BY <1>1, <1>2, <1>5, <2>2, Before, NobodyElse
  <2> QED BY <1>1, <1>3, <2>1, <2>2, <2>4, <2>5, OnlyProc
<1> QED BY <1>4, <1>5

LEMMA CommitDueStep ==
    ASSUME IInv, NEW w \in Procs, CommitDue(w)
    PROVE  Kept
<1> DEFINE r == [proc[w] EXCEPT !.pc = "batch", !.mine = {}]
           S == proc[w].mine
<1>1. proc' = [proc EXCEPT ![w] = r] /\ assets' = assets /\ CommitInserts(S)
  BY DEF CommitDue, IInv, TypeOK
<1>2. /\ proc[w].pc = "enqueue" /\ Place(proc[w], assets) /\ S \subseteq Assets
      /\ proc[w] \in Proc
      /\ \A a \in S : ActiveJobs(a) = {} /\ \A q \in Procs \ {w} : a \notin proc[q].mine
  BY Before DEF CommitDue
<1>3. /\ IsFiniteSet(S) /\ proc[w].claim = 0 /\ \A a \in S : assets[a] # "absent"
  BY <1>2 DEF Place
<1>4. r \in Proc /\ r.mine = {} /\ r.claim = 0 /\ r.pc = "batch"
  BY <1>2, <1>3 DEF Proc
<1> HIDE DEF r, S
<1>5. Inserts(S) /\ \A j \in 1 .. Len(jobs) : jobs'[j] = jobs[j]
  BY <1>1, <1>2, <1>3, InsertsSet DEF IInv
<1>6. Frame
  BY FrameStays DEF CommitDue, IInv
<1>7. /\ S \in SUBSET Assets
      /\ \A a \in S : /\ ActiveJobs(a) = {} /\ assets'[a] # "absent"
                      /\ \A q \in Procs \ {w} : a \notin proc[q].mine
  BY <1>1, <1>2, <1>3
<1>8. \A q \in Procs \ {w} :
         proc[q].claim # 0 => jobs'[proc[q].claim] = jobs[proc[q].claim]
  BY <1>5, ClaimsKept
<1>9. proc' = [proc EXCEPT ![w] = r] /\ Inserts(S)
  BY <1>1, <1>5
<1> QED BY <1>4, <1>6, <1>7, <1>8, <1>9, LetGo

LEMMA ClaimNextJobStep ==
    ASSUME IInv, NEW w \in Procs, ClaimNextJob(w)
    PROVE  Kept
<1>1. proc[w].pc = "batch" /\ UNCHANGED <<jobs, tries, assets>> /\ proc \in [Procs -> Proc]
  BY DEF ClaimNextJob, IInv, TypeOK
<1>2. Frame
  BY FrameStays DEF ClaimNextJob, IInv
<1>3. /\ proc[w] \in Proc /\ proc[w].claim = 0 /\ proc[w].mine = {} /\ proc[w].left \in Nat
  BY <1>1, Before DEF Place
<1>4. CASE proc[w].left = 0 \/ Claimable = {}
  <2>1. proc' = [proc EXCEPT ![w] = Idle]
    BY <1>4 DEF ClaimNextJob
  <2>2. /\ Idle \in Proc /\ Idle.mine = {} /\ Idle.claim = 0
        /\ Idle.pc = "idle" /\ Idle.todo = {}
    BY DEF Proc, Idle
  <2>3. TriesStay /\ \A j \in 1 .. Len(jobs) : Decided(jobs[j], tries'[j])
    BY <1>1, TriesKept DEF IInv
  <2> QED BY <1>1, <1>2, <2>1, <2>2, <2>3, LetGoOfAll
<1>5. CASE ~(proc[w].left = 0 \/ Claimable = {})
  <2>1. PICK j \in Claimable :
            proc' = [proc EXCEPT ![w].pc = "claimed", ![w].claim = j,
                                 ![w].at = jobs[j].asset, ![w].left = @ - 1]
    BY <1>5 DEF ClaimNextJob
  <2> DEFINE r == [proc[w] EXCEPT !.pc = "claimed", !.claim = j,
                                  !.at = jobs[j].asset, !.left = @ - 1]
  <2>2. proc' = [proc EXCEPT ![w] = r]
    BY <1>1, <2>1
  <2>3. /\ j \in 1 .. Len(jobs) /\ jobs[j].status \in Active /\ ~Locked(j)
        /\ jobs[j].asset \in Assets /\ j \in Nat /\ j # 0
    BY JobsTyped DEF Claimable, IInv
  <2>4. /\ r \in Proc /\ r.mine = {} /\ r.claim = j /\ r.pc = "claimed"
        /\ r.at = jobs[j].asset
    <3>1. proc[w].left - 1 \in Nat
      BY <1>3, <1>5
    <3> QED BY <1>3, <2>3, <3>1 DEF Proc
  <2> HIDE DEF r
  <2>5. Place(r, assets) /\ Holds(r, jobs)
    BY <2>3, <2>4, FS_EmptySet DEF Place, Holds
  <2>6. \A q \in Procs \ {w} : proc[q].claim # r.claim
    BY <2>3, <2>4 DEF Locked
  <2> QED BY <1>1, <1>2, <2>2, <2>4, <2>5, <2>6, OnlyProc
<1> QED BY <1>4, <1>5

LEMMA OneMoreAttempt ==
    \A j \in Job, s \in Active \cup Settled :
        [j EXCEPT !.status = s, !.attempts = @ + 1] = NewJob(j.asset, s, j.attempts + 1)
<1> SUFFICES ASSUME NEW j \in Job, NEW s \in Active \cup Settled
             PROVE  [j EXCEPT !.status = s, !.attempts = @ + 1]
                        = NewJob(j.asset, s, j.attempts + 1)
  OBVIOUS
<1> DEFINE x == [j EXCEPT !.status = s, !.attempts = @ + 1]
<1>1. j.attempts + 1 \in Nat
  BY JobFields
<1>2. /\ x \in Job /\ x.asset = j.asset /\ x.status = s /\ x.attempts = j.attempts + 1
  BY <1>1 DEF Job
<1> HIDE DEF x
<1>3. PICK a \in Assets, u \in Active \cup Settled, n \in Nat :
          x = [asset |-> a, status |-> u, attempts |-> n]
  BY <1>2 DEF Job
<1>4. a = j.asset /\ u = s /\ n = j.attempts + 1
  BY <1>2, <1>3
<1>5. x = NewJob(j.asset, s, j.attempts + 1)
  BY <1>3, <1>4 DEF NewJob
<1> QED BY <1>5 DEF x

\* The outcome of a claimed job.
LEMMA SettleStep ==
    ASSUME IInv, Frame, NEW w \in Procs, proc[w].pc \in {"claimed", "assess"},
           NEW s \in Active \cup Settled, Settle(w, s),
           s = "queued" => ~Spent(proc[w].claim),
           s = "failed" => Spent(proc[w].claim),
           TriesStay, tries'[proc[w].claim].inline = tries[proc[w].claim].inline,
           \A j \in 1 .. Len(jobs) \ {proc[w].claim} : tries'[j] = tries[j],
           s \in {"queued", "failed"} =>
              /\ tries'[proc[w].claim].failed = tries[proc[w].claim].failed + 1
              /\ tries'[proc[w].claim].undone = tries[proc[w].claim].undone
    PROVE  Kept
<1> DEFINE c == proc[w].claim
           n == jobs[c].attempts + 1
           r == [Idle EXCEPT !.pc = "batch", !.left = proc[w].left]
<1>1. /\ c \in 1 .. Len(jobs) /\ c # 0 /\ jobs[c].status \in Active
      /\ \A q \in Procs \ {w} : proc[q].claim # c
  BY Before DEF Place, Holds
<1>2. /\ jobs[c] \in Job /\ jobs[c].attempts \in Nat /\ jobs[c].asset \in Assets
      /\ jobs \in Seq(Job)
  BY <1>1, JobsTyped DEF IInv, TypeOK
<1>3. /\ jobs[c].attempts < MaxAttempts /\ ~tries[c].inline
      /\ jobs[c].attempts + tries[c].undone = tries[c].failed
  BY <1>1 DEF IInv, AllDecided, Decided, Active
<1>4. jobs' = [jobs EXCEPT ![c] = NewJob(@.asset, s, n)]
  <2>1. jobs' = [jobs EXCEPT ![c].status = s, ![c].attempts = @ + 1]
    BY DEF Settle
  <2>2. jobs \in [1 .. Len(jobs) -> Job]
    BY <1>2, LenProperties
  <2>3. [jobs[c] EXCEPT !.status = s, !.attempts = @ + 1] = NewJob(jobs[c].asset, s, n)
    BY <1>2, OneMoreAttempt
  <2>4. jobs' = [jobs EXCEPT ![c] = [jobs[c] EXCEPT !.status = s, !.attempts = @ + 1]]
    BY <1>1, <2>1, <2>2
  <2> QED BY <2>3, <2>4
<1>5. n \in Nat /\ Decided(NewJob(jobs[c].asset, s, n), tries'[c])
  <2>1. NewJob(jobs[c].asset, s, n).status = s /\ NewJob(jobs[c].asset, s, n).attempts = n
    BY DEF NewJob
  <2>2. n \in Nat
    BY <1>2
  <2>3. s = "queued" => n < MaxAttempts
    BY <1>2, <2>2, BoundsUsed DEF Spent
  <2>4. s = "failed" => n = MaxAttempts
    BY <1>2, <1>3, <2>2, BoundsUsed DEF Spent
  <2>5. s \in {"queued", "failed"} => n + tries'[c].undone = tries'[c].failed
    <3>1. tries[c] \in Try
      BY <1>1, JobsTyped DEF IInv
    <3>2. /\ tries[c].failed \in Nat /\ tries[c].undone \in Nat
      BY <3>1, UntriedFields
    <3> QED BY <1>2, <1>3, <3>2
  <2>6. ~tries'[c].inline
    BY <1>3
  <2> HIDE DEF n, c
  <2> QED BY <2>1, <2>2, <2>3, <2>4, <2>5, <2>6 DEF Decided
<1>6. proc' = [proc EXCEPT ![w] = r]
  BY DEF Settle
<1>7. r \in Proc /\ r.mine = {} /\ r.claim = 0 /\ r.pc = "batch"
  BY Before DEF Proc, Idle
<1> HIDE DEF c, n, r
<1>8. Inserts({}) /\ \A j \in 1 .. Len(jobs) \ {c} : jobs'[j] = jobs[j]
  <2>1. TriesStay /\ \A j \in 1 .. Len(jobs) \ {c} : tries'[j] = tries[j]
    BY DEF c
  <2> QED BY <2>1, <1>1, <1>4, <1>5, InsertsSettled DEF IInv
<1>9. \A q \in Procs \ {w} : proc[q].claim # 0 => jobs'[proc[q].claim] = jobs[proc[q].claim]
  <2> TAKE q \in Procs \ {w}
  <2>1. proc[q].claim # 0 => proc[q].claim \in 1 .. Len(jobs)
    BY Before DEF Holds
  <2> QED BY <2>1, <1>1, <1>8
<1> QED BY <1>6, <1>7, <1>8, <1>9, LetGo

LEMMA CancelDeletedStep ==
    ASSUME IInv, NEW w \in Procs, CancelDeleted(w)
    PROVE  Kept
<1>1. Frame
  BY FrameStays DEF CancelDeleted, IInv
<1>2. TriesStay /\ tries' = tries
  BY TriesKept DEF CancelDeleted, IInv
<1>3. proc[w].pc = "claimed" /\ Settle(w, "cancelled") /\ "cancelled" \in Active \cup Settled
  BY DEF CancelDeleted, Settled
<1> QED BY <1>1, <1>2, <1>3, SettleStep

LEMMA FindAssetStep ==
    ASSUME IInv, NEW w \in Procs, FindAsset(w)
    PROVE  Kept
<1> DEFINE r == [proc[w] EXCEPT !.pc = "assess"]
<1>1. /\ proc[w].pc = "claimed" /\ proc' = [proc EXCEPT ![w] = r]
      /\ UNCHANGED <<jobs, tries, assets>>
  BY DEF FindAsset, IInv, TypeOK
<1>2. Frame
  BY FrameStays DEF FindAsset, IInv
<1>3. proc[w] \in Proc /\ Place(proc[w], assets) /\ Holds(proc[w], jobs)
  BY Before
<1>4. /\ r \in Proc /\ r.pc = "assess" /\ r.claim = proc[w].claim /\ r.at = proc[w].at
      /\ r.mine = proc[w].mine
  BY <1>3 DEF Proc
<1> HIDE DEF r
<1>5. Place(r, assets) /\ Holds(r, jobs)
  BY <1>1, <1>3, <1>4 DEF Place, Holds
<1>6. r.claim # 0 => \A q \in Procs \ {w} : proc[q].claim # r.claim
  BY <1>4, Before
<1>7. \A a \in r.mine : ActiveJobs(a) = {} /\ \A q \in Procs \ {w} : a \notin proc[q].mine
  BY <1>4, Before
<1> QED BY <1>1, <1>2, <1>4, <1>5, <1>6, <1>7, OnlyProc

LEMMA FreshFrame ==
    ASSUME TypeOK, NEW a \in Assets, NEW b \in BOOLEAN, fresh' = [fresh EXCEPT ![a] = b],
           UNCHANGED <<onDemand, healthy, judged, aged>>, UNCHANGED mishaps \/ Mishap,
           assets' = assets \/ assets' = [assets EXCEPT ![a] = "live"]
    PROVE  Frame
<1>1. fresh' \in [Assets -> BOOLEAN]
  BY DEF TypeOK
<1>2. mishaps' \in 0 .. MaxMishaps
  BY BoundsAssumption DEF TypeOK, Mishap
<1>3. /\ assets' \in [Assets -> {"absent", "live", "deleted"}]
      /\ \A x \in Assets : assets'[x] = "absent" => assets[x] = "absent"
  BY DEF TypeOK
<1> QED BY <1>1, <1>2, <1>3 DEF TypeOK, Frame

LEMMA AssessJobStep ==
    ASSUME IInv, NEW w \in Procs, AssessJob(w)
    PROVE  Kept
<1>1. proc[w].pc = "assess" /\ Settle(w, "completed") /\ "completed" \in Active \cup Settled
  BY DEF AssessJob, Settled
<1>2. proc[w].at \in Assets
  BY <1>1, Before DEF Place
<1>3. Frame
  BY <1>2, FreshFrame DEF AssessJob, IInv
<1>4. TriesStay /\ tries' = tries
  BY TriesKept DEF AssessJob, IInv
<1> QED BY <1>1, <1>3, <1>4, SettleStep

LEMMA AssessmentRaisesStep ==
    ASSUME IInv, NEW w \in Procs, AssessmentRaises(w)
    PROVE  Kept
<1> DEFINE s == IF Spent(proc[w].claim) THEN "failed" ELSE "queued"
<1>1. proc[w].pc = "assess" /\ Settle(w, s) /\ s \in Active \cup Settled
  BY DEF AssessmentRaises, Settled, Active
<1>2. proc[w].at \in Assets /\ proc[w].claim \in 1 .. Len(jobs)
  BY <1>1, Before DEF Place, Holds
<1>3. PICK written \in BOOLEAN : fresh' = [fresh EXCEPT ![proc[w].at] = @ \/ written]
  BY DEF AssessmentRaises
<1>4. fresh' = [fresh EXCEPT ![proc[w].at] = fresh[proc[w].at] \/ written]
  BY <1>3
<1>5. (fresh[proc[w].at] \/ written) \in BOOLEAN
  OBVIOUS
<1>6. Frame
  BY <1>2, <1>4, <1>5, FreshFrame DEF AssessmentRaises, IInv
<1>7. /\ TriesStay /\ tries'[proc[w].claim].inline = tries[proc[w].claim].inline
      /\ \A j \in 1 .. Len(jobs) \ {proc[w].claim} : tries'[j] = tries[j]
      /\ tries'[proc[w].claim].failed = tries[proc[w].claim].failed + 1
      /\ tries'[proc[w].claim].undone = tries[proc[w].claim].undone
  <2> DEFINE c == proc[w].claim
  <2>1. c \in 1 .. Len(jobs) /\ Blame(c, 0)
    BY <1>2 DEF AssessmentRaises
  <2>2. tries[c].undone \in Nat
    BY <2>1, JobsTyped, UntriedFields DEF IInv
  <2> HIDE DEF c
  <2>3. /\ TriesStay /\ \A j \in 1 .. Len(jobs) \ {c} : tries'[j] = tries[j]
        /\ tries'[c].failed = tries[c].failed + 1
        /\ tries'[c].undone = tries[c].undone + 0
        /\ tries'[c].inline = tries[c].inline
    BY <2>1, TriesBlamed DEF IInv
  <2> QED BY <2>2, <2>3 DEF c
<1>8. /\ s = "queued" => ~Spent(proc[w].claim)
      /\ s = "failed" => Spent(proc[w].claim)
  OBVIOUS
<1> QED BY <1>1, <1>6, <1>7, <1>8, SettleStep

LEMMA AssessmentAbortsStep ==
    ASSUME IInv, NEW w \in Procs, AssessmentAborts(w)
    PROVE  Kept
<1> DEFINE r == [Idle EXCEPT !.pc = "batch", !.left = proc[w].left]
<1>1. proc[w].claim \in 1 .. Len(jobs)
  BY Before DEF AssessmentAborts, Place, Holds
<1>2. Frame
  BY FrameStays DEF AssessmentAborts, IInv
<1>3. TriesStay /\ \A j \in 1 .. Len(jobs) : Decided(jobs[j], tries'[j])
  <2> DEFINE c == proc[w].claim
  <2>1. c \in 1 .. Len(jobs) /\ Blame(c, 1)
    BY <1>1 DEF AssessmentAborts
  <2>2. /\ tries[c].undone \in Nat /\ tries[c].failed \in Nat /\ jobs[c].attempts \in Nat
    BY <2>1, JobsTyped, UntriedFields DEF IInv
  <2> HIDE DEF c
  <2>3. /\ TriesStay /\ \A j \in 1 .. Len(jobs) \ {c} : tries'[j] = tries[j]
        /\ tries'[c].failed = tries[c].failed + 1
        /\ tries'[c].undone = tries[c].undone + 1
        /\ tries'[c].inline = tries[c].inline
    BY <2>1, TriesBlamed DEF IInv
  <2>4. \A j \in 1 .. Len(jobs) : Decided(jobs[j], tries[j])
    BY DEF IInv, AllDecided
  <2>5. Decided(jobs[c], tries'[c])
    <3>1. Decided(jobs[c], tries[c])
      BY <2>1, <2>4
    <3>2. jobs[c].attempts + tries[c].undone = tries[c].failed
          => jobs[c].attempts + tries'[c].undone = tries'[c].failed
      BY ONLY <2>2, <2>3
    <3> QED BY ONLY <2>3, <3>1, <3>2 DEF Decided
  <2> QED BY <2>3, <2>4, <2>5
<1>4. proc' = [proc EXCEPT ![w] = r] /\ jobs' = jobs
  BY DEF AssessmentAborts
<1>5. r \in Proc /\ r.mine = {} /\ r.claim = 0 /\ r.pc = "batch"
  BY Before DEF Proc, Idle
<1> HIDE DEF r
<1> QED BY <1>2, <1>3, <1>4, <1>5, LetGoOfAll

LEMMA CrashStep ==
    ASSUME IInv, NEW w \in Procs, Crash(w)
    PROVE  Kept
<1>1. Frame
  BY FrameStays DEF Crash, IInv
<1>2. /\ TriesStay /\ \A j \in 1 .. Len(jobs) : Decided(jobs[j], tries'[j])
      /\ jobs' = jobs
  BY TriesKept DEF Crash, IInv
<1>3. proc' = [proc EXCEPT ![w] = Idle]
  BY DEF Crash
<1>4. /\ Idle \in Proc /\ Idle.mine = {} /\ Idle.claim = 0
      /\ Idle.pc = "idle" /\ Idle.todo = {}
  BY DEF Proc, Idle
<1> QED BY <1>1, <1>2, <1>3, <1>4, LetGoOfAll
-----------------------------------------------------------------------------
(* The steps of requests. *)

LEMMA AnswerRecord ==
    LET r == [Idle EXCEPT !.pc = "done"] IN
    /\ r \in Proc /\ r.mine = {} /\ r.claim = 0 /\ r.pc = "done" /\ r.todo = {}
BY DEF Proc, Idle

\* An answer without a commit.
LEMMA AnswerStep ==
    ASSUME IInv, Frame, NEW p \in Procs, Answer(p), UNCHANGED <<jobs, tries>>
    PROVE  Kept
<1>1. proc' = [proc EXCEPT ![p] = [Idle EXCEPT !.pc = "done"]]
  BY DEF Answer
<1>2. TriesStay /\ \A j \in 1 .. Len(jobs) : Decided(jobs[j], tries'[j])
  BY TriesKept DEF IInv
<1> QED BY <1>1, <1>2, AnswerRecord, LetGoOfAll

\* An answer that commits a new active job of a.
LEMMA AnswerQueued ==
    ASSUME IInv, Frame, NEW p \in Procs, NEW a \in Assets, Answer(p), CommitInserts({a}),
           assets'[a] # "absent", ActiveJobs(a) = {},
           \A q \in Procs \ {p} : a \notin proc[q].mine
    PROVE  Kept
<1>1. proc' = [proc EXCEPT ![p] = [Idle EXCEPT !.pc = "done"]]
  BY DEF Answer
<1>2. IsFiniteSet({a}) /\ {a} \in SUBSET Assets
  BY FS_Singleton
<1> DEFINE S == {a}
<1>3. Inserts(S) /\ \A j \in 1 .. Len(jobs) : jobs'[j] = jobs[j]
  BY <1>2, InsertsSet DEF IInv
<1>4. \A x \in S : /\ ActiveJobs(x) = {} /\ assets'[x] # "absent"
                   /\ \A q \in Procs \ {p} : x \notin proc[q].mine
  OBVIOUS
<1>5. S \in SUBSET Assets
  OBVIOUS
<1> HIDE DEF S
<1> QED BY <1>1, <1>3, <1>4, <1>5, AnswerRecord, ClaimsKept, LetGo

\* An answer that commits a settled job.
LEMMA AnswerSettled ==
    ASSUME IInv, Frame, NEW p \in Procs, NEW a \in Assets, NEW s \in Settled, NEW n \in Nat,
           Answer(p), CommitOne(a, s, n)
    PROVE  Kept
<1>1. proc' = [proc EXCEPT ![p] = [Idle EXCEPT !.pc = "done"]]
  BY DEF Answer
<1>2. Inserts({}) /\ \A j \in 1 .. Len(jobs) : jobs'[j] = jobs[j]
  BY InsertsOne DEF IInv
<1> QED BY <1>1, <1>2, AnswerRecord, ClaimsKept, LetGo

LEMMA TriggerStep ==
    ASSUME IInv, NEW r \in Procs, Trigger(r)
    PROVE  Kept
<1>1. Frame /\ UNCHANGED <<jobs, tries, assets>> /\ proc[r].pc = "idle"
  BY FrameStays DEF Trigger, IInv
<1>2. PICK a \in Assets :
          /\ assets[a] = "live"
          /\ \/ proc' = [proc EXCEPT ![r].pc = "insert", ![r].at = a]
             \/ Answer(r)
  BY DEF Trigger
<1>3. CASE Answer(r)
  BY <1>1, <1>3, AnswerStep
<1>4. CASE proc' = [proc EXCEPT ![r].pc = "insert", ![r].at = a]
  <2> DEFINE x == [proc[r] EXCEPT !.pc = "insert", !.at = a]
  <2>1. proc' = [proc EXCEPT ![r] = x]
    BY <1>4 DEF IInv, TypeOK
  <2>2. /\ proc[r] \in Proc /\ proc[r].mine = {} /\ proc[r].claim = 0 /\ proc[r].todo = {}
    BY <1>1, Before DEF Place
  <2>3. /\ x \in Proc /\ x.mine = {} /\ x.claim = 0 /\ x.todo = {} /\ x.pc = "insert"
        /\ x.at = a
    BY <2>2 DEF Proc
  <2> HIDE DEF x
  <2>4. Place(x, assets) /\ Holds(x, jobs)
    BY <1>2, <2>3, FS_EmptySet DEF Place, Holds
  <2>5. \A b \in x.mine : ActiveJobs(b) = {} /\ \A q \in Procs \ {r} : b \notin proc[q].mine
    BY <2>3
  <2>6. UNCHANGED <<jobs, tries, assets>>
    BY <1>1
  <2> QED BY <1>1, <2>1, <2>3, <2>4, <2>5, <2>6, OnlyProc
<1> QED BY <1>2, <1>3, <1>4

\* A request that goes on to assess the asset it has inserted a job of.
LEMMA GoesInline ==
    ASSUME IInv, Frame, NEW r \in Procs, NEW a \in Assets, UNCHANGED <<jobs, tries, assets>>,
           NEW x \in Proc, proc' = [proc EXCEPT ![r] = x],
           x.mine = {a}, x.claim = 0, x.pc = "inline", x.at = a,
           ActiveJobs(a) = {}, \A q \in Procs \ {r} : a \notin proc[q].mine
    PROVE  Kept
<1>1. Place(x, assets) /\ Holds(x, jobs)
  <2>1. IsFiniteSet(x.mine)
    <3>1. IsFiniteSet({a})
      BY FS_Singleton, Zenon
    <3> QED BY <3>1
  <2>2. Holds(x, jobs)
    BY DEF Holds
  <2>3. Place(x, assets)
    BY <2>1 DEF Place
  <2> QED BY <2>2, <2>3
<1>2. \A b \in x.mine : ActiveJobs(b) = {} /\ \A q \in Procs \ {r} : b \notin proc[q].mine
  OBVIOUS
<1>3. x.claim # 0 => \A q \in Procs \ {r} : proc[q].claim # x.claim
  OBVIOUS
<1> QED BY <1>1, <1>2, <1>3, OnlyProc

LEMMA InsertTriggeredStep ==
    ASSUME IInv, NEW r \in Procs, InsertTriggered(r)
    PROVE  Kept
<1> DEFINE a == proc[r].at
<1>1. /\ Frame /\ proc[r].pc = "insert" /\ ~Waits(r, a) /\ assets' = assets
  BY FrameStays DEF InsertTriggered, IInv
<1>2. a \in Assets /\ assets[a] # "absent" /\ proc[r] \in Proc /\ proc[r].claim = 0
  BY <1>1, Before DEF Place
<1>3. CASE Clash(a) /\ Answer(r) /\ UNCHANGED <<jobs, tries>>
  BY <1>1, <1>3, AnswerStep
<1>4. CASE ~Clash(a) /\ Answer(r) /\ CommitInserts({a})
  <2>1. ActiveJobs(a) = {} /\ \A q \in Procs \ {r} : a \notin proc[q].mine
    BY <1>1, <1>2, <1>4, NobodyElse
  <2> HIDE DEF a
  <2> QED BY <1>1, <1>2, <1>4, <2>1, AnswerQueued
<1>5. CASE /\ ~Clash(a) /\ UNCHANGED <<jobs, tries>>
           /\ proc' = [proc EXCEPT ![r].pc = "inline", ![r].mine = {a}]
  <2>1. ActiveJobs(a) = {} /\ \A q \in Procs \ {r} : a \notin proc[q].mine
    BY <1>1, <1>2, <1>5, NobodyElse
  <2> DEFINE x == [proc[r] EXCEPT !.pc = "inline", !.mine = {a}]
  <2>2. proc' = [proc EXCEPT ![r] = x]
    BY <1>5 DEF IInv, TypeOK
  <2>3. x \in Proc /\ x.mine = {a} /\ x.claim = 0 /\ x.pc = "inline" /\ x.at = a
    BY <1>2 DEF Proc
  <2> HIDE DEF a, x
  <2>4. Frame /\ UNCHANGED <<jobs, tries, assets>> /\ a \in Assets
    BY <1>1, <1>2, <1>5
  <2> QED BY <2>1, <2>2, <2>3, <2>4, GoesInline
<1> QED BY <1>3, <1>4, <1>5 DEF InsertTriggered

LEMMA BeginCreationStep ==
    ASSUME IInv, NEW r \in Procs, BeginCreation(r)
    PROVE  Kept
<1>1. proc[r].pc = "idle" /\ UNCHANGED <<onDemand, fresh, healthy, judged, aged, mishaps>>
  BY DEF BeginCreation
<1>2. PICK a \in Assets :
          /\ assets[a] = "absent" /\ \A q \in Procs : a \notin proc[q].mine
          /\ \/ /\ proc' = [proc EXCEPT ![r].pc = "inline", ![r].at = a, ![r].mine = {a}]
                /\ UNCHANGED <<assets, jobs, tries>>
             \/ /\ assets' = [assets EXCEPT ![a] = "live"]
                /\ CommitInserts({a}) /\ Answer(r)
  BY DEF BeginCreation
<1>3. ActiveJobs(a) = {}
  BY <1>2 DEF IInv, AbsentQuiet
<1>4. proc[r] \in Proc /\ proc[r].claim = 0
  BY <1>1, Before DEF Place
<1>5. CASE /\ proc' = [proc EXCEPT ![r].pc = "inline", ![r].at = a, ![r].mine = {a}]
           /\ UNCHANGED <<assets, jobs, tries>>
  <2>1. Frame
    BY <1>1, <1>5, FrameStays DEF IInv
  <2> DEFINE x == [proc[r] EXCEPT !.pc = "inline", !.at = a, !.mine = {a}]
  <2>2. proc' = [proc EXCEPT ![r] = x]
    BY <1>5 DEF IInv, TypeOK
  <2>3. x \in Proc /\ x.mine = {a} /\ x.claim = 0 /\ x.pc = "inline" /\ x.at = a
    BY <1>4 DEF Proc
  <2> HIDE DEF x
  <2> QED BY <1>2, <1>3, <1>5, <2>1, <2>2, <2>3, GoesInline
<1>6. CASE /\ assets' = [assets EXCEPT ![a] = "live"]
           /\ CommitInserts({a}) /\ Answer(r)
  <2>1. Frame /\ assets'[a] = "live"
    BY <1>1, <1>6 DEF IInv, TypeOK, Frame
  <2> QED BY <1>2, <1>3, <1>6, <2>1, AnswerQueued
<1> QED BY <1>2, <1>5, <1>6

\* The end of an inline run keeps the asset, which may be one under creation.
LEMMA InlineKeeps ==
    ASSUME IInv, NEW r \in Procs, proc[r].pc = "inline"
    PROVE  /\ proc[r].at \in Assets /\ ActiveJobs(proc[r].at) = {}
           /\ \A q \in Procs \ {r} : proc[r].at \notin proc[q].mine
           /\ KeepAsset(r) => \/ assets' = assets /\ assets[proc[r].at] # "absent"
                              \/ assets' = [assets EXCEPT ![proc[r].at] = "live"]
<1>1. proc[r].at \in Assets /\ proc[r].at \in proc[r].mine
  BY Before DEF Place
<1> QED BY <1>1, Before DEF KeepAsset, Creating

LEMMA AssessInlineStep ==
    ASSUME IInv, NEW r \in Procs, AssessInline(r)
    PROVE  Kept
<1>1. /\ proc[r].at \in Assets
      /\ assets' = assets \/ assets' = [assets EXCEPT ![proc[r].at] = "live"]
  BY InlineKeeps DEF AssessInline
<1>2. Frame
  BY <1>1, FreshFrame DEF AssessInline, IInv
<1> DEFINE n == IF Creating(r) THEN 0 ELSE 1
<1>3. CommitOne(proc[r].at, "completed", n) /\ Answer(r) /\ n \in Nat /\ "completed" \in Settled
  BY DEF AssessInline, Settled
<1> HIDE DEF n
<1> QED BY <1>1, <1>2, <1>3, AnswerSettled

LEMMA InlineRaisesStep ==
    ASSUME IInv, NEW r \in Procs, InlineRaises(r)
    PROVE  Kept
<1> DEFINE a == proc[r].at
<1>1. /\ a \in Assets /\ ActiveJobs(a) = {}
      /\ \A q \in Procs \ {r} : a \notin proc[q].mine
      /\ \/ assets' = assets /\ assets[a] # "absent"
         \/ assets' = [assets EXCEPT ![a] = "live"]
  BY InlineKeeps DEF InlineRaises
<1>2. PICK written \in BOOLEAN : fresh' = [fresh EXCEPT ![a] = @ \/ written]
  BY DEF InlineRaises
<1>3. fresh' = [fresh EXCEPT ![a] = fresh[a] \/ written] /\ (fresh[a] \/ written) \in BOOLEAN
  BY <1>2
<1>4. UNCHANGED <<onDemand, healthy, judged, aged>> /\ Mishap
  BY DEF InlineRaises
<1>5. assets'[a] # "absent"
  BY <1>1 DEF IInv, TypeOK
<1>6. \/ CommitInserts({a}) /\ Answer(r)
      \/ CommitOne(a, "failed", 1) /\ Answer(r)
  BY DEF InlineRaises
<1> HIDE DEF a
<1>7. Frame
  BY <1>1, <1>3, <1>4, FreshFrame DEF IInv
<1>8. CASE CommitInserts({a}) /\ Answer(r)
  BY <1>1, <1>5, <1>7, <1>8, AnswerQueued
<1>9. CASE CommitOne(a, "failed", 1) /\ Answer(r)
  <2>1. "failed" \in Settled
    BY DEF Settled
  <2> QED BY <2>1, <1>1, <1>7, <1>9, AnswerSettled
<1> QED BY <1>6, <1>8, <1>9

LEMMA InlineAbortsStep ==
    ASSUME IInv, NEW r \in Procs, InlineAborts(r)
    PROVE  Kept
<1>1. Frame
  BY FrameStays DEF InlineAborts, IInv
<1> QED BY <1>1, AnswerStep DEF InlineAborts
-----------------------------------------------------------------------------
(* Time, users and the summary endpoint. *)

LEMMA GoStaleStep ==
    ASSUME IInv, NEW a \in Assets, GoStale(a)
    PROVE  Kept
<1>1. Frame
  BY FreshFrame DEF GoStale, IInv
<1>2. Inserts({})
  BY TriesKept, InsertsNone DEF GoStale, IInv
<1> QED BY <1>1, <1>2, WorldStep DEF GoStale

LEMMA DeleteAssetStep ==
    ASSUME IInv, NEW a \in Assets, DeleteAsset(a)
    PROVE  Kept
<1>1. mishaps' \in 0 .. MaxMishaps
  BY BoundsAssumption DEF DeleteAsset, Mishap, IInv, TypeOK
<1>2. /\ assets' \in [Assets -> {"absent", "live", "deleted"}]
      /\ \A b \in Assets : assets'[b] = "absent" => assets[b] = "absent"
  BY DEF DeleteAsset, IInv, TypeOK
<1>3. Frame
  BY <1>1, <1>2 DEF DeleteAsset, Frame, IInv, TypeOK
<1>4. Inserts({})
  BY TriesKept, InsertsNone DEF DeleteAsset, IInv
<1> QED BY <1>3, <1>4, WorldStep DEF DeleteAsset

LEMMA TimePassesStep ==
    ASSUME IInv, TimePasses
    PROVE  Kept
<1>1. mishaps' \in 0 .. MaxMishaps
  BY BoundsAssumption DEF TimePasses, Mishap, IInv, TypeOK
<1>2. aged' \subseteq 1 .. Len(jobs)
  BY DEF TimePasses, IInv, TypeOK
<1>3. Frame
  BY <1>1, <1>2 DEF TimePasses, Frame, IInv, TypeOK
<1>4. Inserts({})
  BY TriesKept, InsertsNone DEF TimePasses, IInv
<1> QED BY <1>3, <1>4, WorldStep DEF TimePasses

LEMMA JudgeWorkersStep ==
    ASSUME IInv, JudgeWorkers
    PROVE  Kept
<1>1. Frame
  BY DEF JudgeWorkers, Frame, IInv, TypeOK
<1>2. Inserts({})
  BY TriesKept, InsertsNone DEF JudgeWorkers, IInv
<1> QED BY <1>1, <1>2, WorldStep DEF JudgeWorkers

LEMMA ReconcileStep ==
    ASSUME IInv, ReconcileStuckJobs
    PROVE  Kept
<1>1. Frame
  BY DEF ReconcileStuckJobs, Frame, IInv, TypeOK
<1>2. /\ Inserts({})
      /\ \A j \in 1 .. Len(jobs) : Locked(j) => jobs'[j] = jobs[j]
  BY InsertsStuck DEF IInv
<1>3. \A q \in Procs : proc[q].claim # 0 => jobs'[proc[q].claim] = jobs[proc[q].claim]
  <2> TAKE q \in Procs
  <2>1. proc[q].claim # 0 => proc[q].claim \in 1 .. Len(jobs)
    BY Before DEF Holds
  <2> QED BY <2>1, <1>2 DEF Locked
<1>4. proc' = proc
  BY DEF ReconcileStuckJobs
<1> QED BY <1>1, <1>2, <1>3, <1>4, WorldStep
-----------------------------------------------------------------------------
(* The invariant holds. *)

LEMMA InitInv == Init => IInv
<1> SUFFICES ASSUME Init PROVE IInv
  OBVIOUS
<1>1. /\ jobs = <<>> /\ tries = <<>> /\ proc = [p \in Procs |-> Idle]
      /\ Len(jobs) = 0 /\ Len(tries) = 0 /\ jobs \in Seq(Job) /\ tries \in Seq(Try)
  BY EmptySeq DEF Init
<1>2. /\ Idle \in Proc /\ Idle.mine = {} /\ Idle.claim = 0
      /\ Idle.pc = "idle" /\ Idle.todo = {}
  BY DEF Idle, Proc
<1>3. \A p \in Procs : proc[p] = Idle
  BY <1>1
<1>4. TypeOK
  <2>1. mishaps \in 0 .. MaxMishaps /\ aged \subseteq 1 .. Len(jobs)
    BY BoundsAssumption DEF Init
  <2>2. proc \in [Procs -> Proc]
    BY <1>1, <1>2
  <2>3. /\ onDemand \in BOOLEAN /\ healthy \in BOOLEAN /\ judged \in BOOLEAN
        /\ assets \in [Assets -> {"absent", "live", "deleted"}]
        /\ fresh \in [Assets -> BOOLEAN]
    BY DEF Init
  <2> QED BY <1>1, <2>1, <2>2, <2>3 DEF TypeOK
<1>5. Places /\ AllApart
  <2>1. Place(Idle, assets) /\ Holds(Idle, jobs) /\ Apart(Idle, Idle)
    BY <1>2, FS_EmptySet DEF Place, Holds, Apart
  <2> QED BY <1>2, <1>3, <2>1 DEF Places, AllApart
<1>6. \A a \in Assets : ActiveJobs(a) = {}
  BY <1>1 DEF ActiveJobs
<1>7. AbsentQuiet /\ OneActiveJobPerAsset /\ AllDecided
  BY <1>1, <1>6 DEF AbsentQuiet, OneActiveJobPerAsset, AllDecided
<1> QED BY <1>4, <1>5, <1>7 DEF IInv

LEMMA StepInv == IInv /\ [Next]_vars => Kept
<1> SUFFICES ASSUME IInv, [Next]_vars PROVE Kept
  OBVIOUS
<1>1. ASSUME NEW w \in Workers, WorkerStep(w) PROVE Kept
  <2>0. w \in Procs
    BY DEF Procs
  <2>1. CASE BeginCycle(w)     BY <2>0, <2>1, BeginCycleStep
  <2>2. CASE LookForActive(w)  BY <2>0, <2>2, LookForActiveStep
  <2>3. CASE InsertDue(w)      BY <2>0, <2>3, InsertDueStep
  <2>4. CASE CommitDue(w)      BY <2>0, <2>4, CommitDueStep
  <2>5. CASE ClaimNextJob(w)   BY <2>0, <2>5, ClaimNextJobStep
  <2>6. CASE CancelDeleted(w)  BY <2>0, <2>6, CancelDeletedStep
  <2>7. CASE AssessJob(w)      BY <2>0, <2>7, AssessJobStep
  <2>8. CASE FindAsset(w)      BY <2>0, <2>8, FindAssetStep
  <2> QED BY <1>1, <2>1, <2>2, <2>3, <2>4, <2>5, <2>6, <2>7, <2>8 DEF WorkerStep
<1>2. ASSUME NEW w \in Workers, AssessmentRaises(w) \/ AssessmentAborts(w) \/ Crash(w)
      PROVE  Kept
  <2>0. w \in Procs
    BY DEF Procs
  <2>1. CASE AssessmentRaises(w)  BY <2>0, <2>1, AssessmentRaisesStep
  <2>2. CASE AssessmentAborts(w)  BY <2>0, <2>2, AssessmentAbortsStep
  <2>3. CASE Crash(w)             BY <2>0, <2>3, CrashStep
  <2> QED BY <1>2, <2>1, <2>2, <2>3
<1>3. ASSUME NEW r \in Requests,
             \/ RequestStep(r) \/ Trigger(r) \/ BeginCreation(r)
             \/ InlineRaises(r) \/ InlineAborts(r)
      PROVE  Kept
  <2>0. r \in Procs
    BY DEF Procs
  <2>1. CASE InsertTriggered(r)  BY <2>0, <2>1, InsertTriggeredStep
  <2>2. CASE AssessInline(r)     BY <2>0, <2>2, AssessInlineStep
  <2>3. CASE Trigger(r)          BY <2>0, <2>3, TriggerStep
  <2>4. CASE BeginCreation(r)    BY <2>0, <2>4, BeginCreationStep
  <2>5. CASE InlineRaises(r)     BY <2>0, <2>5, InlineRaisesStep
  <2>6. CASE InlineAborts(r)     BY <2>0, <2>6, InlineAbortsStep
  <2> QED BY <1>3, <2>1, <2>2, <2>3, <2>4, <2>5, <2>6 DEF RequestStep
<1>4. ASSUME NEW a \in Assets, GoStale(a) \/ DeleteAsset(a) PROVE Kept
  BY <1>4, GoStaleStep, DeleteAssetStep
<1>5. CASE TimePasses
  BY <1>5, TimePassesStep
<1>6. CASE ReconcileStuckJobs
  BY <1>6, ReconcileStep
<1>8. CASE JudgeWorkers
  BY <1>8, JudgeWorkersStep
<1>7. CASE UNCHANGED vars
  <2>1. Inserts({})
    BY <1>7, TriesKept, InsertsNone DEF vars, IInv
  <2>2. Frame
    BY <1>7, FrameStays DEF vars, IInv
  <2> QED BY <1>7, <2>1, <2>2, WorldStep DEF vars
<1> QED BY <1>1, <1>2, <1>3, <1>4, <1>5, <1>6, <1>7, <1>8 DEF Next

LEMMA AlwaysInv == Spec => []IInv
<1>1. IInv /\ [Next]_vars => IInv'
  BY StepInv DEF Kept
<1> QED BY InitInv, <1>1, PTL DEF Spec

\* Every reachable state is of the declared types; the job table never grows a row
\* of another shape, whoever writes it.
THEOREM TypeCorrect == Spec => []TypeOK
<1>1. IInv => TypeOK
  BY DEF IInv
<1> QED BY <1>1, AlwaysInv, PTL

\* However many replicas, calls of the endpoint and creations look for an active job
\* before they insert one, an asset never has two (worker.py, enqueue_assessment).
THEOREM OneActiveJob == Spec => []OneActiveJobPerAsset
<1>1. IInv => OneActiveJobPerAsset
  BY DEF IInv
<1> QED BY <1>1, AlwaysInv, PTL

\* Claims of replicas and inline runs of the endpoint and of creations exclude each
\* other for one asset (worker.py's claim and registry.py's inline assessment).
THEOREM AssessmentsApart == Spec => []NoTwoAssessAtOnce
<1>1. IInv => NoTwoAssessAtOnce
  <2> SUFFICES ASSUME IInv, NEW p \in Procs, NEW q \in Procs, p # q,
                      Assessing(p), Assessing(q), proc[p].at = proc[q].at
               PROVE  FALSE
    BY DEF NoTwoAssessAtOnce
  <2> DEFINE a == proc[p].at
  <2>1. ASSUME NEW s \in Procs, proc[s].pc \in {"claimed", "assess"}
        PROVE  proc[s].claim # 0 /\ proc[s].claim \in ActiveJobs(proc[s].at)
    BY <2>1, Before DEF Place, Holds, ActiveJobs
  <2>2. ASSUME NEW s \in Procs, proc[s].pc = "inline"
        PROVE  proc[s].at \in proc[s].mine /\ ActiveJobs(proc[s].at) = {}
    BY <2>2, Before DEF Place
  <2>3. a \in Assets /\ Apart(proc[p], proc[q])
    BY Before DEF Place, Assessing, IInv, AllApart
  <2>4. CASE proc[p].pc \in {"claimed", "assess"} /\ proc[q].pc \in {"claimed", "assess"}
    <3>1. proc[p].claim = proc[q].claim
      BY <2>1, <2>3, <2>4 DEF IInv, OneActiveJobPerAsset
    <3> QED BY <3>1, <2>1, <2>3, <2>4 DEF Apart
  <2>5. CASE proc[p].pc = "inline" /\ proc[q].pc = "inline"
    BY <2>2, <2>3, <2>5 DEF Apart
  <2>6. CASE ~(proc[p].pc = "inline" <=> proc[q].pc = "inline")
    BY <2>1, <2>2, <2>6 DEF Assessing
  <2> QED BY <2>4, <2>5, <2>6 DEF Assessing
<1> QED BY <1>1, AlwaysInv, PTL

\* A worker gives a job up at its last attempt and not before, and queues it again
\* only with attempts left (worker.py's retry branch).
THEOREM AttemptsSettle == Spec => []AttemptsDecide
<1>1. IInv => AttemptsDecide
  BY DEF IInv, AllDecided, Decided, AttemptsDecide
<1> QED BY <1>1, AlwaysInv, PTL

\* No late claim, reconcile or inline run writes over the outcome of a job.
THEOREM OutcomesStay == Spec => SettledJobsStaySettled
<1>1. IInv /\ [Next]_vars => [OutcomesStand]_vars
  BY StepInv DEF Kept
<1>2. Spec => [][OutcomesStand]_vars
  BY <1>1, AlwaysInv, PTL DEF Spec
<1> QED BY <1>2 DEF OutcomesStand, SettledJobsStaySettled
=============================================================================
