------------------------ MODULE AlertDelivery_proofs ------------------------
(***************************************************************************)
(* Proofs about AlertDelivery, for any number of events, processes,        *)
(* attempts and faults.                                                    *)
(***************************************************************************)
EXTENDS AlertDelivery, FiniteSetTheorems, TLAPS

-----------------------------------------------------------------------------
(* Type correctness *)

\* What a cycle has in hand came from the bus, and it has a message from its
\* delivery to its acknowledgement.
HandsInv ==
    \A w \in Workers :
        /\ worker[w].batch \subseteq bus
        /\ worker[w].msg \in bus \cup {NoMessage}
        /\ worker[w].pc \in {"mark", "ack", "fail", "bury", "buried", "unpend"} =>
               worker[w].msg \in bus
        /\ worker[w].pc # "publish" => worker[w].todo = {}

Typed == TypeOK /\ HandsInv /\ IsFiniteSet(bus)

LEMMA RowFields ==
    /\ NoWrite \in Row
    /\ \A r \in Row : r.status \in Statuses /\ r.attempts \in Nat
    /\ \A r \in Row, s \in Statuses : /\ [r EXCEPT !.status = s] \in Row
                                      /\ [r EXCEPT !.status = s].status = s
                                      /\ [r EXCEPT !.status = s].attempts = r.attempts
    /\ \A s \in Statuses, n \in Nat : [status |-> s, attempts |-> n] \in Row
BY DEF Row, NoWrite, Statuses

LEMMA TypedInit == Init => Typed
<1> SUFFICES ASSUME Init PROVE Typed
  OBVIOUS
<1>1. IsFiniteSet(bus)
  BY FS_EmptySet DEF Init
<1>2. HandsInv
  BY DEF Init, HandsInv
<1>3. db \in [Events -> Row] /\ tx \in [Workers -> [Events -> Row]]
  BY RowFields DEF Init, Clean
<1>4. worker \in [Workers -> Worker]
  BY DEF Init, Worker
<1>5. owner \in [bus -> Workers \cup {NoWorker}]
  BY DEF Init
<1>6. /\ bus \subseteq Message /\ acked \subseteq bus /\ stream \in [Events -> Nat]
      /\ deadBus \subseteq Events /\ abandoned \subseteq Events /\ faults \in Nat
  BY DEF Init
<1> QED BY <1>1, <1>2, <1>3, <1>4, <1>5, <1>6 DEF Typed, TypeOK

LEMMA WorkerFields ==
    ASSUME NEW x \in Worker
    PROVE  /\ x.todo \subseteq Events /\ x.batch \subseteq Message
           /\ x.msg \in Message \cup {NoMessage}
           /\ x.pc \in {"idle", "publish", "receive", "consume", "mark", "ack", "fail",
                        "bury", "buried", "unpend"}
BY DEF Worker

\* A row of writes is stored for one process, rows are committed.
LEMMA WriteStored ==
    ASSUME TypeOK, NEW w \in Workers, NEW t \in [Events -> Row]
    PROVE  [tx EXCEPT ![w] = t] \in [Workers -> [Events -> Row]]
BY DEF TypeOK

LEMMA CleanTyped == Clean \in [Events -> Row] /\ \A e \in Events : Clean[e] = NoWrite
BY RowFields DEF Clean

LEMMA CommitTyped ==
    ASSUME TypeOK, NEW t \in [Events -> Row], Commit(t)
    PROVE  db' \in [Events -> Row] /\ abandoned' \subseteq Events
BY DEF TypeOK, Commit

LEMMA AppendsType ==
    ASSUME IsFiniteSet(bus), NEW e \in Events
    PROVE  NextOf(e) \in Message /\ NextOf(e).event = e
<1>1. IsFiniteSet({m \in bus : m.event = e})
  BY FS_Subset
<1>2. Appends(e) \in Nat
  BY <1>1, FS_CardinalityType DEF Appends
<1> QED BY <1>2 DEF NextOf, Message

\* What one process does leaves what the others have in hand.
LEMMA HandsKept ==
    ASSUME HandsInv, TypeOK, NEW w \in Workers, bus \subseteq bus', NEW x \in Worker,
           worker' = [worker EXCEPT ![w] = x],
           x.batch \subseteq bus', x.msg \in bus' \cup {NoMessage},
           x.pc \in {"mark", "ack", "fail", "bury", "buried", "unpend"} => x.msg \in bus',
           x.pc # "publish" => x.todo = {}
    PROVE  HandsInv' /\ worker' \in [Workers -> Worker]
BY DEF HandsInv, TypeOK

LEMMA RollbackTyped ==
    ASSUME Typed, NEW w \in Workers, Rollback(w), faults' \in Nat
    PROVE  Typed'
<1> DEFINE x == [pc |-> "idle", todo |-> {}, batch |-> {}, msg |-> NoMessage]
<1>1. /\ x \in Worker /\ x.pc = "idle" /\ x.batch = {} /\ x.todo = {}
      /\ x.msg = NoMessage
  BY DEF Worker
<1>2. worker' = [worker EXCEPT ![w] = x] /\ bus' = bus
  BY DEF Rollback
<1> HIDE DEF x
<1>3. HandsInv' /\ worker' \in [Workers -> Worker]
  BY <1>1, <1>2, HandsKept DEF Typed
<1>4. tx' \in [Workers -> [Events -> Row]]
  BY CleanTyped, WriteStored DEF Rollback, Typed
<1> QED BY <1>2, <1>3, <1>4 DEF Rollback, Typed, TypeOK

LEMMA TypedCycle ==
    ASSUME Typed, NEW w \in Workers, Cycle(w)
    PROVE  Typed'
<1> USE DEF Typed
<1>0. /\ worker \in [Workers -> Worker] /\ worker[w] \in Worker
      /\ db \in [Events -> Row] /\ tx \in [Workers -> [Events -> Row]]
      /\ tx[w] \in [Events -> Row]
      /\ owner \in [bus -> Workers \cup {NoWorker}]
      /\ stream \in [Events -> Nat] /\ bus \subseteq Message
  BY DEF TypeOK
<1>m. ASSUME NEW c \in {"idle", "publish", "receive", "consume", "mark", "ack", "fail",
                        "bury", "buried", "unpend"},
             Move(w, c), bus' = bus, c # "publish", worker[w].pc # "publish",
             c = "consume" \/ worker[w].msg \in bus
      PROVE  HandsInv' /\ worker' \in [Workers -> Worker]
  <2> DEFINE x == [worker[w] EXCEPT !.pc = c]
  <2>1. x \in Worker /\ x.pc = c /\ x.todo = worker[w].todo /\ x.batch = worker[w].batch
        /\ x.msg = worker[w].msg
    BY <1>0 DEF Worker
  <2>2. worker' = [worker EXCEPT ![w] = x]
    BY <1>0, <1>m DEF Move
  <2> HIDE DEF x
  <2> QED BY <1>m, <2>1, <2>2, HandsKept DEF HandsInv
<1>1. CASE Claim(w)
  <2> DEFINE t == [e \in Events |-> IF e \in Claimable(w)
                                    THEN [db[e] EXCEPT !.status = "leased"] ELSE NoWrite]
             x == [worker[w] EXCEPT !.pc = "publish", !.todo = Claimable(w)]
  <2>1. t \in [Events -> Row]
    BY <1>0, RowFields DEF Statuses
  <2>2. /\ x \in Worker /\ x.pc = "publish" /\ x.batch = worker[w].batch /\ x.msg = worker[w].msg
    BY <1>0 DEF Worker, Claimable
  <2>3. worker' = [worker EXCEPT ![w] = x] /\ tx' = [tx EXCEPT ![w] = t]
    BY <1>0, <1>1 DEF Claim
  <2> HIDE DEF x, t
  <2>4. HandsInv' /\ worker' \in [Workers -> Worker]
    BY <1>1, <2>2, <2>3, HandsKept DEF Claim, HandsInv
  <2>5. tx' \in [Workers -> [Events -> Row]]
    BY <2>1, <2>3, WriteStored
  <2> QED BY <1>1, <2>4, <2>5 DEF Claim, TypeOK
<1>2. ASSUME NEW e \in Events, Publish(w, e) PROVE Typed'
  <2> DEFINE x == [worker[w] EXCEPT !.todo = @ \ {e}]
  <2>1. x \in Worker /\ x.pc = "publish" /\ x.batch = worker[w].batch /\ x.msg = worker[w].msg
    BY <1>0, <1>2 DEF Worker, Publish, At
  <2>2. worker' = [worker EXCEPT ![w] = x]
    BY <1>0, <1>2 DEF Publish
  <2> HIDE DEF x
  <2>3. tx' \in [Workers -> [Events -> Row]]
    <3>1. \E r \in Row : tx' = [tx EXCEPT ![w][e] = r]
      <4>1. Spend(w, e) \in Row
        <5>1. tx[w][e].attempts + 1 \in Nat
          BY <1>0, RowFields
        <5> QED BY <5>1, RowFields DEF Spend, Statuses
      <4>2. [tx[w][e] EXCEPT !.status = "published"] \in Row
        BY <1>0, RowFields DEF Statuses
      <4>3. tx' = [tx EXCEPT ![w][e] = Spend(w, e)]
            \/ tx' = [tx EXCEPT ![w][e] = [tx[w][e] EXCEPT !.status = "published"]]
        <5>1. CASE tx' = [tx EXCEPT ![w][e].status = "published"]
          BY <1>0, <5>1
        <5> QED BY <1>2, <5>1 DEF Publish
      <4> QED BY <4>1, <4>2, <4>3
    <3> QED BY <1>0, <3>1
  <2>4. /\ bus' \subseteq Message /\ bus \subseteq bus' /\ IsFiniteSet(bus')
        /\ owner' \in [bus' -> Workers \cup {NoWorker}]
    <3>1. CASE XAdd(e)
      BY <1>0, <3>1, AppendsType, FS_AddElement DEF XAdd
    <3>2. CASE UNCHANGED <<bus, owner>>
      BY <1>0, <3>2
    <3> QED BY <1>2, <3>1, <3>2 DEF Publish
  <2>5. faults' \in Nat
    BY <1>2 DEF Publish, Fault, TypeOK
  <2>6. HandsInv' /\ worker' \in [Workers -> Worker]
    BY <2>1, <2>2, <2>4, HandsKept DEF HandsInv
  <2> QED BY <1>2, <2>3, <2>4, <2>5, <2>6 DEF Publish, TypeOK
<1>3. ASSUME NEW stale \in SUBSET bus, ReceiveAll(w, stale), faults' \in Nat PROVE Typed'
  <2> DEFINE got == stale \cup {m \in bus : owner[m] = NoWorker}
             x == [worker[w] EXCEPT !.pc = "consume", !.batch = got]
  <2>1. got \subseteq bus
    OBVIOUS
  <2>2. owner' = [m \in bus |-> IF m \in got THEN w ELSE owner[m]]
        /\ worker' = [worker EXCEPT ![w] = x]
        /\ worker[w].todo = {}
    BY <1>0, <1>3 DEF ReceiveAll
  <2> HIDE DEF got
  <2>3. x \in Worker /\ x.pc = "consume" /\ x.batch = got /\ x.todo = {}
        /\ x.msg = worker[w].msg
    BY <1>0, <2>1, <2>2 DEF Worker
  <2> HIDE DEF x
  <2>4. HandsInv' /\ worker' \in [Workers -> Worker]
    BY <1>3, <2>1, <2>2, <2>3, HandsKept DEF ReceiveAll, HandsInv
  <2>5. owner' \in [bus -> Workers \cup {NoWorker}]
    BY <1>0, <2>2
  <2> QED BY <1>3, <2>4, <2>5 DEF ReceiveAll, TypeOK
<1>4. CASE Receive(w)
  BY <1>3, <1>4 DEF Receive, Orphaned, TypeOK
<1>5. CASE ReceiveFromSlow(w)
  <2>1. PICK v \in Workers : \E m \in Handling(v) \ (acked \cup {NoMessage}) :
                                  ReceiveAll(w, Orphaned \cup {m}) /\ Fault
    BY <1>5 DEF ReceiveFromSlow
  <2>2. PICK m \in Handling(v) \ (acked \cup {NoMessage}) :
                ReceiveAll(w, Orphaned \cup {m}) /\ Fault
    BY <2>1
  <2>3. m \in bus
    BY <1>0, <2>2 DEF Handling, HandsInv
  <2> QED BY <1>3, <2>2, <2>3 DEF Orphaned, Fault, TypeOK
<1>6. ASSUME NEW m \in worker[w].batch, Deliver(w, m) PROVE Typed'
  <2>0. m \in bus
    BY <1>6 DEF HandsInv
  <2>1. PICK c \in {"mark", "fail"} :
              worker' = [worker EXCEPT ![w].pc = c, ![w].msg = m, ![w].batch = @ \ {m}]
    BY <1>6 DEF Deliver
  <2> DEFINE x == [worker[w] EXCEPT !.pc = c, !.msg = m, !.batch = @ \ {m}]
  <2>2. x \in Worker /\ x.pc = c /\ x.msg = m /\ x.batch \subseteq worker[w].batch
        /\ x.todo = worker[w].todo
    BY <1>0, <2>0 DEF Worker
  <2>3. worker' = [worker EXCEPT ![w] = x]
    BY <1>0, <2>1
  <2> HIDE DEF x
  <2>4. HandsInv' /\ worker' \in [Workers -> Worker]
    BY <1>6, <2>0, <2>2, <2>3, HandsKept DEF HandsInv, Deliver, At
  <2>5. stream' \in [Events -> Nat]
    <3>1. m.event \in Events
      BY <1>0, <2>0 DEF Message
    <3>2. AppendOnce(m.event) \/ UNCHANGED stream
      BY <1>6 DEF Deliver
    <3> QED BY <1>0, <3>1, <3>2 DEF AppendOnce
  <2>6. faults' \in Nat
    BY <1>6 DEF Deliver, Fault, TypeOK
  <2> QED BY <1>6, <2>4, <2>5, <2>6 DEF Deliver, TypeOK
<1>c. ASSUME NEW t \in [Events -> Row], Commit(t), tx' = [tx EXCEPT ![w] = Clean],
             HandsInv' /\ worker' \in [Workers -> Worker],
             deadBus' \subseteq Events, UNCHANGED <<bus, owner, acked, stream, faults>>
      PROVE  Typed'
  BY <1>c, CommitTyped, CleanTyped, WriteStored DEF TypeOK
<1>7. CASE MarkDelivered(w)
  <2> DEFINE e == worker[w].msg.event
             r == [View(w, e) EXCEPT !.status = "delivered"]
             t == [tx[w] EXCEPT ![e] = r]
  <2>1. worker[w].msg \in bus /\ e \in Events
    BY <1>0, <1>7 DEF HandsInv, MarkDelivered, At, Message
  <2>2. r \in Row
    BY <1>0, <2>1, RowFields DEF View, Statuses
  <2> HIDE DEF r
  <2>3. t \in [Events -> Row]
    BY <1>0, <2>2
  <2>4. HandsInv' /\ worker' \in [Workers -> Worker]
    BY <1>7, <1>m, <2>1 DEF MarkDelivered, At
  <2> QED BY <1>7, <1>c, <2>3, <2>4 DEF MarkDelivered, r, TypeOK
<1>8. CASE Ack(w)
  <2>1. worker[w].msg \in bus
    BY <1>8 DEF HandsInv, Ack, At
  <2>2. HandsInv' /\ worker' \in [Workers -> Worker]
    BY <1>8, <1>m, <2>1 DEF Ack, At
  <2> QED BY <1>8, <2>1, <2>2 DEF Ack, Fault, TypeOK
<1>9. CASE FailMessage(w)
  <2> DEFINE e == worker[w].msg.event
             n == View(w, e).attempts + 1
  <2>1. worker[w].msg \in bus /\ e \in Events
    BY <1>0, <1>9 DEF HandsInv, FailMessage, At, Message
  <2>2. n \in Nat
    BY <1>0, <2>1, RowFields DEF View
  <2>3. PICK s \in {"dead_letter", "published"} :
              tx' = [tx EXCEPT ![w][e] = [status |-> s, attempts |-> n]]
    BY <1>9 DEF FailMessage
  <2>4. [status |-> s, attempts |-> n] \in Row
    BY <2>2, RowFields DEF Statuses
  <2>5. tx' \in [Workers -> [Events -> Row]]
    BY <1>0, <2>3, <2>4
  <2>6. HandsInv' /\ worker' \in [Workers -> Worker]
    BY <1>9, <1>m, <2>1 DEF FailMessage, At
  <2> QED BY <1>9, <2>5, <2>6 DEF FailMessage, TypeOK
<1>14. CASE AppendDead(w)
  <2>1. worker[w].msg \in bus /\ worker[w].msg.event \in Events
    BY <1>0, <1>14 DEF HandsInv, AppendDead, At, Message
  <2>2. HandsInv' /\ worker' \in [Workers -> Worker]
    BY <1>14, <1>m, <2>1 DEF AppendDead, At
  <2> QED BY <1>0, <1>14, <2>1, <2>2 DEF AppendDead, TypeOK
<1>10. CASE CommitDead(w)
  <2>1. worker[w].msg \in bus
    BY <1>0, <1>10 DEF HandsInv, CommitDead, At
  <2>2. HandsInv' /\ worker' \in [Workers -> Worker]
    BY <1>10, <1>m, <2>1 DEF CommitDead, At
  <2> QED BY <1>0, <1>10, <1>c, <2>1, <2>2 DEF CommitDead, TypeOK
<1>11. CASE AckBuried(w)
  <2>1. worker[w].msg \in bus
    BY <1>11 DEF HandsInv, AckBuried, At
  <2>2. HandsInv' /\ worker' \in [Workers -> Worker]
    BY <1>11, <1>m, <2>1 DEF AckBuried, At
  <2> QED BY <1>11, <2>1, <2>2 DEF AckBuried, TypeOK
<1>12. CASE EndCycle(w)
  <2> DEFINE x == [worker[w] EXCEPT !.pc = "idle", !.msg = NoMessage]
  <2>1. /\ x \in Worker /\ x.pc = "idle" /\ x.batch = worker[w].batch
        /\ x.todo = worker[w].todo /\ x.msg = NoMessage
    BY <1>0 DEF Worker
  <2>2. worker' = [worker EXCEPT ![w] = x]
    BY <1>0, <1>12 DEF EndCycle
  <2> HIDE DEF x
  <2>3. /\ bus' = bus /\ worker[w].batch = {} /\ worker[w].todo = {}
    BY <1>12 DEF HandsInv, EndCycle, At
  <2>4. /\ bus \subseteq bus' /\ x.batch \subseteq bus' /\ x.msg \in bus' \cup {NoMessage}
        /\ x.pc \notin {"mark", "ack", "fail", "bury", "buried", "unpend"} /\ x.todo = {}
    BY <2>1, <2>3
  <2>5. HandsInv' /\ worker' \in [Workers -> Worker]
    BY <2>1, <2>2, <2>4, HandsKept
  <2> QED BY <1>0, <1>12, <1>c, <2>5 DEF EndCycle, TypeOK
<1>13. CASE BreakDeadlock(w)
  BY <1>13, RollbackTyped DEF BreakDeadlock, TypeOK
<1> QED BY <1>1, <1>2, <1>4, <1>5, <1>6, <1>7, <1>8, <1>9, <1>10, <1>11, <1>12, <1>13,
          <1>14 DEF Cycle

LEMMA TypedStep ==
    ASSUME Typed, [Next]_vars
    PROVE  Typed'
<1>1. ASSUME NEW e \in Events, Enqueue(e) PROVE Typed'
  <2>1. [db[e] EXCEPT !.status = "pending"] \in Row
    BY RowFields DEF Typed, TypeOK, Statuses
  <2>2. db' = [db EXCEPT ![e] = [db[e] EXCEPT !.status = "pending"]]
    BY <1>1 DEF Enqueue, Typed, TypeOK
  <2>3. db' \in [Events -> Row]
    BY <2>1, <2>2 DEF Typed, TypeOK
  <2> QED BY <1>1, <2>3 DEF Enqueue, Typed, TypeOK, HandsInv
<1>2. ASSUME NEW w \in Workers, Crash(w) PROVE Typed'
  BY <1>2, RollbackTyped DEF Crash, Fault, Typed, TypeOK
<1>3. CASE UNCHANGED vars
  BY <1>3 DEF vars, Typed, TypeOK, HandsInv
<1> QED BY <1>1, <1>2, <1>3, TypedCycle DEF Next

LEMMA AlwaysTyped == Spec => []Typed
<1>1. Typed /\ [Next]_vars => Typed'
  BY TypedStep
<1> QED BY <1>1, TypedInit, PTL DEF Spec

\* Every variable keeps its type; the messages a cycle has in hand, and those
\* the group has acknowledged, were on the bus.
THEOREM TypeCorrect == Spec => []TypeOK
<1>1. Typed => TypeOK
  BY DEF Typed
<1> QED BY <1>1, AlwaysTyped, PTL

-----------------------------------------------------------------------------
(* What acknowledgements rest on *)

\* A message is acknowledged only after its event is on the workspace stream, or
\* in the dead-letter stream.
AckInv ==
    /\ \A w \in Workers :
          /\ worker[w].pc \in {"mark", "ack"} => stream[worker[w].msg.event] > 0
          /\ worker[w].pc \in {"buried", "unpend"} => worker[w].msg.event \in deadBus
    /\ AckedIsSettled

LEMMA BusEvents ==
    ASSUME Typed
    PROVE  /\ \A m \in bus : m.event \in Events
           /\ \A w \in Workers :
                worker[w].pc \in {"mark", "ack", "fail", "bury", "buried", "unpend"} =>
                    worker[w].msg \in bus /\ worker[w].msg.event \in Events
BY DEF Typed, TypeOK, HandsInv, Message

LEMMA StreamGrows ==
    ASSUME Typed, NEW d \in Events, AppendOnce(d)
    PROVE  /\ \A e \in Events : stream[e] > 0 => stream'[e] > 0
           /\ stream'[d] > 0
           /\ \A e \in Events \ {d} : stream'[e] = stream[e]
<1>1. stream \in [Events -> Nat]
  BY DEF Typed, TypeOK
<1> QED BY <1>1 DEF AppendOnce

\* The places of the others stay, and nothing is taken back from Redis.
LEMMA AckKept ==
    ASSUME Typed, AckInv, NEW w \in Workers,
           \A v \in Workers \ {w} : worker'[v] = worker[v],
           \A e \in Events : stream[e] > 0 => stream'[e] > 0,
           deadBus \subseteq deadBus',
           worker'[w].pc \in {"mark", "ack"} => stream'[worker'[w].msg.event] > 0,
           worker'[w].pc \in {"buried", "unpend"} => worker'[w].msg.event \in deadBus',
           \A m \in acked' \ acked :
              m \in bus /\ (stream[m.event] > 0 \/ m.event \in deadBus)
    PROVE  AckInv'
<1>1. AckedIsSettled'
  <2>1. \A m \in acked' : m.event \in Events
    BY BusEvents DEF Typed, TypeOK
  <2>2. \A m \in acked' : stream[m.event] > 0 \/ m.event \in deadBus
    BY DEF AckInv, AckedIsSettled
  <2> QED BY <2>1, <2>2 DEF AckedIsSettled
<1>2. ASSUME NEW v \in Workers
      PROVE  /\ worker'[v].pc \in {"mark", "ack"} => stream'[worker'[v].msg.event] > 0
             /\ worker'[v].pc \in {"buried", "unpend"} => worker'[v].msg.event \in deadBus'
  <2>1. CASE v = w
    BY <2>1
  <2>2. CASE v # w
    BY <2>2, BusEvents DEF AckInv
  <2> QED BY <2>1, <2>2
<1> QED BY <1>1, <1>2 DEF AckInv

\* The step of one process, as the others see it.
OthersStay(w) == \A v \in Workers \ {w} : worker'[v] = worker[v] /\ tx'[v] = tx[v]

LEMMA CycleStays ==
    ASSUME Typed, NEW w \in Workers, Cycle(w) \/ Crash(w)
    PROVE  OthersStay(w)
<1>0. /\ worker \in [Workers -> Worker] /\ tx \in [Workers -> [Events -> Row]]
  BY DEF Typed, TypeOK
<1>1. ASSUME NEW e \in Events, Publish(w, e) PROVE OthersStay(w)
  BY <1>0, <1>1 DEF Publish, OthersStay
<1>2. ASSUME NEW S, ReceiveAll(w, S) PROVE OthersStay(w)
  BY <1>0, <1>2 DEF ReceiveAll, OthersStay
<1>3. ASSUME NEW m, Deliver(w, m) PROVE OthersStay(w)
  BY <1>0, <1>3 DEF Deliver, OthersStay
<1>4. CASE Claim(w)         BY <1>0, <1>4 DEF Claim, OthersStay
<1>5. CASE MarkDelivered(w) BY <1>0, <1>5 DEF MarkDelivered, Move, OthersStay
<1>6. CASE Ack(w)           BY <1>0, <1>6 DEF Ack, Move, OthersStay
<1>7. CASE FailMessage(w)   BY <1>0, <1>7 DEF FailMessage, Move, OthersStay
<1>8. CASE CommitDead(w)    BY <1>0, <1>8 DEF CommitDead, Move, OthersStay
<1>14. CASE AppendDead(w)   BY <1>0, <1>14 DEF AppendDead, Move, OthersStay
<1>9. CASE AckBuried(w)     BY <1>0, <1>9 DEF AckBuried, Move, OthersStay
<1>10. CASE EndCycle(w)     BY <1>0, <1>10 DEF EndCycle, OthersStay
<1>11. CASE Rollback(w)     BY <1>0, <1>11 DEF Rollback, OthersStay
<1>12. Receive(w) => \E S : ReceiveAll(w, S)
  BY DEF Receive
<1>13. ReceiveFromSlow(w) => \E S : ReceiveAll(w, S)
  BY DEF ReceiveFromSlow
<1> QED BY <1>1, <1>2, <1>3, <1>4, <1>5, <1>6, <1>7, <1>8, <1>9, <1>10, <1>11, <1>12, <1>13,
          <1>14 DEF Cycle, Crash, BreakDeadlock

LEMMA AckStep ==
    ASSUME Typed, AckInv, [Next]_vars
    PROVE  AckInv'
<1>0. worker \in [Workers -> Worker]
  BY DEF Typed, TypeOK
<1>1. ASSUME NEW w \in Workers, OthersStay(w), UNCHANGED <<stream, deadBus, acked>>,
             worker'[w].pc \notin {"mark", "ack", "buried", "unpend"}
      PROVE  AckInv'
  BY <1>1, AckKept DEF OthersStay
<1>2. ASSUME NEW w \in Workers, Cycle(w) \/ Crash(w) PROVE AckInv'
  <2>0. OthersStay(w)
    BY <1>2, CycleStays
  <2>1. ASSUME NEW e \in Events, Publish(w, e) PROVE AckInv'
    BY <1>0, <1>1, <2>0, <2>1 DEF Publish, At
  <2>2. ASSUME NEW S, ReceiveAll(w, S) PROVE AckInv'
    BY <1>0, <1>1, <2>0, <2>2 DEF ReceiveAll
  <2>3. ASSUME NEW m \in worker[w].batch, Deliver(w, m) PROVE AckInv'
    <3>1. m.event \in Events
      BY <2>3, BusEvents DEF Typed, HandsInv
    <3>2. AppendOnce(m.event) \/ UNCHANGED stream
      BY <2>3 DEF Deliver
    <3>3. \A e \in Events : stream[e] > 0 => stream'[e] > 0
      BY <3>1, <3>2, StreamGrows
    <3>4. worker'[w].msg = m /\ (\/ worker'[w].pc = "mark" /\ AppendOnce(m.event)
                                 \/ worker'[w].pc = "fail")
      <4>1. PICK c \in {"mark", "fail"} :
              /\ worker' = [worker EXCEPT ![w].pc = c, ![w].msg = m, ![w].batch = @ \ {m}]
              /\ c = "mark" => AppendOnce(m.event)
        BY <2>3 DEF Deliver
      <4> QED BY <1>0, <4>1 DEF Worker
    <3>5. UNCHANGED <<deadBus, acked>>
      BY <2>3 DEF Deliver
    <3> QED BY <2>0, <3>1, <3>3, <3>4, <3>5, StreamGrows, AckKept DEF OthersStay
  <2>4. CASE Claim(w)
    BY <1>0, <1>1, <2>0, <2>4 DEF Claim
  <2>5. CASE MarkDelivered(w)
    <3>1. worker'[w].pc = "ack" /\ worker'[w].msg = worker[w].msg
      BY <1>0, <2>5 DEF MarkDelivered, Move
    <3>2. stream[worker[w].msg.event] > 0 /\ UNCHANGED <<stream, deadBus, acked>>
      BY <2>5 DEF MarkDelivered, AckInv, At
    <3> QED BY <2>0, <3>1, <3>2, AckKept DEF OthersStay
  <2>6. CASE Ack(w)
    <3>1. worker'[w].pc \in {"consume", "fail"}
      <4>1. PICK c \in {"consume", "fail"} : Move(w, c)
        BY <2>6 DEF Ack
      <4> QED BY <1>0, <4>1 DEF Move
    <3>2. worker[w].msg \in bus /\ stream[worker[w].msg.event] > 0
      BY <2>6, BusEvents DEF Ack, AckInv, At
    <3>3. acked' = acked \/ acked' = acked \cup {worker[w].msg}
      BY <2>6 DEF Ack
    <3>4. UNCHANGED <<stream, deadBus>>
      BY <2>6 DEF Ack
    <3> QED BY <2>0, <3>1, <3>2, <3>3, <3>4, AckKept DEF OthersStay
  <2>7. CASE FailMessage(w)
    <3>1. PICK c \in {"bury", "consume"} : Move(w, c)
      BY <2>7 DEF FailMessage
    <3> QED BY <1>0, <1>1, <2>0, <2>7, <3>1 DEF FailMessage, Move
  <2>8. CASE AppendDead(w)
    <3>1. worker'[w].pc = "buried" /\ worker'[w].msg = worker[w].msg
      BY <1>0, <2>8 DEF AppendDead, Move
    <3>2. deadBus' = deadBus \cup {worker[w].msg.event} /\ UNCHANGED <<stream, acked>>
      BY <2>8 DEF AppendDead
    <3> QED BY <2>0, <3>1, <3>2, AckKept DEF OthersStay
  <2>13. CASE CommitDead(w)
    <3>1. worker'[w].pc = "unpend" /\ worker'[w].msg = worker[w].msg
      BY <1>0, <2>13 DEF CommitDead, Move
    <3>2. worker[w].msg.event \in deadBus /\ UNCHANGED <<stream, acked, deadBus>>
      BY <2>13 DEF CommitDead, AckInv, At
    <3> QED BY <2>0, <3>1, <3>2, AckKept DEF OthersStay
  <2>9. CASE AckBuried(w)
    <3>1. worker'[w].pc = "consume"
      BY <1>0, <2>9 DEF AckBuried, Move
    <3>2. /\ worker[w].msg \in bus /\ worker[w].msg.event \in deadBus
          /\ UNCHANGED <<stream, deadBus>> /\ acked' = acked \cup {worker[w].msg}
      BY <2>9, BusEvents DEF AckBuried, AckInv, At
    <3> QED BY <2>0, <3>1, <3>2, AckKept DEF OthersStay
  <2>10. CASE EndCycle(w)
    BY <1>0, <1>1, <2>0, <2>10 DEF EndCycle
  <2>11. CASE Rollback(w)
    BY <1>0, <1>1, <2>0, <2>11 DEF Rollback
  <2>12. Receive(w) \/ ReceiveFromSlow(w) => \E S : ReceiveAll(w, S)
    BY DEF Receive, ReceiveFromSlow
  <2> QED BY <1>2, <2>1, <2>2, <2>3, <2>4, <2>5, <2>6, <2>7, <2>8, <2>9, <2>10, <2>11,
             <2>12, <2>13 DEF Cycle, Crash, BreakDeadlock
<1>3. ASSUME UNCHANGED <<worker, stream, deadBus, acked>> PROVE AckInv'
  BY <1>3 DEF AckInv, AckedIsSettled
<1>4. ASSUME NEW e \in Events, Enqueue(e) PROVE AckInv'
  BY <1>3, <1>4 DEF Enqueue
<1> QED BY <1>2, <1>3, <1>4 DEF Next, vars

LEMMA AlwaysAckInv == Spec => []AckInv
<1>1. Init => AckInv
  BY DEF Init, AckInv, AckedIsSettled
<1>2. AckInv /\ Typed /\ [Next]_vars => AckInv'
  BY AckStep
<1> QED BY <1>1, <1>2, AlwaysTyped, PTL DEF Spec

\* What the consumer group has acknowledged is on its workspace stream, or in
\* the dead-letter stream, whatever failed or was delivered twice before.
THEOREM AckedStaysSettled == Spec => []AckedIsSettled
<1>1. AckInv => AckedIsSettled
  BY DEF AckInv
<1> QED BY <1>1, AlwaysAckInv, PTL

-----------------------------------------------------------------------------
(* Row locks *)

\* Nobody writes a row somebody else has written; what is written is a row of the
\* outbox on its way, and never takes one back that is published.
LockInv ==
    /\ \A w, v \in Workers, e \in Events :
          w # v => tx[w][e] = NoWrite \/ tx[v][e] = NoWrite
    /\ \A w \in Workers, e \in Events : tx[w][e] # NoWrite =>
          /\ tx[w][e].status \in {"leased", "retry", "published", "dead_letter"}
          /\ db[e].status # "absent"
          /\ db[e].status \in Consumed => tx[w][e].status \in Consumed
    /\ \A w \in Workers : \A e \in worker[w].todo : tx[w][e].status = "leased"
    /\ \A w \in Workers : worker[w].pc \in {"bury", "buried"} =>
          tx[w][worker[w].msg.event].status = "dead_letter"
    /\ \A m \in bus : db[m.event].status # "absent"

LEMMA LockKept ==
    ASSUME Typed, LockInv, NEW w \in Workers, OthersStay(w),
           \A e \in Events : tx'[w][e] # NoWrite => tx[w][e] # NoWrite \/ Free(w, e),
           \A e \in Events : tx'[w][e] # NoWrite =>
              /\ tx'[w][e].status \in {"leased", "retry", "published", "dead_letter"}
              /\ db'[e].status # "absent"
              /\ db'[e].status \in Consumed => tx'[w][e].status \in Consumed,
           \A e \in Events : db'[e] = db[e] \/ Free(w, e),
           \A e \in worker'[w].todo : tx'[w][e].status = "leased",
           worker'[w].pc \in {"bury", "buried"} =>
              tx'[w][worker'[w].msg.event].status = "dead_letter",
           \A m \in bus' : db'[m.event].status # "absent"
    PROVE  LockInv'
<1>1. \A v \in Workers \ {w}, e \in Events : tx'[v][e] = tx[v][e]
  BY DEF OthersStay
<1>2. \A v \in Workers \ {w}, e \in Events : tx'[w][e] # NoWrite => tx'[v][e] = NoWrite
  BY <1>1 DEF LockInv, Free
<1>3. \A v, u \in Workers, e \in Events :
         v # u => tx'[v][e] = NoWrite \/ tx'[u][e] = NoWrite
  BY <1>1, <1>2 DEF LockInv
<1>4. ASSUME NEW v \in Workers, NEW e \in Events, tx'[v][e] # NoWrite
      PROVE  /\ tx'[v][e].status \in {"leased", "retry", "published", "dead_letter"}
             /\ db'[e].status # "absent"
             /\ db'[e].status \in Consumed => tx'[v][e].status \in Consumed
  <2>1. CASE v = w
    BY <1>4, <2>1
  <2>2. CASE v # w
    <3>1. tx[v][e] = tx'[v][e] /\ db'[e] = db[e]
      BY <1>1, <1>4, <2>2 DEF Free
    <3> QED BY <1>4, <3>1 DEF LockInv
  <2> QED BY <2>1, <2>2
<1>5. ASSUME NEW v \in Workers
      PROVE  /\ \A e \in worker'[v].todo : tx'[v][e].status = "leased"
             /\ worker'[v].pc \in {"bury", "buried"} =>
                   tx'[v][worker'[v].msg.event].status = "dead_letter"
  BY DEF OthersStay, LockInv
<1> QED BY <1>3, <1>4, <1>5 DEF LockInv

\* A commit writes what the process has written, and at most one row more.
LEMMA Committed ==
    ASSUME NEW t, Commit(t)
    PROVE  /\ \A e \in Events : db'[e] = IF t[e] = NoWrite THEN db[e] ELSE t[e]
           /\ abandoned' = abandoned \cup {e \in Events : t[e].status = "dead_letter"}
BY DEF Commit

LEMMA LockCommit ==
    ASSUME Typed, LockInv, NEW w \in Workers, OthersStay(w),
           tx' = [tx EXCEPT ![w] = Clean], bus' = bus,
           worker'[w].todo = {}, worker'[w].pc \notin {"bury", "buried"},
           \A e \in Events : db'[e] = db[e] \/ (Free(w, e) /\ db'[e].status # "absent")
    PROVE  LockInv'
<1>1. \A e \in Events : tx'[w][e] = NoWrite
  BY CleanTyped DEF Typed, TypeOK
<1>2. \A m \in bus : db'[m.event].status # "absent"
  BY BusEvents DEF LockInv
<1> QED BY <1>1, <1>2, LockKept

LEMMA OwnWrites ==
    ASSUME LockInv, NEW w \in Workers, NEW e \in Events, tx[w][e] # NoWrite
    PROVE  Free(w, e) /\ tx[w][e].status # "absent"
BY DEF LockInv, Free

\* What the commits of a cycle do to a row.
LEMMA LockCommitted ==
    ASSUME Typed, LockInv, NEW w \in Workers, MarkDelivered(w) \/ CommitDead(w) \/ EndCycle(w)
    PROVE  /\ \A e \in Events :
                 \/ db'[e] = db[e]
                 \/ tx[w][e] # NoWrite /\ db'[e] = tx[w][e]
                 \/ /\ Free(w, e) /\ At(w, "mark") /\ e = worker[w].msg.event
                    /\ db'[e] = [View(w, e) EXCEPT !.status = "delivered"]
           /\ \A e \in Events : e \in abandoned' \ abandoned =>
                 tx[w][e] # NoWrite /\ db'[e] = tx[w][e] /\ tx[w][e].status = "dead_letter"
<1>0. tx[w] \in [Events -> Row] /\ NoWrite.status = "absent"
  BY DEF Typed, TypeOK, NoWrite
<1>1. CASE CommitDead(w) \/ EndCycle(w)
  <2>1. Commit(tx[w])
    BY <1>1 DEF CommitDead, EndCycle
  <2> QED BY <1>0, <2>1, Committed
<1>2. CASE MarkDelivered(w)
  <2> DEFINE d == worker[w].msg.event
             r == [View(w, d) EXCEPT !.status = "delivered"]
             t == [tx[w] EXCEPT ![d] = r]
  <2>1. Commit(t) /\ Free(w, d) /\ At(w, "mark")
    BY <1>2 DEF MarkDelivered
  <2>2. d \in Events
    BY <1>2, BusEvents DEF MarkDelivered, At
  <2>3. View(w, d) \in Row
    BY <2>2 DEF View, Typed, TypeOK
  <2>4. r.status = "delivered"
    BY <2>3, RowFields DEF Statuses
  <2>5. r # NoWrite
    BY <1>0, <2>4
  <2>6. t[d] = r /\ \A e \in Events \ {d} : t[e] = tx[w][e]
    BY <1>0, <2>2
  <2> HIDE DEF t
  <2>7. /\ \A e \in Events : db'[e] = IF t[e] = NoWrite THEN db[e] ELSE t[e]
        /\ abandoned' = abandoned \cup {e \in Events : t[e].status = "dead_letter"}
    BY <2>1, Committed
  <2>8. db'[d] = r /\ \A e \in Events \ {d} : db'[e] = IF tx[w][e] = NoWrite THEN db[e] ELSE tx[w][e]
    BY <2>2, <2>5, <2>6, <2>7
  <2>9. \A e \in Events : t[e].status = "dead_letter" => e # d /\ tx[w][e].status = "dead_letter"
    BY <2>4, <2>6
  <2> QED BY <1>0, <2>1, <2>7, <2>8, <2>9
<1> QED BY <1>1, <1>2

-----------------------------------------------------------------------------
(* The steps of a cycle, as far as rows, messages and marks go *)

\* The attempts of a row are spent.
Over(r) == r.attempts >= MaxAttempts

LEMMA Delivers ==
    ASSUME Typed, NEW w \in Workers, NEW e \in Events
    PROVE  /\ View(w, e) \in Row
           /\ [View(w, e) EXCEPT !.status = "delivered"].status = "delivered"
           /\ [View(w, e) EXCEPT !.status = "delivered"].attempts = View(w, e).attempts
<1>1. View(w, e) \in Row
  BY DEF View, Typed, TypeOK
<1> QED BY <1>1, RowFields DEF Statuses

\* The outcome of an append, for the row.
LEMMA Published ==
    ASSUME Typed, NEW w \in Workers, NEW e \in Events, Publish(w, e)
    PROVE  /\ \A d \in Events \ {e} : tx'[w][d] = tx[w][d]
           /\ tx'[w][e].status \in {"published", "retry", "dead_letter"}
           /\ tx'[w][e].status = "dead_letter" => Over(tx'[w][e])
           /\ tx'[w][e].status = "published" => XAdd(e)
           /\ worker'[w].todo = worker[w].todo \ {e} /\ worker'[w].pc = "publish"
           /\ XAdd(e) \/ UNCHANGED <<bus, owner>>
           /\ UNCHANGED <<db, acked, stream, deadBus, abandoned>>
<1>0. /\ tx \in [Workers -> [Events -> Row]] /\ tx[w][e] \in Row
      /\ worker \in [Workers -> Worker]
  BY DEF Typed, TypeOK
<1>1. worker'[w].todo = worker[w].todo \ {e} /\ worker'[w].pc = "publish"
  BY <1>0 DEF Publish, At
<1>2. CASE tx' = [tx EXCEPT ![w][e].status = "published"] /\ XAdd(e)
  <2>1. tx'[w][e] = [tx[w][e] EXCEPT !.status = "published"]
    BY <1>0, <1>2
  <2>2. tx'[w][e].status = "published"
    BY <1>0, <2>1, RowFields DEF Statuses
  <2> QED BY <1>0, <1>1, <1>2, <2>2 DEF Publish
<1>3. CASE tx' = [tx EXCEPT ![w][e] = Spend(w, e)] /\ (XAdd(e) \/ UNCHANGED <<bus, owner>>)
  <2>1. tx'[w][e] = Spend(w, e)
    BY <1>0, <1>3
  <2>2. /\ Spend(w, e).status \in {"retry", "dead_letter"}
        /\ Spend(w, e).status = "dead_letter" => Over(Spend(w, e))
    BY <1>0, RowFields, BoundsAssumption DEF Spend, Over
  <2> QED BY <1>0, <1>1, <1>3, <2>1, <2>2 DEF Publish
<1> QED BY <1>2, <1>3 DEF Publish

LEMMA Failed ==
    ASSUME Typed, NEW w \in Workers, FailMessage(w)
    PROVE  LET e == worker[w].msg.event IN
           /\ e \in Events /\ worker[w].msg \in bus /\ Free(w, e)
           /\ \A d \in Events \ {e} : tx'[w][d] = tx[w][d]
           /\ tx'[w][e].attempts = View(w, e).attempts + 1
           /\ \/ /\ tx'[w][e].status = "dead_letter" /\ Over(tx'[w][e])
                 /\ worker'[w].pc = "bury"
              \/ /\ tx'[w][e].status = "published" /\ ~Over(tx'[w][e])
                 /\ worker'[w].pc = "consume"
           /\ worker'[w].msg = worker[w].msg /\ worker'[w].todo = {}
           /\ UNCHANGED <<db, bus, owner, acked, stream, deadBus, abandoned>>
<1> DEFINE e == worker[w].msg.event
           n == View(w, e).attempts + 1
<1>0. /\ tx \in [Workers -> [Events -> Row]] /\ worker \in [Workers -> Worker]
  BY DEF Typed, TypeOK
<1>1. e \in Events /\ worker[w].msg \in bus /\ worker[w].todo = {}
  BY BusEvents DEF FailMessage, At, Typed, HandsInv
<1>2. \/ /\ n >= MaxAttempts /\ Move(w, "bury")
         /\ tx' = [tx EXCEPT ![w][e] = [status |-> "dead_letter", attempts |-> n]]
      \/ /\ ~(n >= MaxAttempts) /\ Move(w, "consume")
         /\ tx' = [tx EXCEPT ![w][e] = [status |-> "published", attempts |-> n]]
  BY DEF FailMessage
<1>6. Free(w, e) /\ UNCHANGED <<db, bus, owner, acked, stream, deadBus, abandoned>>
  BY DEF FailMessage
<1> HIDE DEF n
<1>3. \A d \in Events \ {e} : tx'[w][d] = tx[w][d]
  BY <1>0, <1>2
<1>4. CASE /\ n >= MaxAttempts /\ Move(w, "bury")
           /\ tx' = [tx EXCEPT ![w][e] = [status |-> "dead_letter", attempts |-> n]]
  <2>1. /\ worker'[w].pc = "bury" /\ worker'[w].msg = worker[w].msg
        /\ worker'[w].todo = {}
    BY <1>0, <1>1, <1>4 DEF Move
  <2>2. tx'[w][e] = [status |-> "dead_letter", attempts |-> n]
    BY <1>0, <1>1, <1>4
  <2> QED BY <1>1, <1>3, <1>4, <1>6, <2>1, <2>2 DEF Over, n
<1>5. CASE /\ ~(n >= MaxAttempts) /\ Move(w, "consume")
           /\ tx' = [tx EXCEPT ![w][e] = [status |-> "published", attempts |-> n]]
  <2>1. /\ worker'[w].pc = "consume" /\ worker'[w].msg = worker[w].msg
        /\ worker'[w].todo = {}
    BY <1>0, <1>1, <1>5 DEF Move
  <2>2. tx'[w][e] = [status |-> "published", attempts |-> n]
    BY <1>0, <1>1, <1>5
  <2> QED BY <1>1, <1>3, <1>5, <1>6, <2>1, <2>2 DEF Over, n
<1> QED BY <1>2, <1>4, <1>5

\* What a claim takes: rows nobody has written, in a state before publication.
LEMMA Claimed ==
    ASSUME Typed, NEW w \in Workers, Claim(w)
    PROVE  /\ worker'[w].pc = "publish" /\ worker'[w].todo = Claimable(w)
           /\ \A e \in Events : tx'[w][e] = NoWrite \/ e \in Claimable(w)
           /\ \A e \in Claimable(w) : /\ Free(w, e) /\ tx'[w][e].status = "leased"
                                      /\ db[e].status \in {"pending", "retry", "leased"}
           /\ UNCHANGED <<db, bus, owner, acked, stream, deadBus, abandoned>>
<1>0. /\ tx \in [Workers -> [Events -> Row]] /\ worker \in [Workers -> Worker]
      /\ db \in [Events -> Row]
  BY DEF Typed, TypeOK
<1>1. worker'[w].pc = "publish" /\ worker'[w].todo = Claimable(w)
  BY <1>0 DEF Claim
<1>2. tx'[w] = [e \in Events |-> IF e \in Claimable(w)
                                 THEN [db[e] EXCEPT !.status = "leased"] ELSE NoWrite]
  BY <1>0 DEF Claim
<1>3. \A e \in Events : [db[e] EXCEPT !.status = "leased"].status = "leased"
  BY <1>0, RowFields DEF Statuses
<1>4. \A e \in Events : tx'[w][e] = IF e \in Claimable(w)
                                     THEN [db[e] EXCEPT !.status = "leased"] ELSE NoWrite
  BY <1>2
<1>5. \A e \in Claimable(w) : /\ e \in Events /\ Free(w, e)
                              /\ db[e].status \in {"pending", "retry", "leased"}
  BY DEF Claimable
<1>6. UNCHANGED <<db, bus, owner, acked, stream, deadBus, abandoned>>
  BY DEF Claim
<1> QED BY <1>1, <1>3, <1>4, <1>5, <1>6

\* The steps that touch neither rows nor locks.
Handles(w) ==
    /\ UNCHANGED <<db, tx, bus, abandoned>>
    /\ worker'[w].todo = {} /\ worker'[w].pc \in {"consume", "mark", "fail"}

LEMMA HandleSteps ==
    ASSUME Typed, NEW w \in Workers,
           \/ Receive(w) \/ ReceiveFromSlow(w)
           \/ (\E m \in worker[w].batch : Deliver(w, m)) \/ Ack(w) \/ AckBuried(w)
    PROVE  Handles(w)
<1>0. worker \in [Workers -> Worker]
  BY DEF Typed, TypeOK
<1>1. worker[w].pc # "publish" => worker[w].todo = {}
  BY DEF Typed, HandsInv
<1>2. ASSUME NEW S, ReceiveAll(w, S), tx' = tx PROVE Handles(w)
  <2>1. worker' = [worker EXCEPT ![w].pc = "consume",
                     ![w].batch = S \cup {m \in bus : owner[m] = NoWorker}]
        /\ worker[w].todo = {}
    BY <1>2 DEF ReceiveAll
  <2>2. worker'[w].pc = "consume" /\ worker'[w].todo = {}
    BY <1>0, <2>1
  <2> QED BY <1>2, <2>2 DEF ReceiveAll, Handles
<1>3. ASSUME NEW m, Deliver(w, m) PROVE Handles(w)
  <2>1. PICK c \in {"mark", "fail"} :
          worker' = [worker EXCEPT ![w].pc = c, ![w].msg = m, ![w].batch = @ \ {m}]
    BY <1>3 DEF Deliver
  <2>0. worker[w].todo = {}
    BY <1>1, <1>3 DEF Deliver, At
  <2>2. worker'[w].pc = c /\ worker'[w].todo = {}
    BY <1>0, <2>0, <2>1
  <2>3. UNCHANGED <<db, tx, bus, abandoned>>
    BY <1>3 DEF Deliver
  <2> QED BY <2>2, <2>3 DEF Handles
<1>4. CASE Ack(w)
  <2>1. PICK c \in {"consume", "fail"} : Move(w, c)
    BY <1>4 DEF Ack
  <2>2. worker'[w].pc = c /\ worker'[w].todo = {}
    BY <1>0, <1>1, <1>4, <2>1 DEF Ack, At, Move
  <2> QED BY <1>4, <2>2 DEF Ack, Handles
<1>5. CASE AckBuried(w)
  <2>1. worker'[w].pc = "consume" /\ worker'[w].todo = {}
    BY <1>0, <1>1, <1>5 DEF AckBuried, At, Move
  <2> QED BY <1>5, <2>1 DEF AckBuried, Handles
<1>6. CASE Receive(w)
  BY <1>2, <1>6 DEF Receive, ReceiveAll
<1>7. CASE ReceiveFromSlow(w)
  BY <1>2, <1>7 DEF ReceiveFromSlow, ReceiveAll
<1> QED BY <1>3, <1>4, <1>5, <1>6, <1>7

LEMMA CommitSteps ==
    ASSUME Typed, NEW w \in Workers, MarkDelivered(w) \/ CommitDead(w) \/ EndCycle(w)
    PROVE  /\ tx' = [tx EXCEPT ![w] = Clean] /\ UNCHANGED <<bus, acked, stream>>
           /\ worker'[w].todo = {} /\ worker'[w].pc \in {"ack", "unpend", "idle"}
           /\ worker'[w].pc = "unpend" => At(w, "buried") /\ worker'[w].msg = worker[w].msg
           /\ deadBus' = deadBus
<1>0. worker \in [Workers -> Worker]
  BY DEF Typed, TypeOK
<1>1. worker[w].pc # "publish" => worker[w].todo = {}
  BY DEF Typed, HandsInv
<1>2. CASE MarkDelivered(w)
  BY <1>0, <1>1, <1>2 DEF MarkDelivered, At, Move
<1>3. CASE CommitDead(w)
  BY <1>0, <1>1, <1>3 DEF CommitDead, At, Move
<1>4. CASE EndCycle(w)
  BY <1>0, <1>1, <1>4 DEF EndCycle, At
<1> QED BY <1>2, <1>3, <1>4

LEMMA RollbackStep ==
    ASSUME Typed, NEW w \in Workers, Rollback(w)
    PROVE  /\ tx' = [tx EXCEPT ![w] = Clean] /\ worker'[w].todo = {}
           /\ worker'[w].pc = "idle"
           /\ UNCHANGED <<db, bus, owner, acked, stream, deadBus, abandoned>>
BY DEF Rollback, Typed, TypeOK

LEMMA DeadAppended ==
    ASSUME Typed, NEW w \in Workers, AppendDead(w)
    PROVE  /\ At(w, "bury") /\ worker'[w].pc = "buried" /\ worker'[w].todo = {}
           /\ worker'[w].msg = worker[w].msg
           /\ worker[w].msg \in bus /\ worker[w].msg.event \in Events
           /\ deadBus' = deadBus \cup {worker[w].msg.event}
           /\ UNCHANGED <<db, tx, bus, owner, acked, stream, abandoned>>
<1>1. worker[w].pc = "bury" /\ worker[w].todo = {} /\ worker \in [Workers -> Worker]
  BY DEF AppendDead, At, Typed, TypeOK, HandsInv
<1> QED BY <1>1, BusEvents DEF AppendDead, At, Move

\* Every step of a process is one of these.
LEMMA CycleCases ==
    ASSUME NEW w \in Workers, Cycle(w) \/ Crash(w)
    PROVE  \/ Claim(w)
           \/ \E e \in Events : Publish(w, e)
           \/ Receive(w) \/ ReceiveFromSlow(w)
           \/ (\E m \in worker[w].batch : Deliver(w, m)) \/ Ack(w) \/ AckBuried(w)
           \/ MarkDelivered(w) \/ CommitDead(w) \/ EndCycle(w)
           \/ FailMessage(w) \/ AppendDead(w)
           \/ Rollback(w)
BY DEF Cycle, Crash, BreakDeadlock

LEMMA LockStep ==
    ASSUME Typed, LockInv, [Next]_vars
    PROVE  LockInv'
<1>0. tx \in [Workers -> [Events -> Row]] /\ db \in [Events -> Row]
  BY DEF Typed, TypeOK
<1>1. ASSUME NEW w \in Workers, Cycle(w) \/ Crash(w) PROVE LockInv'
  <2>0. OthersStay(w)
    BY <1>1, CycleStays
  <2>1. CASE Claim(w)
    <3>1. \A e \in Events : tx'[w][e] # NoWrite => e \in Claimable(w)
      BY <2>1, Claimed
    <3>2. \A e \in Claimable(w) : e \in Events
      BY DEF Claimable
    <3>3. \A m \in bus' : db'[m.event].status # "absent"
      BY <2>1, Claimed DEF LockInv
    <3> QED BY <2>0, <2>1, <3>1, <3>2, <3>3, Claimed, LockKept DEF Consumed
  <2>2. ASSUME NEW e \in Events, Publish(w, e) PROVE LockInv'
    <3>1. tx[w][e].status = "leased" /\ tx[w][e] # NoWrite
      BY <2>2 DEF Publish, LockInv, NoWrite
    <3>2. db[e].status \notin Consumed /\ db[e].status # "absent" /\ Free(w, e)
      BY <3>1, OwnWrites DEF LockInv, Consumed
    <3>3. \A m \in bus' : m \in bus \/ m.event = e
      <4>1. bus' = bus \/ bus' = bus \cup {NextOf(e)}
        BY <2>2, Published DEF XAdd
      <4>2. NextOf(e).event = e
        BY AppendsType DEF Typed
      <4> QED BY <4>1, <4>2
    <3>4. \A m \in bus' : db'[m.event].status # "absent"
      BY <2>2, <3>2, <3>3, Published DEF LockInv
    <3>5. \A d \in Events \ {e} : tx'[w][d] = tx[w][d]
      BY <2>2, Published
    <3>6. \A d \in worker'[w].todo : tx'[w][d].status = "leased"
      <4>1. worker[w].todo \subseteq Events
        BY DEF Typed, TypeOK, Worker
      <4> QED BY <2>2, <4>1, Published DEF LockInv
    <3>7. ASSUME NEW d \in Events, tx'[w][d] # NoWrite
          PROVE  /\ tx'[w][d].status \in {"leased", "retry", "published", "dead_letter"}
                 /\ db'[d].status # "absent"
                 /\ db'[d].status \in Consumed => tx'[w][d].status \in Consumed
                 /\ tx[w][d] # NoWrite
      <4>1. db' = db
        BY <2>2, Published
      <4>2. CASE d = e
        BY <2>2, <3>1, <3>2, <4>1, <4>2, Published
      <4>3. CASE d # e
        BY <3>5, <3>7, <4>1, <4>3 DEF LockInv
      <4> QED BY <4>2, <4>3
    <3> QED BY <2>0, <2>2, <3>4, <3>6, <3>7, Published, LockKept
  <2>3. CASE Handles(w)
    <3>1. ASSUME NEW d \in Events, tx'[w][d] # NoWrite
          PROVE  /\ tx'[w][d].status \in {"leased", "retry", "published", "dead_letter"}
                 /\ db'[d].status # "absent"
                 /\ db'[d].status \in Consumed => tx'[w][d].status \in Consumed
                 /\ tx[w][d] # NoWrite
      BY <2>3, <3>1 DEF Handles, LockInv
    <3>2. \A m \in bus' : db'[m.event].status # "absent"
      BY <2>3 DEF Handles, LockInv
    <3> QED BY <2>0, <2>3, <3>1, <3>2, LockKept DEF Handles
  <2>4. CASE MarkDelivered(w) \/ CommitDead(w) \/ EndCycle(w)
    <3>1. \A e \in Events : db'[e] = db[e] \/ (Free(w, e) /\ db'[e].status # "absent")
      <4> SUFFICES ASSUME NEW e \in Events, db'[e] # db[e]
                   PROVE  Free(w, e) /\ db'[e].status # "absent"
        OBVIOUS
      <4>1. CASE tx[w][e] # NoWrite /\ db'[e] = tx[w][e]
        BY <4>1, OwnWrites
      <4>2. CASE Free(w, e) /\ db'[e] = [View(w, e) EXCEPT !.status = "delivered"]
        BY <4>2, Delivers
      <4> QED BY <2>4, <4>1, <4>2, LockCommitted
    <3> QED BY <2>0, <2>4, <3>1, CommitSteps, LockCommit
  <2>5. CASE FailMessage(w)
    <3> DEFINE e == worker[w].msg.event
    <3>1. /\ e \in Events /\ Free(w, e) /\ db[e].status # "absent"
          /\ tx'[w][e].status \in {"published", "dead_letter"}
          /\ \A d \in Events \ {e} : tx'[w][d] = tx[w][d]
          /\ worker'[w].pc \in {"bury", "buried"} => tx'[w][e].status = "dead_letter"
          /\ worker'[w].msg = worker[w].msg /\ worker'[w].todo = {}
          /\ UNCHANGED <<db, bus>>
      BY <2>5, Failed DEF LockInv
    <3> HIDE DEF e
    <3>2. ASSUME NEW d \in Events, tx'[w][d] # NoWrite
          PROVE  /\ tx'[w][d].status \in {"leased", "retry", "published", "dead_letter"}
                 /\ db'[d].status # "absent"
                 /\ db'[d].status \in Consumed => tx'[w][d].status \in Consumed
                 /\ tx[w][d] # NoWrite \/ Free(w, d)
      <4>1. CASE d = e
        BY <3>1, <4>1 DEF Consumed
      <4>2. CASE d # e
        BY <3>1, <3>2, <4>2 DEF LockInv
      <4> QED BY <4>1, <4>2
    <3>3. worker'[w].pc \in {"bury", "buried"} =>
             tx'[w][worker'[w].msg.event].status = "dead_letter"
      BY <3>1 DEF e
    <3>4. \A m \in bus' : db'[m.event].status # "absent"
      BY <3>1 DEF LockInv
    <3> QED BY <2>0, <3>1, <3>2, <3>3, <3>4, LockKept
  <2>7. CASE AppendDead(w)
    <3>1. /\ UNCHANGED <<db, tx, bus>> /\ worker'[w].todo = {}
          /\ tx[w][worker[w].msg.event].status = "dead_letter"
          /\ worker'[w].msg = worker[w].msg
      BY <2>7, DeadAppended DEF LockInv, At
    <3>2. ASSUME NEW d \in Events, tx'[w][d] # NoWrite
          PROVE  /\ tx'[w][d].status \in {"leased", "retry", "published", "dead_letter"}
                 /\ db'[d].status # "absent"
                 /\ db'[d].status \in Consumed => tx'[w][d].status \in Consumed
                 /\ tx[w][d] # NoWrite
      BY <3>1, <3>2 DEF LockInv
    <3>3. \A m \in bus' : db'[m.event].status # "absent"
      BY <3>1 DEF LockInv
    <3> QED BY <2>0, <3>1, <3>2, <3>3, LockKept
  <2>6. CASE Rollback(w)
    <3>1. \A e \in Events : db'[e] = db[e]
      BY <2>6, RollbackStep
    <3> QED BY <2>0, <2>6, <3>1, RollbackStep, LockCommit
  <2> QED BY <1>1, <2>1, <2>2, <2>3, <2>4, <2>5, <2>6, <2>7, CycleCases, HandleSteps
<1>2. ASSUME NEW e \in Events, Enqueue(e) PROVE LockInv'
  <2>1. /\ db[e].status = "absent" /\ \A d \in Events \ {e} : db'[d] = db[d]
        /\ db'[e].status = "pending" /\ UNCHANGED <<tx, worker, bus>>
    BY <1>0, <1>2 DEF Enqueue, Row
  <2>2. \A w \in Workers : tx[w][e] = NoWrite
    BY <2>1 DEF LockInv
  <2>3. \A m \in bus : m.event \in Events
    BY BusEvents
  <2>4. ASSUME NEW w \in Workers, NEW d \in Events, tx'[w][d] # NoWrite
        PROVE  /\ tx'[w][d].status \in {"leased", "retry", "published", "dead_letter"}
               /\ db'[d].status # "absent"
               /\ db'[d].status \in Consumed => tx'[w][d].status \in Consumed
    BY <2>1, <2>2, <2>4 DEF LockInv
  <2>5. \A m \in bus' : db'[m.event].status # "absent"
    BY <2>1, <2>3 DEF LockInv
  <2> QED BY <2>1, <2>4, <2>5 DEF LockInv
<1>3. CASE UNCHANGED vars
  BY <1>3 DEF vars, LockInv
<1> QED BY <1>1, <1>2, <1>3 DEF Next

LEMMA AlwaysLockInv == Spec => []LockInv
<1>1. Init => LockInv
  BY DEF Init, LockInv, Clean
<1>2. LockInv /\ Typed /\ [Next]_vars => LockInv'
  BY LockStep
<1> QED BY <1>1, <1>2, AlwaysTyped, PTL DEF Spec

\* A row that was committed as published never goes back into the queue of
\* publish_outbox_batch: a later claim cannot take it, and a write made before it
\* was published would have kept the others from publishing it.
THEOREM PublishedStaysOut == Spec => PublishedLeavesTheQueue
<1> DEFINE Stays == \A e \in Events : db[e].status \in Consumed => db'[e].status \in Consumed
<1>1. ASSUME Typed, LockInv, [Next]_vars PROVE Stays
  <2>1. ASSUME db' = db PROVE Stays
    BY <2>1
  <2>2. ASSUME NEW w \in Workers, Cycle(w) \/ Crash(w) PROVE Stays
    <3>1. CASE MarkDelivered(w) \/ CommitDead(w) \/ EndCycle(w)
      <4> SUFFICES ASSUME NEW e \in Events, db[e].status \in Consumed, db'[e] # db[e]
                   PROVE  db'[e].status \in Consumed
        OBVIOUS
      <4>1. CASE tx[w][e] # NoWrite /\ db'[e] = tx[w][e]
        BY <1>1, <4>1 DEF LockInv
      <4>2. CASE db'[e] = [View(w, e) EXCEPT !.status = "delivered"]
        BY <1>1, <4>2, Delivers DEF Consumed
      <4> QED BY <1>1, <3>1, <4>1, <4>2, LockCommitted
    <3>2. ASSUME NEW e \in Events, Publish(w, e) PROVE db' = db
      BY <3>2 DEF Publish
    <3>3. Claim(w) \/ FailMessage(w) \/ AppendDead(w) \/ Rollback(w) => db' = db
      BY DEF Claim, FailMessage, AppendDead, Rollback
    <3>4. Handles(w) => db' = db
      BY DEF Handles
    <3>5. MarkDelivered(w) \/ CommitDead(w) \/ EndCycle(w) \/ db' = db
      BY <1>1, <2>2, <3>2, <3>3, <3>4, CycleCases, HandleSteps
    <3> QED BY <2>1, <3>1, <3>5
  <2>3. ASSUME NEW e \in Events, Enqueue(e) PROVE Stays
    BY <2>3 DEF Enqueue, Consumed
  <2> QED BY <1>1, <2>1, <2>2, <2>3 DEF Next, vars
<1>2. Typed /\ LockInv /\ [Next]_vars => [Stays]_vars
  BY <1>1
<1> QED BY <1>2, AlwaysTyped, AlwaysLockInv, PTL DEF Spec, PublishedLeavesTheQueue

-----------------------------------------------------------------------------
(* Events that were given up *)

\* A row that was ever committed as dead_letter has its attempts spent for good:
\* nobody publishes it again, and only a late delivery may still change it.
GoneInv ==
    /\ \A e \in Events : db[e].status = "dead_letter" => Over(db[e])
    /\ \A w \in Workers, e \in Events : tx[w][e].status = "dead_letter" => Over(tx[w][e])
    /\ \A e \in abandoned :
          /\ db[e].status \in {"dead_letter", "delivered"} /\ Over(db[e])
          /\ \A w \in Workers : tx[w][e] # NoWrite => tx[w][e].status = "dead_letter"
    /\ \A w \in Workers : worker[w].pc = "unpend" => worker[w].msg.event \in abandoned

LEMMA ViewOfGone ==
    ASSUME GoneInv, NEW w \in Workers, NEW e \in abandoned, abandoned \subseteq Events
    PROVE  Over(View(w, e))
BY DEF GoneInv, View

\* A step of w that commits nothing: what it writes must spare what is gone.
LEMMA GoneKept ==
    ASSUME Typed, GoneInv, NEW w \in Workers, OthersStay(w),
           UNCHANGED <<db, abandoned>>,
           \A e \in Events : tx'[w][e].status = "dead_letter" => Over(tx'[w][e]),
           \A e \in abandoned : tx'[w][e] # NoWrite => tx'[w][e].status = "dead_letter",
           worker'[w].pc = "unpend" => worker'[w].msg.event \in abandoned
    PROVE  GoneInv'
<1>1. ASSUME NEW v \in Workers, NEW e \in Events
      PROVE  /\ tx'[v][e].status = "dead_letter" => Over(tx'[v][e])
             /\ e \in abandoned => (tx'[v][e] # NoWrite => tx'[v][e].status = "dead_letter")
  BY DEF GoneInv, OthersStay
<1>2. ASSUME NEW v \in Workers
      PROVE  worker'[v].pc = "unpend" => worker'[v].msg.event \in abandoned
  BY DEF GoneInv, OthersStay
<1>3. abandoned \subseteq Events
  BY DEF Typed, TypeOK
<1> QED BY <1>1, <1>2, <1>3 DEF GoneInv

LEMMA GoneCommit ==
    ASSUME Typed, LockInv, GoneInv, NEW w \in Workers, OthersStay(w),
           MarkDelivered(w) \/ CommitDead(w) \/ EndCycle(w)
    PROVE  GoneInv'
<1>0. abandoned \subseteq Events /\ abandoned' \subseteq Events
  <2>1. abandoned \subseteq Events
    BY DEF Typed, TypeOK
  <2>2. \E t : Commit(t)
    BY DEF MarkDelivered, CommitDead, EndCycle
  <2> QED BY <2>1, <2>2, Committed
<1>1. \A e \in Events : tx'[w][e] = NoWrite
  BY CommitSteps, CleanTyped DEF Typed, TypeOK
<1>2. abandoned \subseteq abandoned'
  <2>2. \E t : Commit(t)
    BY DEF MarkDelivered, CommitDead, EndCycle
  <2> QED BY <2>2, Committed
<1>3. ASSUME NEW e \in Events
      PROVE  /\ db'[e].status = "dead_letter" => Over(db'[e])
             /\ e \in abandoned => /\ db'[e].status \in {"dead_letter", "delivered"}
                                   /\ Over(db'[e])
  <2>1. CASE db'[e] = db[e]
    BY <2>1 DEF GoneInv
  <2>2. CASE tx[w][e] # NoWrite /\ db'[e] = tx[w][e]
    BY <2>2 DEF GoneInv
  <2>3. CASE db'[e] = [View(w, e) EXCEPT !.status = "delivered"]
    BY <1>0, <2>3, Delivers, ViewOfGone DEF Over
  <2> QED BY <2>1, <2>2, <2>3, LockCommitted
<1>4. ASSUME NEW e \in abandoned' \ abandoned
      PROVE  /\ db'[e].status = "dead_letter" /\ Over(db'[e]) /\ Free(w, e)
  BY <1>0, <1>4, LockCommitted, OwnWrites DEF GoneInv
<1>5. ASSUME NEW v \in Workers, NEW e \in Events
      PROVE  /\ tx'[v][e].status = "dead_letter" => Over(tx'[v][e])
             /\ e \in abandoned' => (tx'[v][e] # NoWrite => tx'[v][e].status = "dead_letter")
  <2>1. CASE v = w
    BY <1>1, <2>1 DEF NoWrite
  <2>2. CASE v # w
    <3>1. tx'[v][e] = tx[v][e]
      BY <2>2 DEF OthersStay
    <3>2. e \in abandoned' \ abandoned => tx[v][e] = NoWrite
      BY <1>4, <2>2 DEF Free
    <3> QED BY <3>1, <3>2 DEF GoneInv
  <2> QED BY <2>1, <2>2
<1>6. At(w, "buried") => worker[w].msg.event \in abandoned'
  <2> SUFFICES ASSUME At(w, "buried") PROVE worker[w].msg.event \in abandoned'
    OBVIOUS
  <2>1. worker[w].msg.event \in Events /\ tx[w][worker[w].msg.event].status = "dead_letter"
    BY BusEvents DEF At, LockInv
  <2>2. Commit(tx[w])
    BY DEF At, MarkDelivered, CommitDead, EndCycle
  <2> QED BY <2>1, <2>2, Committed
<1>7. ASSUME NEW v \in Workers
      PROVE  worker'[v].pc = "unpend" => worker'[v].msg.event \in abandoned'
  <2>1. CASE v = w
    BY <1>6, <2>1, CommitSteps
  <2>2. CASE v # w
    BY <1>2, <2>2 DEF OthersStay, GoneInv
  <2> QED BY <2>1, <2>2
<1> QED BY <1>0, <1>3, <1>4, <1>5, <1>7 DEF GoneInv

LEMMA GoneStep ==
    ASSUME Typed, LockInv, GoneInv, [Next]_vars
    PROVE  GoneInv'
<1>0. abandoned \subseteq Events /\ worker \in [Workers -> Worker]
  BY DEF Typed, TypeOK
<1>1. ASSUME NEW w \in Workers, Cycle(w) \/ Crash(w) PROVE GoneInv'
  <2>0. OthersStay(w)
    BY <1>1, CycleStays
  <2>1. CASE Claim(w)
    <3>1. \A e \in Events : tx'[w][e] # NoWrite =>
             e \notin abandoned /\ tx'[w][e].status = "leased"
      BY <2>1, Claimed DEF GoneInv
    <3>2. \A e \in Events : tx'[w][e].status # "dead_letter"
      BY <3>1 DEF NoWrite
    <3>3. UNCHANGED <<db, abandoned>> /\ worker'[w].pc = "publish"
      BY <2>1, Claimed
    <3> QED BY <1>0, <2>0, <3>1, <3>2, <3>3, GoneKept
  <2>2. ASSUME NEW e \in Events, Publish(w, e) PROVE GoneInv'
    <3>1. tx[w][e].status = "leased" /\ tx[w][e] # NoWrite
      BY <2>2 DEF Publish, LockInv, NoWrite
    <3>2. e \notin abandoned
      BY <3>1 DEF GoneInv
    <3>3. \A d \in Events : tx'[w][d].status = "dead_letter" => Over(tx'[w][d])
      BY <2>2, Published DEF GoneInv
    <3>4. \A d \in abandoned : tx'[w][d] # NoWrite => tx'[w][d].status = "dead_letter"
      BY <1>0, <2>2, <3>2, Published DEF GoneInv
    <3>5. UNCHANGED <<db, abandoned>> /\ worker'[w].pc = "publish"
      BY <2>2, Published
    <3> QED BY <2>0, <3>3, <3>4, <3>5, GoneKept
  <2>3. CASE \/ Receive(w) \/ ReceiveFromSlow(w)
             \/ (\E m \in worker[w].batch : Deliver(w, m)) \/ Ack(w) \/ AckBuried(w)
    <3>1. UNCHANGED <<db, tx, abandoned>>
      BY <2>3, HandleSteps DEF Handles
    <3>3. worker'[w].pc # "unpend"
      BY <2>3, HandleSteps DEF Handles
    <3>4. \A e \in Events : tx'[w][e].status = "dead_letter" => Over(tx'[w][e])
      BY <3>1 DEF GoneInv
    <3>5. \A e \in abandoned : tx'[w][e] # NoWrite => tx'[w][e].status = "dead_letter"
      BY <3>1 DEF GoneInv
    <3> QED BY <2>0, <3>1, <3>3, <3>4, <3>5, GoneKept
  <2>4. CASE MarkDelivered(w) \/ CommitDead(w) \/ EndCycle(w)
    BY <2>0, <2>4, GoneCommit
  <2>5. CASE FailMessage(w)
    <3> DEFINE e == worker[w].msg.event
    <3>1. /\ e \in Events /\ \A d \in Events \ {e} : tx'[w][d] = tx[w][d]
          /\ tx'[w][e].attempts = View(w, e).attempts + 1
          /\ \/ tx'[w][e].status = "dead_letter" /\ Over(tx'[w][e])
             \/ tx'[w][e].status = "published" /\ ~Over(tx'[w][e])
          /\ worker'[w].pc \in {"bury", "consume"}
          /\ UNCHANGED <<db, deadBus, abandoned>>
      BY <2>5, Failed
    <3>2. View(w, e).attempts \in Nat
      BY <3>1, Delivers, RowFields
    <3> HIDE DEF e
    <3>3. e \in abandoned => tx'[w][e].status = "dead_letter"
      BY <1>0, <3>1, <3>2, ViewOfGone, BoundsAssumption DEF Over
    <3>4. \A d \in Events : tx'[w][d].status = "dead_letter" => Over(tx'[w][d])
      BY <3>1 DEF GoneInv
    <3>5. \A d \in abandoned : tx'[w][d] # NoWrite => tx'[w][d].status = "dead_letter"
      BY <1>0, <3>1, <3>3 DEF GoneInv
    <3> QED BY <2>0, <3>1, <3>4, <3>5, GoneKept
  <2>6. CASE Rollback(w)
    <3>1. \A e \in Events : tx'[w][e] = NoWrite
      BY <2>6, RollbackStep, CleanTyped DEF Typed, TypeOK
    <3>2. \A e \in Events : tx'[w][e].status # "dead_letter"
      BY <3>1 DEF NoWrite
    <3>3. UNCHANGED <<db, abandoned>> /\ worker'[w].pc = "idle"
      BY <2>6, RollbackStep
    <3> QED BY <1>0, <2>0, <3>1, <3>2, <3>3, GoneKept
  <2>7. CASE AppendDead(w)
    <3>1. UNCHANGED <<db, tx, abandoned>> /\ worker'[w].pc = "buried"
      BY <2>7, DeadAppended
    <3>2. \A e \in Events : tx'[w][e].status = "dead_letter" => Over(tx'[w][e])
      BY <3>1 DEF GoneInv
    <3>3. \A e \in abandoned : tx'[w][e] # NoWrite => tx'[w][e].status = "dead_letter"
      BY <3>1 DEF GoneInv
    <3> QED BY <2>0, <3>1, <3>2, <3>3, GoneKept
  <2> QED BY <1>1, <2>1, <2>2, <2>3, <2>4, <2>5, <2>6, <2>7, CycleCases
<1>2. ASSUME NEW e \in Events, Enqueue(e) PROVE GoneInv'
  <2>1. /\ db[e].status = "absent" /\ \A d \in Events \ {e} : db'[d] = db[d]
        /\ db'[e].status = "pending" /\ UNCHANGED <<tx, worker, abandoned, deadBus>>
    BY <1>2 DEF Enqueue, Row, Typed, TypeOK
  <2>2. e \notin abandoned
    BY <2>1 DEF GoneInv
  <2> QED BY <1>0, <2>1, <2>2 DEF GoneInv
<1>3. CASE UNCHANGED vars
  BY <1>3 DEF vars, GoneInv
<1> QED BY <1>1, <1>2, <1>3 DEF Next

LEMMA AlwaysGoneInv == Spec => []GoneInv
<1>1. Init => GoneInv
  BY DEF Init, GoneInv, NoWrite, Clean
<1>2. GoneInv /\ LockInv /\ Typed /\ [Next]_vars => GoneInv'
  BY GoneStep
<1> QED BY <1>1, <1>2, AlwaysTyped, AlwaysLockInv, PTL DEF Spec

-----------------------------------------------------------------------------
(* Rows and what backs them *)

\* The messages of an event are numbered as they were appended.
NumberInv == \A m \in bus : m.n <= Appends(m.event)

LEMMA Appended ==
    ASSUME Typed, NumberInv, NEW e \in Events, XAdd(e)
    PROVE  NumberInv' /\ NextOf(e) \in bus' \ bus
<1> DEFINE x == NextOf(e)
           B(d) == {m \in bus : m.event = d}
           C(d) == {m \in bus' : m.event = d}
<1>1. \A d : IsFiniteSet(B(d)) /\ Appends(d) = Cardinality(B(d)) /\ Appends(d) \in Nat
  BY FS_Subset, FS_CardinalityType DEF Typed, Appends
<1>2. x.event = e /\ x.n = Appends(e) + 1 /\ bus' = bus \cup {x}
  BY DEF NextOf, XAdd
<1>3. \A d : Appends(d)' = Cardinality(C(d))
  BY DEF Appends
<1> HIDE DEF x
<1>4. x \notin bus
  <2>1. Appends(e) \in Nat
    BY <1>1
  <2>2. x \in bus => Appends(e) + 1 <= Appends(e)
    BY <1>2 DEF NumberInv
  <2> QED BY <2>1, <2>2
<1>5. C(e) = B(e) \cup {x} /\ x \notin B(e)
  BY <1>2, <1>4
<1>6. \A d : d # e => C(d) = B(d)
  BY <1>2
<1> HIDE DEF B, C
<1>7. Appends(e)' = Appends(e) + 1
  BY <1>1, <1>3, <1>5, FS_AddElement
<1>8. \A d : d # e => Appends(d)' = Appends(d)
  BY <1>1, <1>3, <1>6
<1>9. ASSUME NEW m \in bus' PROVE m.n <= Appends(m.event)'
  <2>1. CASE m = x
    BY <1>1, <1>2, <1>7, <2>1
  <2>2. CASE m \in bus
    <3>1. m.n <= Appends(m.event) /\ m.n \in Nat
      BY <2>2 DEF NumberInv, Typed, TypeOK, Message
    <3>2. CASE m.event = e
      BY <1>1, <1>7, <3>1, <3>2
    <3>3. CASE m.event # e
      BY <1>8, <3>1, <3>3
    <3> QED BY <3>2, <3>3
  <2> QED BY <1>2, <2>1, <2>2
<1> QED BY <1>2, <1>4, <1>9 DEF NumberInv, x

Backed(e) == stream[e] > 0 \/ \E m \in bus \ acked : m.event = e

\* A row that somebody has marked published, committed or not, has its event on
\* the bus or delivered; an event is on its workspace stream at most once; and no
\* message is acknowledged before its dead letter is committed, if it has one.
BackedInv ==
    /\ NumberInv
    /\ \A m \in acked : stream[m.event] > 0 \/ m.event \in abandoned
    /\ \A e \in Events : /\ db[e].status = "published" => Backed(e)
                         /\ db[e].status = "delivered" => stream[e] > 0
                         /\ stream[e] \in {0, 1}
    /\ \A w \in Workers, e \in Events : tx[w][e].status = "published" => Backed(e)

LEMMA AckedEvents == ASSUME Typed', NEW m \in acked' PROVE m.event \in Events
BY DEF Typed, TypeOK, Message

LEMMA BackedKept ==
    ASSUME Typed, Typed', GoneInv, BackedInv, NumberInv', NEW w \in Workers, OthersStay(w),
           \A e \in Events : stream[e] > 0 => stream'[e] > 0,
           \A e \in Events : stream'[e] \in {0, 1},
           bus \subseteq bus', abandoned \subseteq abandoned',
           \A m \in acked' \ acked : stream[m.event] > 0 \/ m.event \in abandoned,
           \A e \in Events : db'[e] # db[e] =>
              /\ db'[e].status = "published" => tx[w][e].status = "published"
              /\ db'[e].status = "delivered" => stream[e] > 0,
           \A e \in Events : tx'[w][e].status = "published" =>
              tx[w][e].status = "published" \/ Backed(e)'
    PROVE  BackedInv'
<1>1. ASSUME NEW e \in Events \ abandoned, Backed(e) PROVE Backed(e)'
  BY <1>1 DEF Backed
<1>2. \A e \in abandoned : /\ db[e].status # "published"
                           /\ \A v \in Workers : tx[v][e].status # "published"
  BY DEF GoneInv, NoWrite
<1>3. ASSUME NEW v \in Workers, NEW e \in Events, tx[v][e].status = "published"
      PROVE  Backed(e)'
  BY <1>1, <1>2, <1>3 DEF BackedInv
<1>4. ASSUME NEW e \in Events
      PROVE  /\ db'[e].status = "published" => Backed(e)'
             /\ db'[e].status = "delivered" => stream'[e] > 0
  BY <1>1, <1>2, <1>3 DEF BackedInv
<1>5. ASSUME NEW v \in Workers, NEW e \in Events, tx'[v][e].status = "published"
      PROVE  Backed(e)'
  <2>1. CASE v = w
    BY <1>3, <1>5, <2>1
  <2>2. CASE v # w
    BY <1>3, <1>5, <2>2 DEF OthersStay
  <2> QED BY <2>1, <2>2
<1>6. \A m \in acked' : stream'[m.event] > 0 \/ m.event \in abandoned'
  <2> SUFFICES ASSUME NEW m \in acked'
               PROVE  stream'[m.event] > 0 \/ m.event \in abandoned'
    OBVIOUS
  <2>1. stream[m.event] > 0 \/ m.event \in abandoned
    BY DEF BackedInv
  <2>2. m.event \in Events
    BY AckedEvents
  <2> QED BY <2>1, <2>2
<1> QED BY <1>4, <1>5, <1>6 DEF BackedInv

\* A message that failed leaves its row published only while it is repeated.
LEMMA FailedIsBacked ==
    ASSUME Typed, GoneInv, BackedInv, NEW w \in Workers, FailMessage(w),
           tx'[w][worker[w].msg.event].status = "published"
    PROVE  Backed(worker[w].msg.event)
<1> DEFINE m == worker[w].msg
<1>1. /\ m \in bus /\ m.event \in Events
      /\ tx'[w][m.event].attempts = View(w, m.event).attempts + 1
      /\ ~Over(tx'[w][m.event])
  BY Failed
<1>2. View(w, m.event).attempts \in Nat
  BY <1>1, Delivers, RowFields
<1>3. m.event \notin abandoned
  BY <1>1, <1>2, ViewOfGone, BoundsAssumption DEF Over, Typed, TypeOK
<1>4. m \in acked => stream[m.event] > 0
  BY <1>3 DEF BackedInv
<1> QED BY <1>1, <1>4 DEF Backed

LEMMA BackedStep ==
    ASSUME Typed, Typed', AckInv, LockInv, GoneInv, BackedInv, [Next]_vars
    PROVE  BackedInv'
<1>0. worker \in [Workers -> Worker] /\ stream \in [Events -> Nat]
  BY DEF Typed, TypeOK
<1>k. ASSUME UNCHANGED bus PROVE NumberInv'
  BY <1>k DEF BackedInv, NumberInv, Appends
<1>1. ASSUME NEW w \in Workers, Cycle(w) \/ Crash(w) PROVE BackedInv'
  <2>0. OthersStay(w)
    BY <1>1, CycleStays
  <2>a. abandoned \subseteq abandoned'
    <3>1. ASSUME NEW e \in Events, Publish(w, e) PROVE UNCHANGED abandoned
      BY <3>1 DEF Publish
    <3>2. Claim(w) \/ FailMessage(w) \/ AppendDead(w) \/ Rollback(w) \/ Handles(w)
             => UNCHANGED abandoned
      BY DEF Claim, FailMessage, AppendDead, Rollback, Handles
    <3>3. MarkDelivered(w) \/ CommitDead(w) \/ EndCycle(w) => abandoned \subseteq abandoned'
      BY DEF MarkDelivered, CommitDead, EndCycle, Commit
    <3> QED BY <1>1, <3>1, <3>2, <3>3, CycleCases, HandleSteps
  <2>k. ASSUME UNCHANGED <<bus, acked, stream>>,
               \A e \in Events : db'[e] # db[e] =>
                  /\ db'[e].status = "published" => tx[w][e].status = "published"
                  /\ db'[e].status = "delivered" => stream[e] > 0,
               \A e \in Events : tx'[w][e].status = "published" =>
                  tx[w][e].status = "published" \/ Backed(e)
        PROVE  BackedInv'
    <3>1. \A e \in Events : Backed(e) => Backed(e)'
      BY <2>k DEF Backed
    <3>2. \A e \in Events : stream'[e] \in {0, 1}
      BY <2>k DEF BackedInv
    <3> QED BY <1>k, <2>0, <2>a, <2>k, <3>1, <3>2, BackedKept
  <2>1. CASE Claim(w)
    <3>1. \A e \in Events : tx'[w][e].status # "published"
      BY <2>1, Claimed DEF NoWrite
    <3> QED BY <2>1, <2>k, <3>1, Claimed
  <2>2. ASSUME NEW e \in Events, Publish(w, e) PROVE BackedInv'
    <3>1. UNCHANGED <<db, acked, stream>>
      BY <2>2, Published
    <3>2. CASE XAdd(e)
      <4>1. NumberInv' /\ NextOf(e) \in bus' \ bus /\ NextOf(e).event = e
        BY <3>2, Appended, AppendsType DEF BackedInv, Typed
      <4>2. NextOf(e) \notin acked
        BY <4>1 DEF Typed, TypeOK
      <4>3. Backed(e)'
        BY <3>1, <4>1, <4>2 DEF Backed
      <4>4. bus \subseteq bus'
        BY <3>2 DEF XAdd
      <4>5. \A d \in Events : tx'[w][d].status = "published" =>
               tx[w][d].status = "published" \/ Backed(d)'
        BY <2>2, <4>3, Published
      <4>6. \A d \in Events : stream'[d] \in {0, 1}
        BY <3>1 DEF BackedInv
      <4> QED BY <2>0, <2>a, <3>1, <4>1, <4>4, <4>5, <4>6, BackedKept
    <3>3. CASE UNCHANGED <<bus, owner>> /\ ~XAdd(e)
      <4>1. \A d \in Events : tx'[w][d].status = "published" => tx[w][d].status = "published"
        BY <2>2, <3>3, Published
      <4> QED BY <2>k, <3>1, <3>3, <4>1
    <3> QED BY <2>2, <3>2, <3>3, Published
  <2>3. CASE Receive(w) \/ ReceiveFromSlow(w)
    <3>1. UNCHANGED <<db, tx, bus>>
      BY <2>3, HandleSteps DEF Handles
    <3>2. UNCHANGED <<acked, stream>>
      BY <2>3 DEF Receive, ReceiveFromSlow, ReceiveAll
    <3> QED BY <2>k, <3>1, <3>2
  <2>4. ASSUME NEW m \in worker[w].batch, Deliver(w, m) PROVE BackedInv'
    <3>1. m.event \in Events
      BY <2>4, BusEvents DEF Typed, HandsInv
    <3>2. AppendOnce(m.event) \/ UNCHANGED stream
      BY <2>4 DEF Deliver
    <3>3. \A e \in Events : stream[e] > 0 => stream'[e] > 0
      BY <3>1, <3>2, StreamGrows
    <3>4. \A e \in Events : stream'[e] \in {0, 1}
      <4>1. CASE AppendOnce(m.event)
        BY <1>0, <3>1, <4>1 DEF AppendOnce, BackedInv
      <4>2. CASE UNCHANGED stream
        BY <4>2 DEF BackedInv
      <4> QED BY <3>2, <4>1, <4>2
    <3>5. UNCHANGED <<db, tx, bus, acked>>
      BY <2>4 DEF Deliver
    <3> QED BY <1>k, <2>0, <2>a, <3>3, <3>4, <3>5, BackedKept
  <2>5. CASE Ack(w) \/ AckBuried(w)
    <3>1. UNCHANGED <<db, tx, bus>>
      BY <2>5, HandleSteps DEF Handles
    <3>2. UNCHANGED stream
      BY <2>5 DEF Ack, AckBuried
    <3>3. \A m \in acked' \ acked : m = worker[w].msg
      <4>1. acked' = acked \/ acked' = acked \cup {worker[w].msg}
        BY <2>5 DEF Ack, AckBuried
      <4> QED BY <4>1
    <3>4. stream[worker[w].msg.event] > 0 \/ worker[w].msg.event \in abandoned
      BY <2>5 DEF Ack, AckBuried, At, AckInv, GoneInv
    <3>5. \A e \in Events : stream'[e] \in {0, 1}
      BY <3>2 DEF BackedInv
    <3> QED BY <1>k, <2>0, <2>a, <3>1, <3>2, <3>3, <3>4, <3>5, BackedKept
  <2>6. CASE MarkDelivered(w) \/ CommitDead(w) \/ EndCycle(w)
    <3>1. \A e \in Events : tx'[w][e] = NoWrite
      BY <2>6, CommitSteps, CleanTyped DEF Typed, TypeOK
    <3>2. \A e \in Events : tx'[w][e].status # "published"
      BY <3>1 DEF NoWrite
    <3>3. ASSUME NEW e \in Events, db'[e] # db[e]
          PROVE  /\ db'[e].status = "published" => tx[w][e].status = "published"
                 /\ db'[e].status = "delivered" => stream[e] > 0
      <4>1. CASE tx[w][e] # NoWrite /\ db'[e] = tx[w][e]
        BY <4>1 DEF LockInv
      <4>2. CASE /\ At(w, "mark") /\ e = worker[w].msg.event
                 /\ db'[e] = [View(w, e) EXCEPT !.status = "delivered"]
        <5>1. db'[e].status = "delivered" /\ stream[e] > 0
          BY <4>2, Delivers DEF At, AckInv
        <5> QED BY <5>1
      <4> QED BY <2>6, <3>3, <4>1, <4>2, LockCommitted
    <3> QED BY <2>6, <2>k, <3>2, <3>3, CommitSteps
  <2>7. CASE FailMessage(w)
    <3>1. /\ worker[w].msg.event \in Events /\ UNCHANGED <<db, bus, acked, stream>>
          /\ \A d \in Events \ {worker[w].msg.event} : tx'[w][d] = tx[w][d]
      BY <2>7, Failed
    <3>2. \A d \in Events : tx'[w][d].status = "published" =>
             tx[w][d].status = "published" \/ Backed(d)
      BY <2>7, <3>1, FailedIsBacked
    <3> QED BY <2>k, <3>1, <3>2
  <2>8. CASE Rollback(w)
    <3>1. \A e \in Events : tx'[w][e] = NoWrite
      BY <2>8, RollbackStep, CleanTyped DEF Typed, TypeOK
    <3>2. \A e \in Events : tx'[w][e].status # "published"
      BY <3>1 DEF NoWrite
    <3> QED BY <2>8, <2>k, <3>2, RollbackStep
  <2>9. CASE AppendDead(w)
    BY <2>9, <2>k, DeadAppended
  <2> QED BY <1>1, <2>1, <2>2, <2>3, <2>4, <2>5, <2>6, <2>7, <2>8, <2>9, CycleCases
<1>2. ASSUME NEW e \in Events, Enqueue(e) PROVE BackedInv'
  <2>1. /\ \A d \in Events \ {e} : db'[d] = db[d] /\ db'[e].status = "pending"
        /\ UNCHANGED <<tx, bus, acked, stream, abandoned>>
    BY <1>2 DEF Enqueue, Row, Typed, TypeOK
  <2> QED BY <1>2, <1>k, <2>1 DEF BackedInv, Backed, Enqueue, Typed, TypeOK, Row
<1>3. CASE UNCHANGED vars
  BY <1>3 DEF vars, BackedInv, Backed, NumberInv, Appends
<1> QED BY <1>1, <1>2, <1>3 DEF Next

LEMMA AlwaysBackedInv == Spec => []BackedInv
<1>1. Init => BackedInv
  BY DEF Init, BackedInv, NumberInv, NoWrite, Clean
<1>2. BackedInv /\ GoneInv /\ LockInv /\ AckInv /\ Typed /\ Typed' /\ [Next]_vars
        => BackedInv'
  BY BackedStep
<1> QED BY <1>1, <1>2, AlwaysTyped, AlwaysLockInv, AlwaysAckInv, AlwaysGoneInv, PTL DEF Spec

\* The outbox never claims more than Redis holds: a delivered row is on its
\* workspace stream, a published one on the bus, unacknowledged, or delivered.
THEOREM RowsStayBacked == Spec => []RowsBackedByRedis
<1>1. BackedInv => RowsBackedByRedis
  BY DEF BackedInv, RowsBackedByRedis, Backed
<1> QED BY <1>1, AlwaysBackedInv, PTL

-----------------------------------------------------------------------------
(* The refinement *)

Accepted == {e \in Events : db[e].status # "absent"}

\* the events some dead-letter record exists for
Given == abandoned \cup deadBus

\* Steps of the channel, in the terms of the detailed state.
LEMMA ChannelMoves ==
    ASSUME Accepted \subseteq Events,
           \/ /\ UNCHANGED <<Given, stream>>
              /\ \E e \in Events \ Accepted : Accepted' = Accepted \cup {e}
           \/ /\ Accepted' = Accepted /\ Given' = Given
              /\ \E e \in Accepted : /\ stream[e] = 0
                                     /\ stream' = [stream EXCEPT ![e] = 1]
           \/ /\ Accepted' = Accepted /\ UNCHANGED stream
              /\ \E S \in SUBSET Accepted : Given' = Given \cup S
           \/ Accepted' = Accepted /\ UNCHANGED <<Given, stream>>
    PROVE  [Channel!Next]_(Channel!channel)
<1>1. CASE /\ UNCHANGED <<Given, stream>>
           /\ \E e \in Events \ Accepted : Accepted' = Accepted \cup {e}
  BY <1>1 DEF Channel!Next, Channel!Accept, Accepted, Given
<1>2. CASE /\ Accepted' = Accepted /\ Given' = Given
           /\ \E e \in Accepted : stream[e] = 0 /\ stream' = [stream EXCEPT ![e] = 1]
  BY <1>2 DEF Channel!Next, Channel!Deliver, Accepted, Given
<1>3. ASSUME Accepted' = Accepted, UNCHANGED stream, NEW S \in SUBSET Accepted,
             Given' = Given \cup S
      PROVE  [Channel!Next]_(Channel!channel)
  <2> DEFINE T == S \ Given
  <2>1. CASE T = {}
    <3>1. Given' = Given
      BY <1>3, <2>1
    <3> QED BY <1>3, <3>1 DEF Channel!channel, Accepted, Given
  <2>2. CASE T # {}
    <3>1. /\ T \subseteq Accepted \ Given /\ T \in SUBSET Events
          /\ Given' = Given \cup T
      BY <1>3
    <3>2. Channel!Abandon(T)
      BY <1>3, <2>2, <3>1 DEF Channel!Abandon, Accepted, Given
    <3> QED BY <3>1, <3>2 DEF Channel!Next
  <2> QED BY <2>1, <2>2
<1>4. CASE Accepted' = Accepted /\ UNCHANGED <<Given, stream>>
  BY <1>4 DEF Channel!channel, Accepted, Given
<1> QED BY <1>1, <1>2, <1>3, <1>4

\* What a commit gives up has been accepted: its row was written under its lock.
LEMMA GivesUpAccepted ==
    ASSUME Typed, LockInv, NEW w \in Workers, MarkDelivered(w) \/ CommitDead(w) \/ EndCycle(w)
    PROVE  \E S \in SUBSET Accepted : abandoned' = abandoned \cup S
<1> DEFINE S == {e \in Events : tx[w][e].status = "dead_letter"}
<1>1. S \subseteq Accepted
  BY DEF LockInv, NoWrite, Accepted
<1>2. CASE MarkDelivered(w)
  <2> DEFINE e == worker[w].msg.event
             t == [tx[w] EXCEPT ![e] = [View(w, e) EXCEPT !.status = "delivered"]]
             R == {d \in Events : t[d].status = "dead_letter"}
  <2>1. tx[w] \in [Events -> Row] /\ e \in Events
    BY <1>2, BusEvents DEF Typed, TypeOK, MarkDelivered, At
  <2>2. t[e].status = "delivered" /\ \A d \in Events \ {e} : t[d] = tx[w][d]
    BY <2>1, Delivers
  <2>3. abandoned' = abandoned \cup R
    BY <1>2 DEF MarkDelivered, Commit
  <2> HIDE DEF t
  <2>4. R \subseteq S
    BY <2>1, <2>2
  <2> QED BY <1>1, <2>3, <2>4
<1>3. CASE CommitDead(w) \/ EndCycle(w)
  BY <1>1, <1>3 DEF CommitDead, EndCycle, Commit
<1> QED BY <1>2, <1>3

LEMMA ChannelStep ==
    ASSUME Typed, LockInv, BackedInv, [Next]_vars
    PROVE  [Channel!Next]_(Channel!channel)
<1>0. /\ Accepted \subseteq Events
      /\ db \in [Events -> Row] /\ stream \in [Events -> Nat]
  BY DEF Accepted, Typed, TypeOK
<1>s. ASSUME UNCHANGED <<db, abandoned, deadBus, stream>>
      PROVE  [Channel!Next]_(Channel!channel)
  <2>1. Accepted' = Accepted /\ UNCHANGED <<Given, stream>>
    BY <1>s DEF Accepted, Given
  <2> QED BY <1>0, <1>s, <2>1, ChannelMoves
<1>1. ASSUME NEW w \in Workers, Cycle(w) \/ Crash(w)
      PROVE  [Channel!Next]_(Channel!channel)
  <2>1. CASE Claim(w)
    BY <1>s, <2>1 DEF Claim
  <2>2. ASSUME NEW e \in Events, Publish(w, e) PROVE [Channel!Next]_(Channel!channel)
    BY <1>s, <2>2 DEF Publish
  <2>3. CASE Receive(w) \/ ReceiveFromSlow(w) \/ Ack(w) \/ AckBuried(w)
    BY <1>s, <2>3 DEF Receive, ReceiveFromSlow, ReceiveAll, Ack, AckBuried
  <2>4. ASSUME NEW m \in worker[w].batch, Deliver(w, m)
        PROVE  [Channel!Next]_(Channel!channel)
    <3>1. /\ UNCHANGED <<db, abandoned, deadBus>>
          /\ (AppendOnce(m.event) \/ UNCHANGED stream)
      BY <2>4 DEF Deliver
    <3>2. m \in bus /\ m.event \in Accepted
      BY BusEvents DEF Typed, HandsInv, LockInv, Accepted
    <3>3. stream[m.event] \in {0, 1}
      BY <1>0, <3>2 DEF BackedInv
    <3>4. CASE AppendOnce(m.event) /\ stream[m.event] = 0
      <4>1. stream' = [stream EXCEPT ![m.event] = 1]
        BY <3>4 DEF AppendOnce
      <4>2. Accepted' = Accepted /\ Given' = Given
        BY <3>1 DEF Accepted, Given
      <4> QED BY <1>0, <3>1, <3>2, <3>4, <4>1, <4>2, ChannelMoves
    <3>5. CASE stream[m.event] = 1 \/ UNCHANGED stream
      BY <1>s, <3>1, <3>5 DEF AppendOnce
    <3> QED BY <3>1, <3>3, <3>4, <3>5
  <2>5. CASE MarkDelivered(w) \/ CommitDead(w) \/ EndCycle(w)
    <3>1. UNCHANGED <<stream, deadBus>>
      BY <2>5, CommitSteps
    <3>2. \A e \in Events : (db'[e].status # "absent") = (db[e].status # "absent")
      <4>1. ASSUME NEW e \in Events
            PROVE  (db'[e].status # "absent") = (db[e].status # "absent")
        <5>1. CASE db'[e] = db[e]
          BY <5>1
        <5>2. CASE tx[w][e] # NoWrite /\ db'[e] = tx[w][e]
          BY <5>2 DEF LockInv
        <5>3. CASE /\ At(w, "mark") /\ e = worker[w].msg.event
                   /\ db'[e] = [View(w, e) EXCEPT !.status = "delivered"]
          <6>1. db'[e].status = "delivered"
            BY <5>3, Delivers
          <6>2. db[e].status # "absent"
            BY <5>3, BusEvents DEF At, LockInv
          <6> QED BY <6>1, <6>2
        <5> QED BY <2>5, <5>1, <5>2, <5>3, LockCommitted
      <4> QED BY <4>1
    <3>3. Accepted' = Accepted
      BY <3>2 DEF Accepted
    <3>4. PICK S \in SUBSET Accepted : abandoned' = abandoned \cup S
      BY <2>5, GivesUpAccepted
    <3>5. Given' = Given \cup S
      BY <3>1, <3>4 DEF Given
    <3> QED BY <1>0, <3>1, <3>3, <3>5, ChannelMoves
  <2>6. CASE FailMessage(w)
    BY <1>s, <2>6 DEF FailMessage
  <2>7. CASE Rollback(w)
    BY <1>s, <2>7 DEF Rollback
  <2>8. CASE AppendDead(w)
    <3> DEFINE e == worker[w].msg.event
    <3>1. /\ deadBus' = deadBus \cup {e} /\ UNCHANGED <<db, abandoned, stream>>
          /\ worker[w].msg \in bus /\ e \in Events
      BY <2>8, DeadAppended
    <3>2. e \in Accepted
      BY <3>1 DEF LockInv, Accepted
    <3>3. Accepted' = Accepted /\ Given' = Given \cup {e} /\ {e} \in SUBSET Accepted
      BY <3>1, <3>2 DEF Accepted, Given
    <3> QED BY <1>0, <3>1, <3>3, ChannelMoves
  <2> QED BY <1>1, <2>1, <2>2, <2>3, <2>4, <2>5, <2>6, <2>7, <2>8, CycleCases
<1>2. ASSUME NEW e \in Events, Enqueue(e) PROVE [Channel!Next]_(Channel!channel)
  <2>1. /\ db[e].status = "absent" /\ \A d \in Events \ {e} : db'[d] = db[d]
        /\ db'[e].status = "pending" /\ UNCHANGED <<stream, abandoned, deadBus>>
    BY <1>0, <1>2 DEF Enqueue, Row
  <2>2. e \notin Accepted /\ Accepted' = Accepted \cup {e} /\ UNCHANGED Given
    BY <2>1 DEF Accepted, Given
  <2> QED BY <1>0, <2>1, <2>2, ChannelMoves
<1>3. CASE UNCHANGED vars
  BY <1>s, <1>3 DEF vars
<1> QED BY <1>1, <1>2, <1>3 DEF Next

\* Every step of the detailed delivery is a step of the channel or leaves it
\* alone: no entry for an event nobody has accepted, no second entry for one
\* event, no dead letter taken back.
THEOREM StaysInTheChannel == Spec => KeepsToChannel
<1>1. Init => Channel!Init
  BY DEF Init, Channel!Init, NoWrite
<1>2. Typed /\ LockInv /\ BackedInv /\ [Next]_vars
        => [Channel!Next]_(Channel!channel)
  BY ChannelStep
<1> QED BY <1>1, <1>2, AlwaysTyped, AlwaysLockInv, AlwaysBackedInv, PTL
        DEF Spec, KeepsToChannel, Channel!Steps

=============================================================================
