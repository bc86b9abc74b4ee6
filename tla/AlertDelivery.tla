--------------------------- MODULE AlertDelivery ---------------------------
(***************************************************************************)
(* Alert events on their way from the transactional outbox (PostgreSQL),   *)
(* over the shared Redis stream, to the stream of their workspace          *)
(* (services/api/app/domains/alert_delivery.py), as the background loop of *)
(* each API process drives them (services/api/app/main.py).                *)
(*                                                                         *)
(* One cycle of the loop is publish_outbox_batch then consume_bus_batch on *)
(* one connection: the claim, the 'published' marks and the marks of       *)
(* failed messages are uncommitted writes that hold their row locks until  *)
(* the first commit, which may be the one after a delivered message.       *)
(* Redis is not part of that transaction: what was appended, delivered or  *)
(* acknowledged stays so when the cycle rolls back.                        *)
(***************************************************************************)
EXTENDS Naturals, FiniteSets

CONSTANTS Events,       \* alert events (outbox rows)
          Workers,      \* API processes that run the loop
          NoWorker,
          MaxAttempts,  \* max_attempts of every row
          MaxFaults,    \* bound: Redis errors, crashes and rollbacks
          MaxAppends    \* bound: bus messages of one event

ASSUME BoundsAssumption == /\ MaxAttempts \in Nat \ {0}
                           /\ MaxFaults \in Nat /\ MaxAppends \in Nat \ {0}
                           /\ NoWorker \notin Workers

VARIABLES
    db,        \* db[e]: the committed outbox row
    tx,        \* tx[w][e]: w's uncommitted write of the row, or NoWrite
    worker,    \* the loops
    bus,       \* messages of the shared stream, never trimmed
    owner,     \* owner[m]: consumer whose pending list holds m
    acked,     \* messages acknowledged to the consumer group
    stream,    \* stream[e]: entries of e on the workspace stream
    deadBus,   \* events appended to the dead-letter stream
    abandoned, \* history: events ever committed as dead_letter
    faults     \* bound: faults so far

vars == <<db, tx, worker, bus, owner, acked, stream, deadBus, abandoned, faults>>

Statuses == {"absent", "pending", "leased", "retry", "published", "delivered",
             "dead_letter"}
Row      == [status : Statuses, attempts : Nat]
NoWrite  == [status |-> "absent", attempts |-> 0]
\* the n-th append of event e
Message  == [event : Events, n : Nat]
NoMessage == [event |-> "none", n |-> 0]
Worker   == [pc : {"idle", "publish", "receive", "consume", "mark", "ack", "fail",
                   "bury", "buried", "unpend"},
             todo : SUBSET Events, batch : SUBSET Message,
             msg : Message \cup {NoMessage}]

TypeOK ==
    /\ db \in [Events -> Row]
    /\ tx \in [Workers -> [Events -> Row]]
    /\ worker \in [Workers -> Worker]
    /\ bus \subseteq Message
    /\ owner \in [bus -> Workers \cup {NoWorker}]
    /\ acked \subseteq bus
    /\ stream \in [Events -> Nat]
    /\ deadBus \subseteq Events
    /\ abandoned \subseteq Events
    /\ faults \in Nat

-----------------------------------------------------------------------------
(* PostgreSQL: a row somebody has written stays locked until they commit *)

Free(w, e)  == \A v \in Workers \ {w} : tx[v][e] = NoWrite
View(w, e)  == IF tx[w][e] = NoWrite THEN db[e] ELSE tx[w][e]
Written(w)  == {e \in Events : tx[w][e] # NoWrite}
Commit(t)   == /\ db' = [e \in Events |-> IF t[e] = NoWrite THEN db[e] ELSE t[e]]
               /\ abandoned' = abandoned \cup
                      {e \in Events : t[e].status = "dead_letter"}
Clean       == [e \in Events |-> NoWrite]

(* Redis *)
Appends(e)   == Cardinality({m \in bus : m.event = e})
NextOf(e)    == [event |-> e, n |-> Appends(e) + 1]
XAdd(e)      == /\ bus' = bus \cup {NextOf(e)}
                /\ owner' = [m \in bus \cup {NextOf(e)} |->
                                IF m \in bus THEN owner[m] ELSE NoWorker]

Fault == faults < MaxFaults /\ faults' = faults + 1
At(w, pc) == worker[w].pc = pc
Move(w, pc) == worker' = [worker EXCEPT ![w].pc = pc]

-----------------------------------------------------------------------------
Init ==
    /\ db = [e \in Events |-> NoWrite]
    /\ tx = [w \in Workers |-> Clean]
    /\ worker = [w \in Workers |-> [pc |-> "idle", todo |-> {}, batch |-> {},
                                    msg |-> NoMessage]]
    /\ bus = {} /\ owner = [m \in {} |-> NoWorker] /\ acked = {}
    /\ stream = [e \in Events |-> 0]
    /\ deadBus = {} /\ abandoned = {}
    /\ faults = 0

\* the trigger on alerts, or enqueue_alert_event, in the alert's transaction
Enqueue(e) ==
    /\ db[e].status = "absent"
    /\ db' = [db EXCEPT ![e].status = "pending"]
    /\ UNCHANGED <<tx, worker, bus, owner, acked, stream, deadBus, abandoned, faults>>

-----------------------------------------------------------------------------
(* publish_outbox_batch *)

\* mutant: a row whose message is on the bus is claimed again
ClaimableAgain(w) == {e \in Events : /\ db[e].status \in {"pending", "leased", "retry", "published"}
                                     /\ Free(w, e)
                                     /\ Appends(e) < MaxAppends}
Claimable(w) == {e \in Events : /\ db[e].status \in {"pending", "retry", "leased"}
                                /\ Free(w, e)
                                /\ Appends(e) < MaxAppends}

\* _claim_outbox, FOR UPDATE SKIP LOCKED
Claim(w) ==
    /\ At(w, "idle")
    /\ tx' = [tx EXCEPT ![w] = [e \in Events |->
                IF e \in Claimable(w) THEN [db[e] EXCEPT !.status = "leased"]
                                      ELSE NoWrite]]
    /\ worker' = [worker EXCEPT ![w].pc = "publish", ![w].todo = Claimable(w)]
    /\ UNCHANGED <<db, bus, owner, acked, stream, deadBus, abandoned, faults>>

\* mutants: a status the product does not know; the failure swallowed
SpendAsFailed(w, e)    == [status |-> "failed", attempts |-> tx[w][e].attempts + 1]
SpendAsPublished(w, e) == [status |-> "published", attempts |-> tx[w][e].attempts + 1]
Spend(w, e) == LET n == tx[w][e].attempts + 1
               IN  [status |-> IF n >= MaxAttempts THEN "dead_letter" ELSE "retry",
                    attempts |-> n]

\* An append that raised may have reached Redis all the same.
Publish(w, e) ==
    /\ At(w, "publish") /\ e \in worker[w].todo
    /\ worker' = [worker EXCEPT ![w].todo = @ \ {e}]
    /\ \/ /\ XAdd(e)
          /\ tx' = [tx EXCEPT ![w][e].status = "published"]
          /\ UNCHANGED faults
       \/ /\ Fault
          /\ tx' = [tx EXCEPT ![w][e] = Spend(w, e)]
          /\ XAdd(e) \/ UNCHANGED <<bus, owner>>
    /\ UNCHANGED <<db, acked, stream, deadBus, abandoned>>

Handling(w)  == worker[w].batch \cup {worker[w].msg}
Orphaned     == {m \in bus \ acked : /\ owner[m] # NoWorker
                                      /\ \A w \in Workers : m \notin Handling(w)}

\* xreadgroup takes what is new, xautoclaim what has been pending for long: of
\* the messages nobody is handling those idle long enough, and, after a fault,
\* even one that a slow cycle still has in hand.
ReceiveAll(w, stale) ==
    LET got == stale \cup {m \in bus : owner[m] = NoWorker}
    IN  /\ At(w, "publish") /\ worker[w].todo = {}
        /\ worker' = [worker EXCEPT ![w].pc = "consume", ![w].batch = got]
        /\ owner' = [m \in bus |-> IF m \in got THEN w ELSE owner[m]]
        /\ UNCHANGED <<db, tx, bus, acked, stream, deadBus, abandoned>>
Receive(w) ==
    \E stale \in SUBSET Orphaned : ReceiveAll(w, stale) /\ UNCHANGED faults
ReceiveFromSlow(w) ==
    \E v \in Workers \ {w} : \E m \in Handling(v) \ (acked \cup {NoMessage}) :
        ReceiveAll(w, Orphaned \cup {m}) /\ Fault

-----------------------------------------------------------------------------
(* consume_bus_batch, one message after another *)

\* mutant: the marker is not looked at
AppendAlways(e) == stream' = [stream EXCEPT ![e] = @ + 1]
\* the Lua script of _deliver_idempotently: marker and entry in one step
AppendOnce(e) == stream' = IF stream[e] > 0 THEN stream
                           ELSE [stream EXCEPT ![e] = @ + 1]

Deliver(w, m) ==
    /\ At(w, "consume") /\ m \in worker[w].batch
    /\ \/ /\ AppendOnce(m.event)
          /\ worker' = [worker EXCEPT ![w].pc = "mark", ![w].msg = m,
                                      ![w].batch = @ \ {m}]
          /\ UNCHANGED faults
       \/ /\ Fault
          /\ AppendOnce(m.event) \/ UNCHANGED stream
          /\ worker' = [worker EXCEPT ![w].pc = "fail", ![w].msg = m,
                                      ![w].batch = @ \ {m}]
    /\ UNCHANGED <<db, tx, bus, owner, acked, deadBus, abandoned>>

\* UPDATE ... 'delivered' and connection.commit(), which also commits what the
\* cycle has published so far
MarkDelivered(w) ==
    LET e == worker[w].msg.event IN
    /\ At(w, "mark") /\ Free(w, e)
    /\ Commit([tx[w] EXCEPT ![e] = [View(w, e) EXCEPT !.status = "delivered"]])
    /\ tx' = [tx EXCEPT ![w] = Clean]
    /\ Move(w, "ack")
    /\ UNCHANGED <<bus, owner, acked, stream, deadBus, faults>>

Ack(w) ==
    /\ At(w, "ack")
    /\ \/ /\ acked' = acked \cup {worker[w].msg}
          /\ Move(w, "consume")
          /\ UNCHANGED faults
       \/ /\ Fault /\ Move(w, "fail")
          /\ acked' \in {acked, acked \cup {worker[w].msg}}
    /\ UNCHANGED <<db, tx, bus, owner, stream, deadBus, abandoned>>

\* The except branch: SELECT ... FOR UPDATE, then a mark that is not committed
\* unless the attempts are spent.
FailMessage(w) ==
    LET e == worker[w].msg.event
        n == View(w, e).attempts + 1 IN
    /\ At(w, "fail") /\ Free(w, e)
    /\ IF n >= MaxAttempts
       THEN /\ tx' = [tx EXCEPT ![w][e] = [status |-> "dead_letter", attempts |-> n]]
            /\ Move(w, "bury")
       ELSE /\ tx' = [tx EXCEPT ![w][e] = [status |-> "published", attempts |-> n]]
            /\ Move(w, "consume")
    /\ UNCHANGED <<db, bus, owner, acked, stream, deadBus, abandoned, faults>>

\* mutant: acknowledged without the dead-letter record
AppendNothing(w) ==
    /\ At(w, "bury")
    /\ Move(w, "buried")
    /\ UNCHANGED <<db, tx, bus, owner, acked, stream, deadBus, abandoned, faults>>
\* XADD on the dead-letter stream, which no rollback takes back ...
AppendDead(w) ==
    /\ At(w, "bury")
    /\ deadBus' = deadBus \cup {worker[w].msg.event}
    /\ Move(w, "buried")
    /\ UNCHANGED <<db, tx, bus, owner, acked, stream, abandoned, faults>>

\* ... and then the commit of the mark.
CommitDead(w) ==
    /\ At(w, "buried")
    /\ Commit(tx[w])
    /\ tx' = [tx EXCEPT ![w] = Clean]
    /\ Move(w, "unpend")
    /\ UNCHANGED <<bus, owner, acked, stream, deadBus, faults>>

AckBuried(w) ==
    /\ At(w, "unpend")
    /\ acked' = acked \cup {worker[w].msg}
    /\ Move(w, "consume")
    /\ UNCHANGED <<db, tx, bus, owner, stream, deadBus, abandoned, faults>>

\* the loop's own commit
EndCycle(w) ==
    /\ At(w, "consume") /\ worker[w].batch = {}
    /\ Commit(tx[w])
    /\ tx' = [tx EXCEPT ![w] = Clean]
    /\ worker' = [worker EXCEPT ![w].pc = "idle", ![w].msg = NoMessage]
    /\ UNCHANGED <<bus, owner, acked, stream, deadBus, faults>>

-----------------------------------------------------------------------------
\* The transaction rolls back; what Redis holds stays.
Rollback(w) ==
    /\ tx' = [tx EXCEPT ![w] = Clean]
    /\ worker' = [worker EXCEPT ![w] = [pc |-> "idle", todo |-> {}, batch |-> {},
                                        msg |-> NoMessage]]
    /\ UNCHANGED <<db, bus, owner, acked, stream, deadBus, abandoned>>

\* A crash of the process, or an exception that ends the cycle.
Crash(w) == ~At(w, "idle") /\ Fault /\ Rollback(w)

\* Two cycles wait for rows the other has written: PostgreSQL ends one of them.
Waiting(w)     == worker[w].pc \in {"mark", "fail"} /\ ~Free(w, worker[w].msg.event)
WaitsFor(w, v) == Waiting(w) /\ v # w /\ tx[v][worker[w].msg.event] # NoWrite
BreakDeadlock(w) ==
    /\ \E v \in Workers : WaitsFor(w, v) /\ WaitsFor(v, w)
    /\ Rollback(w) /\ UNCHANGED faults

Cycle(w) ==
    \/ Claim(w) \/ (\E e \in Events : Publish(w, e)) \/ Receive(w) \/ ReceiveFromSlow(w)
    \/ (\E m \in worker[w].batch : Deliver(w, m))
    \/ MarkDelivered(w) \/ Ack(w) \/ FailMessage(w) \/ AppendDead(w) \/ CommitDead(w)
    \/ AckBuried(w) \/ EndCycle(w) \/ BreakDeadlock(w)

Next == \/ \E e \in Events : Enqueue(e)
        \/ \E w \in Workers : Cycle(w) \/ Crash(w)

Spec == Init /\ [][Next]_vars

\* The loop runs "while True" and survives every exception, and a process that
\* dies is restarted; faults end (MaxFaults).  A message nobody handles ages
\* until some cycle's xautoclaim takes it.
Recover(m) == \E w \in Workers, stale \in SUBSET Orphaned :
                  m \in stale /\ ReceiveAll(w, stale) /\ UNCHANGED faults
MessageBound == Events \X (1..MaxAppends)
FairSpec ==
    /\ Spec
    /\ \A w \in Workers : WF_vars(Cycle(w))
    /\ \A x \in MessageBound :
         SF_vars(Recover([event |-> x[1], n |-> x[2]]))

-----------------------------------------------------------------------------
(* Properties *)

\* "ACKing only after idempotent workspace delivery succeeds" (consume_bus_batch):
\* what the group has acknowledged is on the workspace stream or dead-lettered.
AckedIsSettled ==
    \A m \in acked : stream[m.event] > 0 \/ m.event \in deadBus

\* The outbox row never claims more than Redis holds: a delivered row is on the
\* workspace stream, a published one is on the bus unless it has been delivered.
RowsBackedByRedis ==
    \A e \in Events :
        /\ db[e].status = "delivered" => stream[e] > 0
        /\ db[e].status = "published" =>
               stream[e] > 0 \/ \E m \in bus \ acked : m.event = e

\* An event whose row was committed as published never goes back into the queue
\* of publish_outbox_batch, whatever fails, rolls back or is redelivered later:
\* from then on only the consumer group repeats it.
Consumed == {"published", "delivered", "dead_letter"}
PublishedLeavesTheQueue ==
    [][\A e \in Events : db[e].status \in Consumed => db'[e].status \in Consumed]_vars

\* The detailed delivery implements the channel its subscribers rely on.
Channel == INSTANCE AlertChannel WITH
    accepted  <- {e \in Events : db[e].status # "absent"},
    delivered <- stream,
    abandoned <- abandoned \cup deadBus
ImplementsChannel == Channel!Spec

\* What it never does to its subscribers: an entry for an event nobody has
\* accepted, a second entry for one event, a dead letter that is taken back.
KeepsToChannel == Channel!Steps

=============================================================================
