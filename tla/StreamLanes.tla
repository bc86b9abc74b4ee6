----------------------------- MODULE StreamLanes -----------------------------
(***************************************************************************)
(* The three lanes that carry the transfers of the Base chain into the     *)
(* telemetry (services/api/app/quicknode_streams.py and                    *)
(* run_quicknode_live_worker.py): the delivery lane, whose webhook keeps a *)
(* cursor and fetches the blocks its stream skipped; the live lane at the  *)
(* tip of the chain; and the backfill lane that walks the history behind   *)
(* it.  The live worker's replicas take turns under one advisory lock,     *)
(* webhooks of every lane run beside them, and each lane has one cursor in *)
(* quicknode_stream_checkpoints.                                           *)
(* A session is one database connection: a tick of the worker (it holds    *)
(* the lock) or a webhook request.  Blocks without a transfer of a         *)
(* monitored wallet change nothing but the cursors, so a walk visits the   *)
(* blocks of Transfers only.                                               *)
(***************************************************************************)
EXTENDS Integers

CONSTANTS
  Sessions, NoSession,   \* database connections; "nobody"
  Transfers,             \* the blocks that hold a transfer of a monitored wallet
  MaxHead,               \* bound of the chain's head
  Confirmations,         \* QUICKNODE_LIVE_CONFIRMATIONS
  PerTick,               \* QUICKNODE_LIVE_MAX_BLOCKS_PER_TICK
  BackfillPerTick,       \* QUICKNODE_BACKFILL_MAX_BLOCKS_PER_TICK
  MaxCatchup,            \* QUICKNODE_LIVE_MAX_CATCHUP_BLOCKS, 0: never snap
  GapCap,                \* QUICKNODE_STREAM_BACKFILL_MAX_BLOCKS, 0: no cap
  SeedBlock,             \* QUICKNODE_BACKFILL_START_BLOCK, NoBlock when unset
  MaxBatch,              \* most blocks in one pushed batch
  MaxPushes, MaxFaults   \* bounds of the batches pushed and of the faults

NoBlock == -1            \* an absent row; also what COALESCE puts for NULL

ASSUME BlocksAssumption ==
  /\ Transfers \subseteq 1..MaxHead
  /\ MaxHead \in Nat \ {0} /\ Confirmations \in Nat /\ MaxCatchup \in Nat /\ GapCap \in Nat
  /\ PerTick \in Nat \ {0} /\ BackfillPerTick \in Nat \ {0} /\ MaxBatch \in Nat \ {0}
  /\ SeedBlock \in Nat \cup {NoBlock}
  /\ MaxPushes \in Nat /\ MaxFaults \in Nat
  /\ NoSession \notin Sessions

Lanes == {"base", "live", "backfill"}

VARIABLES
  head,        \* the chain's newest block
  checkpoint,  \* lane -> last_processed_block, as committed
  rows,        \* the transfers that have a telemetry row
  lock,        \* the session that holds the live lane's advisory lock
  session,     \* what each session is doing
  owed,        \* batches answered with an error, to be delivered again
  pushes, faults,
  origin,      \* history: the block each lane's coverage begins at
  passed,      \* history: lane -> transfers it went past with no row, by design
  cut          \* history: transfers of delivery gaps whose handler gave up

vars == <<head, checkpoint, rows, lock, session, owed, pushes, faults, origin, passed, cut>>

Upper(a, b) == IF a < b THEN b ELSE a
Lower(a, b) == IF a < b THEN a ELSE b

Batches == [lane : Lanes, first : 1..MaxHead, last : 1..MaxHead]

(* last is the cursor a session will write, first where its blocks begin;  *)
(* read is the delivery cursor it read, left the transfers it has yet to   *)
(* handle, dirty that its cursor is written and not committed, bound the   *)
(* cursor the live part of its tick reported, snaps that its walk begins   *)
(* at the tip and leaves the history behind.                               *)
Idle == [pc |-> "idle", lane |-> "live", first |-> 0, last |-> 0, read |-> NoBlock,
         left |-> {}, dirty |-> FALSE, bound |-> NoBlock, snaps |-> FALSE]

Init ==
  /\ head = 1
  /\ checkpoint = [l \in Lanes |-> NoBlock]
  /\ rows = {}
  /\ lock = NoSession
  /\ session = [s \in Sessions |-> Idle]
  /\ owed = {}
  /\ pushes = 0 /\ faults = 0
  /\ origin = [l \in Lanes |-> NoBlock]
  /\ passed = [l \in Lanes |-> {}]
  /\ cut = {}

-----------------------------------------------------------------------------
(* The environment. *)

\* The chain grows.
Mine ==
  /\ head < MaxHead
  /\ head' = head + 1
  /\ UNCHANGED <<checkpoint, rows, lock, session, owed, pushes, faults, origin, passed, cut>>

Fault == faults < MaxFaults /\ faults' = faults + 1

-----------------------------------------------------------------------------
(* What the lanes share. *)

Window(first, last) == Transfers \cap (first..last)

\* mutant: EXCLUDED.last_processed_block in place of GREATEST(...).
AdvancedBlindly(l, block) == block
\* GREATEST(COALESCE(cursor, -1), block): the upsert of the live and backfill lanes.
Advanced(l, block) == Upper(checkpoint[l], block)

\* The blocks an upsert takes a cursor over that its writer never looked at.
Jumped(l, first) ==
  IF checkpoint[l] = NoBlock THEN {} ELSE Window(checkpoint[l] + 1, first - 1)

BeginsAt(l, first) ==
  [origin EXCEPT ![l] = IF checkpoint[l] = NoBlock THEN first ELSE @]

\* mutant: The lock outlives the tick.
ReleasedNever(s) == lock
Released(s) == IF lock = s THEN NoSession ELSE lock

Becomes(s, r) == session' = [session EXCEPT ![s] = r]

\* The connection closes: what is not committed is rolled back, the lock freed.
Finish(s) ==
  /\ Becomes(s, Idle)
  /\ lock' = Released(s)

Batch(s) == [lane |-> session[s].lane, first |-> session[s].first, last |-> session[s].last]

Pushed(s) == lock # s

-----------------------------------------------------------------------------
(* The delivery lane's cursor and the gaps of its stream. *)

Capped(from, to) ==
  IF GapCap > 0 THEN Lower(to, from + GapCap - 1) ELSE to

\* mutant: The gap begins one block late.
GapLate(s) ==
  IF session[s].read = NoBlock THEN {}
  ELSE Window(session[s].read + 2, Capped(session[s].read + 1, session[s].first - 1))
\* The blocks the stream skipped since the cursor the handler read.
Gap(s) ==
  IF session[s].read = NoBlock THEN {}
  ELSE Window(session[s].read + 1, Capped(session[s].read + 1, session[s].first - 1))

Truncated(s) ==
  IF session[s].read = NoBlock THEN {}
  ELSE Window(Capped(session[s].read + 1, session[s].first - 1) + 1, session[s].first - 1)

\* The cursor computed from the row as it was read, not as it is when written.
NewProcessed(s) == Upper(session[s].read, session[s].last)

\* Two first batches at once: the later sees no row, and so no gap before it.
UnseenGap(s) ==
  IF session[s].read # NoBlock THEN {} ELSE Jumped("base", session[s].first)

\* A commit makes the cursor durable with whatever else it commits.
CommitCursor(s) ==
  IF session[s].dirty
  THEN /\ checkpoint' = [checkpoint EXCEPT !["base"] = NewProcessed(s)]
       /\ origin' = BeginsAt("base", session[s].first)
       /\ passed' = [passed EXCEPT !["base"] = @ \cup Truncated(s)]
       /\ cut' = cut \cup UnseenGap(s)
  ELSE UNCHANGED <<checkpoint, origin, passed, cut>>

-----------------------------------------------------------------------------
(* Webhooks.  QuickNode pushes batches of contiguous blocks, at most once   *)
(* each unless it was answered with an error.                              *)

Receive(s, b) ==
  /\ session[s].pc = "idle"
  /\ b.first <= b.last /\ b.last < b.first + MaxBatch /\ b.last <= head
  /\ \/ b \in owed /\ UNCHANGED pushes
     \/ b \notin owed /\ pushes < MaxPushes /\ pushes' = pushes + 1
  /\ Becomes(s, [Idle EXCEPT !.pc = IF b.lane = "base" THEN "track" ELSE "load",
                             !.lane = b.lane, !.first = b.first, !.last = b.last,
                             !.read = IF b.lane = "base" THEN checkpoint["base"] ELSE NoBlock,
                             !.left = Window(b.first, b.last)])
  /\ UNCHANGED <<head, checkpoint, rows, lock, owed, faults, origin, passed, cut>>

\* The upsert waits for the row lock of a handler that has not committed its own.
Track(s) ==
  /\ session[s].pc = "track"
  /\ \A t \in Sessions : ~session[t].dirty
  /\ Becomes(s, [session[s] EXCEPT !.pc = "load", !.dirty = TRUE, !.left = @ \cup Gap(s)])
  /\ UNCHANGED <<head, checkpoint, rows, lock, owed, pushes, faults, origin, passed, cut>>

\* The checkpoint may fail without failing the webhook: no cursor, no gap.
TrackFails(s) ==
  /\ session[s].pc = "track"
  /\ Fault
  /\ Becomes(s, [session[s] EXCEPT !.pc = "load"])
  /\ UNCHANGED <<head, checkpoint, rows, lock, owed, pushes, origin, passed, cut>>

LoadTargets(s) ==
  /\ session[s].pc = "load"
  /\ Becomes(s, [session[s] EXCEPT !.pc = "walk"])
  /\ UNCHANGED <<head, checkpoint, rows, lock, owed, pushes, faults, origin, passed, cut>>

\* No RPC endpoint is configured for this process: the whole gap is gone past.
NoClient(s) ==
  /\ session[s].pc = "load"
  /\ LET gap == {b \in session[s].left : b < session[s].first}
     IN /\ gap # {}
        /\ passed' = [passed EXCEPT ![session[s].lane] = @ \cup gap]
        /\ Becomes(s, [session[s] EXCEPT !.pc = "walk", !.left = @ \ gap])
  /\ UNCHANGED <<head, checkpoint, rows, lock, owed, pushes, faults, origin, cut>>

\* Rolled back and answered 200: a batch that was owed is not delivered again.
LoadFails(s) ==
  /\ session[s].pc = "load"
  /\ Fault
  /\ Finish(s)
  /\ owed' = owed \ {Batch(s)}
  /\ cut' = IF Batch(s) \in owed /\ Batch(s).lane = "base"
            THEN cut \cup Window(Batch(s).first, Batch(s).last) ELSE cut
  /\ UNCHANGED <<head, checkpoint, rows, pushes, origin, passed>>

\* The handler of a delivery batch has done everything; the response commits.
Answer(s) ==
  /\ session[s].pc = "walk" /\ session[s].left = {}
  /\ session[s].lane = "base"
  /\ CommitCursor(s)
  /\ Finish(s)
  /\ owed' = owed \ {Batch(s)}
  /\ UNCHANGED <<head, rows, pushes, faults>>

-----------------------------------------------------------------------------
(* The live worker's tick. *)

SeedCursor == IF checkpoint["base"] # NoBlock THEN checkpoint["base"]
              ELSE IF SeedBlock # NoBlock THEN Upper(0, SeedBlock - 1)
              ELSE NoBlock

\* The lock, then the backfill lane's first cursor, ON CONFLICT DO NOTHING.
StartTick(s) ==
  /\ session[s].pc = "idle"
  /\ lock = NoSession
  /\ lock' = s
  /\ Becomes(s, [Idle EXCEPT !.pc = "live"])
  /\ IF checkpoint["backfill"] = NoBlock /\ SeedCursor # NoBlock
     THEN /\ checkpoint' = [checkpoint EXCEPT !["backfill"] = SeedCursor]
          /\ origin' = BeginsAt("backfill", SeedCursor + 1)
     ELSE UNCHANGED <<checkpoint, origin>>
  /\ UNCHANGED <<head, rows, owed, pushes, faults, passed, cut>>

SafeHead == Upper(0, head - Confirmations)

Stale == MaxCatchup > 0 /\ SafeHead - checkpoint["live"] > MaxCatchup

\* mutant: The window begins one block late.
LiveStartLate ==
  IF checkpoint["live"] = NoBlock THEN SafeHead
  ELSE IF Stale THEN Upper(checkpoint["live"] + 1, SafeHead - PerTick + 1)
       ELSE checkpoint["live"] + 2
LiveStart ==
  IF checkpoint["live"] = NoBlock THEN SafeHead
  ELSE IF Stale
       THEN Upper(checkpoint["live"] + 1, SafeHead - PerTick + 1)
       ELSE checkpoint["live"] + 1

\* mutant: start_block >= safe_head.
CaughtUpEarly(start, safe) == start >= safe
CaughtUp(start, safe) == start > safe

LiveEnd == Lower(SafeHead, LiveStart + PerTick - 1)

\* The head and the cursor are read, and the window to walk is taken from them.
RunLiveTip(s) ==
  /\ session[s].pc = "live"
  /\ IF CaughtUp(LiveStart, SafeHead)
     THEN Becomes(s, [session[s] EXCEPT !.pc = "history", !.bound = checkpoint["live"]])
     ELSE Becomes(s, [session[s] EXCEPT !.pc = "walk", !.lane = "live",
                        !.first = LiveStart, !.last = LiveEnd, !.left = Window(LiveStart, LiveEnd),
                        !.snaps = (checkpoint["live"] = NoBlock \/ Stale)])
  /\ UNCHANGED <<head, checkpoint, rows, lock, owed, pushes, faults, origin, passed, cut>>

HeadUnknown(s) ==
  /\ session[s].pc = "live"
  /\ Fault
  /\ Becomes(s, [session[s] EXCEPT !.pc = "history", !.bound = checkpoint["live"]])
  /\ UNCHANGED <<head, checkpoint, rows, lock, owed, pushes, origin, passed, cut>>

\* mutant: Never past "the block the live lane began at".
BackfillEndAtOrigin(s) ==
  LET batch == checkpoint["backfill"] + BackfillPerTick
  IN IF origin["live"] = NoBlock THEN batch ELSE Lower(batch, origin["live"] - 1)
\* Up to the block before the cursor the live part reported, if it has one.
BackfillEnd(s) ==
  LET batch == checkpoint["backfill"] + BackfillPerTick
  IN IF session[s].bound = NoBlock THEN batch ELSE Lower(batch, session[s].bound - 1)

RunBackfill(s) ==
  /\ session[s].pc = "history"
  /\ LET start == checkpoint["backfill"] + 1
     IN IF checkpoint["backfill"] = NoBlock \/ start > BackfillEnd(s)
        THEN Finish(s)
        ELSE /\ Becomes(s, [session[s] EXCEPT !.pc = "walk", !.lane = "backfill",
                              !.first = start, !.last = BackfillEnd(s),
                              !.left = Window(start, BackfillEnd(s)), !.snaps = FALSE])
             /\ UNCHANGED lock
  /\ UNCHANGED <<head, checkpoint, rows, owed, pushes, faults, origin, passed, cut>>

-----------------------------------------------------------------------------
(* Blocks are handled in ascending order. *)

IsNext(s, b) == b \in session[s].left /\ \A c \in session[s].left : b <= c

\* A pushed block is in the payload; the others are fetched from the chain's RPC.
Fetched(s, b) == ~Pushed(s) \/ b < session[s].first

Drop(s, b) == Becomes(s, [session[s] EXCEPT !.left = @ \ {b}])

\* A block beyond the head answers null, which counts as scanned.
Scan(s) ==
  /\ session[s].pc = "walk"
  /\ \E b \in Transfers :
       /\ IsNext(s, b)
       /\ IF Fetched(s, b) /\ b > head
          THEN /\ passed' = [passed EXCEPT ![session[s].lane] = @ \cup {b}]
               /\ Drop(s, b)
          ELSE /\ IF b \in rows THEN Drop(s, b)
                  ELSE Becomes(s, [session[s] EXCEPT !.pc = "insert"])
               /\ UNCHANGED passed
  /\ UNCHANGED <<head, checkpoint, rows, lock, owed, pushes, faults, origin, cut>>

\* A block that cannot be fetched is counted and gone past.
FetchFails(s) ==
  /\ session[s].pc = "walk"
  /\ Fault
  /\ \E b \in Transfers :
       /\ IsNext(s, b) /\ Fetched(s, b)
       /\ passed' = [passed EXCEPT ![session[s].lane] = @ \cup {b}]
       /\ Drop(s, b)
  /\ UNCHANGED <<head, checkpoint, rows, lock, owed, pushes, origin, cut>>

\* The row and everything before it on the connection are committed together.
Insert(s) ==
  /\ session[s].pc = "insert"
  /\ \E b \in Transfers :
       /\ IsNext(s, b)
       /\ rows' = rows \cup {b}
       /\ Becomes(s, [session[s] EXCEPT !.pc = "walk", !.dirty = FALSE, !.left = @ \ {b}])
  /\ CommitCursor(s)
  /\ UNCHANGED <<head, lock, owed, pushes, faults>>

\* The live or backfill lane's cursor, after its blocks; a tick goes on to history.
AdvanceLane(s) ==
  LET l == session[s].lane
  IN /\ session[s].pc = "walk" /\ session[s].left = {}
     /\ l # "base"
     /\ checkpoint' = [checkpoint EXCEPT ![l] = Advanced(l, session[s].last)]
     /\ origin' = BeginsAt(l, session[s].first)
     /\ passed' = [passed EXCEPT ![l] = @ \cup
                     (IF Pushed(s) \/ session[s].snaps THEN Jumped(l, session[s].first) ELSE {})]
     /\ IF ~Pushed(s) /\ l = "live"
        THEN /\ Becomes(s, [session[s] EXCEPT !.pc = "history", !.bound = session[s].last])
             /\ UNCHANGED lock
        ELSE Finish(s)
     /\ owed' = IF Pushed(s) THEN owed \ {Batch(s)} ELSE owed
     /\ UNCHANGED <<head, rows, pushes, faults, cut>>

-----------------------------------------------------------------------------
\* An exception or the death of the process; a webhook then answers no 200.
\* What a committed cursor has already gone over is not seen as a gap again.
Abort(s) ==
  /\ session[s].pc # "idle"
  /\ Fault
  /\ Finish(s)
  /\ owed' = IF Pushed(s) THEN owed \cup {Batch(s)} ELSE owed
  /\ cut' = IF session[s].lane = "base" /\ ~session[s].dirty
            THEN cut \cup {b \in session[s].left : b < session[s].first} ELSE cut
  /\ UNCHANGED <<head, checkpoint, rows, pushes, origin, passed>>

\* What a session does of itself once it has begun.
Step(s) ==
  \/ Track(s) \/ LoadTargets(s) \/ Answer(s)
  \/ RunLiveTip(s) \/ RunBackfill(s)
  \/ Scan(s) \/ Insert(s) \/ AdvanceLane(s)

Fails(s) == \/ TrackFails(s) \/ NoClient(s) \/ LoadFails(s) \/ HeadUnknown(s)
            \/ FetchFails(s) \/ Abort(s)

Next ==
  \/ Mine
  \/ \E s \in Sessions :
       \/ \E b \in Batches : Receive(s, b)
       \/ StartTick(s)
       \/ Step(s)
       \/ Fails(s)

\* The worker ticks for ever; what has begun goes on unless a fault ends it.
Fairness ==
  /\ WF_vars(\E s \in Sessions : StartTick(s))
  /\ \A s \in Sessions : WF_vars(Step(s))

Spec == Init /\ [][Next]_vars /\ Fairness

-----------------------------------------------------------------------------
(* Properties. *)

PCs == {"idle", "track", "load", "live", "history", "walk", "insert"}

SessionType ==
  [pc : PCs, lane : Lanes, first : Nat, last : Nat, read : Nat \cup {NoBlock},
   left : SUBSET Transfers, dirty : BOOLEAN, bound : Nat \cup {NoBlock}, snaps : BOOLEAN]

\* Type invariant: every variable stays in its domain, the lock is held only by
\* a tick that is under way (release_live_lane_lock, or the connection's end),
\* and only a handler of the delivery lane holds a cursor it has not committed.
TypeOK ==
  /\ head \in 1..MaxHead
  /\ checkpoint \in [Lanes -> Nat \cup {NoBlock}]
  /\ rows \subseteq Transfers
  /\ lock \in Sessions \cup {NoSession}
  /\ session \in [Sessions -> SessionType]
  /\ owed \subseteq Batches
  /\ pushes \in 0..MaxPushes /\ faults \in 0..MaxFaults
  /\ origin \in [Lanes -> Nat \cup {NoBlock}]
  /\ passed \in [Lanes -> SUBSET Transfers]
  /\ cut \subseteq Transfers
  /\ lock # NoSession => session[lock].pc \in {"live", "history", "walk", "insert"}
  /\ \A s \in Sessions : session[s].dirty =>
       session[s].lane = "base" /\ session[s].pc \in {"load", "walk", "insert"}

\* "Monotonically advance ONE lane's checkpoint (never regresses)"
\* (_advance_lane_checkpoint): ticks of two replicas and webhooks of a lane write
\* its cursor from reads they took at different times, and it never moves back.
LanesNeverRegress ==
  [][\A l \in {"live", "backfill"} : checkpoint'[l] >= checkpoint[l]]_checkpoint

\* A lane's cursor stands for work done: every transfer between the block the lane
\* began at and its cursor has a row, or is one the lane went past with none:
\* its block could not be fetched or did not exist yet, the lane snapped to the
\* tip, or a pushed batch lay beyond it.
CursorsAreBacked ==
  \A l \in {"live", "backfill"} :
    checkpoint[l] # NoBlock =>
      Window(origin[l], checkpoint[l]) \subseteq rows \cup passed[l]

\* What a session of the delivery lane still has in hand.
InHand(s) == IF session[s].pc # "idle" /\ Pushed(s) /\ session[s].lane = "base"
             THEN session[s].left ELSE {}

OwedTransfers == UNION {Window(b.first, b.last) : b \in {c \in owed : c.lane = "base"}}

\* The delivery lane heals its gaps: whatever its stream skipped, in whatever order
\* the batches of several handlers commit, a transfer the delivery cursor has gone
\* over has a row, is in the hand of a handler, is owed by QuickNode, or was given up
\* by name: truncated or unfetchable (passed), or cut off with the handler whose
\* first row had already committed the cursor, or with two first batches at once.
GapsHealUnlessCut ==
  checkpoint["base"] # NoBlock =>
    Window(origin["base"], checkpoint["base"]) \subseteq
      rows \cup passed["base"] \cup cut \cup OwedTransfers \cup UNION {InHand(s) : s \in Sessions}

\* "the lane is live within one tick no matter how far behind": whatever faults there
\* were, the live cursor reaches the confirmed tip of the chain and stays at it.
LiveReachesTheTip == <>[](checkpoint["live"] >= SafeHead)

\* What the live lane leaves behind is "recoverable via backfill": a transfer between
\* the backfill lane's first block and the live cursor, skipped by a snap or lost to a
\* failed fetch of the live lane, gets its row in the end, unless the backfill lane in
\* turn went past it.
SkippedIsBackfilled ==
  \A b \in Transfers :
    (checkpoint["backfill"] # NoBlock /\ origin["backfill"] <= b /\ b < checkpoint["live"])
      ~> (b \in rows \cup passed["backfill"])

=============================================================================
