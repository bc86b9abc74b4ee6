-------------------------- MODULE StreamLanes_proofs --------------------------
(***************************************************************************)
(* Theorems about StreamLanes, for every chain, every set of sessions and  *)
(* every setting of the bounds.                                            *)
(***************************************************************************)
EXTENDS StreamLanes, TLAPS

-----------------------------------------------------------------------------
(* Cursors and windows. *)

Cursor == Nat \cup {NoBlock}

LEMMA UpperLower ==
  ASSUME NEW a \in Int, NEW b \in Int
  PROVE  /\ Upper(a, b) \in Int /\ Upper(a, b) >= a /\ Upper(a, b) >= b
         /\ Upper(a, b) = a \/ Upper(a, b) = b
         /\ Lower(a, b) \in Int /\ Lower(a, b) <= a /\ Lower(a, b) <= b
         /\ Lower(a, b) = a \/ Lower(a, b) = b
BY DEF Upper, Lower

LEMMA TransfersAreBlocks ==
  /\ Transfers \subseteq Nat
  /\ \A b \in Transfers : b \in Int
BY BlocksAssumption

\* A window that ends where the next begins.
LEMMA WindowMember ==
  ASSUME NEW a \in Int, NEW c \in Int, NEW b
  PROVE  b \in Window(a, c) <=> b \in Transfers /\ a <= b /\ b <= c
<1>1. CASE b \in Transfers
  <2>1. b \in Int
    BY <1>1, TransfersAreBlocks
  <2>2. b \in a..c <=> a <= b /\ b <= c
    BY <2>1
  <2> QED BY <1>1, <2>2 DEF Window
<1>2. CASE b \notin Transfers
  BY <1>2 DEF Window
<1> QED BY <1>1, <1>2

-----------------------------------------------------------------------------
(* Which session does what. *)

\* Ticks hold the lock and never work for the delivery lane.
Shape ==
  \A s \in Sessions :
    /\ session[s].pc \in {"live", "history"} => lock = s
    /\ lock = s => session[s].lane # "base"
    /\ session[s].pc = "track" => session[s].lane = "base"
    /\ session[s].lane = "base" => session[s].first <= session[s].last
    /\ session[s].pc # "idle" /\ lock # s => Batch(s) \in Batches

Typed == TypeOK /\ Shape

LEMMA IdleIsTyped == Idle \in SessionType
BY DEF Idle, SessionType, PCs, Lanes, NoBlock

LEMMA BecomesTyped ==
  ASSUME session \in [Sessions -> SessionType], NEW s \in Sessions, NEW r \in SessionType,
         Becomes(s, r)
  PROVE  /\ session' \in [Sessions -> SessionType]
         /\ session'[s] = r
         /\ \A t \in Sessions : t # s => session'[t] = session[t]
BY DEF Becomes

\* What a step of session s has to show of s alone to keep the types and the shape.
ShapeOf(s, r, l) ==
  /\ r.pc \in {"live", "history"} => l = s
  /\ l = s => r.lane # "base" /\ r.pc \in {"live", "history", "walk", "insert"}
  /\ r.pc = "track" => r.lane = "base"
  /\ r.lane = "base" => r.first <= r.last
  /\ r.pc # "idle" /\ l # s => [lane |-> r.lane, first |-> r.first, last |-> r.last] \in Batches
  /\ r.dirty => r.lane = "base" /\ r.pc \in {"load", "walk", "insert"}

\* The part of TypeOK that is not about sessions and the lock.
StoreTyped ==
  /\ head \in 1..MaxHead
  /\ checkpoint \in [Lanes -> Cursor]
  /\ rows \subseteq Transfers
  /\ owed \subseteq Batches
  /\ pushes \in 0..MaxPushes /\ faults \in 0..MaxFaults
  /\ origin \in [Lanes -> Cursor]
  /\ passed \in [Lanes -> SUBSET Transfers]
  /\ cut \subseteq Transfers

LEMMA StepTyped ==
  ASSUME Typed, NEW s \in Sessions, NEW r \in SessionType, Becomes(s, r),
         StoreTyped', ShapeOf(s, r, lock'),
         lock' = lock \/ (lock' = s /\ lock = NoSession) \/ (lock' = NoSession /\ lock = s)
  PROVE  Typed'
<1>1. session \in [Sessions -> SessionType] /\ lock \in Sessions \cup {NoSession}
  BY DEF Typed, TypeOK
<1>2. /\ session' \in [Sessions -> SessionType] /\ session'[s] = r
      /\ \A t \in Sessions : t # s => session'[t] = session[t]
  BY <1>1, BecomesTyped
<1>3. lock' \in Sessions \cup {NoSession}
  BY <1>1
<1>4. s # NoSession /\ \A t \in Sessions : t # s => (lock' = t <=> lock = t)
  BY BlocksAssumption
<1>5. lock' # NoSession => session'[lock'].pc \in {"live", "history", "walk", "insert"}
  <2>1. CASE lock' = s
    BY <2>1, <1>2 DEF ShapeOf
  <2>2. CASE lock' # s /\ lock' # NoSession
    <3>1. lock' = lock /\ lock \in Sessions /\ session'[lock] = session[lock]
      BY <2>2, <1>1, <1>2, <1>3, <1>4
    <3> QED BY <3>1, <2>2 DEF Typed, TypeOK
  <2> QED BY <2>1, <2>2
<1>6. \A t \in Sessions : session'[t].dirty =>
        session'[t].lane = "base" /\ session'[t].pc \in {"load", "walk", "insert"}
  BY <1>2 DEF Typed, TypeOK, ShapeOf
<1>7. TypeOK'
  BY <1>2, <1>3, <1>5, <1>6 DEF TypeOK, StoreTyped, Cursor
<1>8. Shape'
  <2> SUFFICES ASSUME NEW t \in Sessions
               PROVE  /\ session'[t].pc \in {"live", "history"} => lock' = t
                      /\ lock' = t => session'[t].lane # "base"
                      /\ session'[t].pc = "track" => session'[t].lane = "base"
                      /\ session'[t].lane = "base" => session'[t].first <= session'[t].last
                      /\ session'[t].pc # "idle" /\ lock' # t => Batch(t)' \in Batches
    BY DEF Shape
  <2>1. CASE t = s
    BY <2>1, <1>2 DEF ShapeOf, Batch
  <2>2. CASE t # s
    <3>1. session'[t] = session[t] /\ (lock' = t <=> lock = t)
      BY <2>2, <1>2, <1>4
    <3> QED BY <3>1 DEF Typed, Shape, Batch
  <2> QED BY <2>1, <2>2
<1> QED BY <1>7, <1>8 DEF Typed

-----------------------------------------------------------------------------
(* The operators the handlers use. *)

LEMMA WindowsTyped ==
  /\ \A a, c : Window(a, c) \in SUBSET Transfers
  /\ \A s \in Sessions : Gap(s) \in SUBSET Transfers
BY DEF Window, Gap

LEMMA NewProcessedTyped ==
  ASSUME Typed, NEW s \in Sessions
  PROVE  /\ NewProcessed(s) \in Nat
         /\ NewProcessed(s) >= session[s].read /\ NewProcessed(s) >= session[s].last
         /\ NewProcessed(s) = session[s].read \/ NewProcessed(s) = session[s].last
<1>1. session[s].read \in Nat \cup {NoBlock} /\ session[s].last \in Nat
  BY DEF Typed, TypeOK, SessionType
<1>2. \A a \in Nat \cup {NoBlock}, c \in Nat :
        Upper(a, c) \in Nat /\ Upper(a, c) >= a /\ Upper(a, c) >= c
        /\ (Upper(a, c) = a \/ Upper(a, c) = c)
  BY DEF Upper, NoBlock
<1>3. NewProcessed(s) = Upper(session[s].read, session[s].last)
  BY DEF NewProcessed
<1> QED BY <1>1, <1>2, <1>3

LEMMA CommitTyped ==
  ASSUME Typed, NEW s \in Sessions, CommitCursor(s)
  PROVE  /\ checkpoint' \in [Lanes -> Cursor] /\ origin' \in [Lanes -> Cursor]
         /\ passed' \in [Lanes -> SUBSET Transfers] /\ cut' \subseteq Transfers
<1>1. /\ checkpoint \in [Lanes -> Cursor] /\ origin \in [Lanes -> Cursor]
      /\ passed \in [Lanes -> SUBSET Transfers] /\ cut \subseteq Transfers
  BY DEF Typed, TypeOK, Cursor
<1>2. CASE ~session[s].dirty
  BY <1>1, <1>2 DEF CommitCursor
<1>3. CASE session[s].dirty
  <2>1. NewProcessed(s) \in Cursor /\ session[s].first \in Cursor
    BY NewProcessedTyped DEF Typed, TypeOK, SessionType, Cursor
  <2>2. Truncated(s) \subseteq Transfers /\ UnseenGap(s) \subseteq Transfers
    BY DEF Truncated, UnseenGap, Jumped, Window
  <2>3. checkpoint' \in [Lanes -> Cursor]
    BY <1>1, <1>3, <2>1 DEF CommitCursor
  <2>4. origin' \in [Lanes -> Cursor]
    BY <1>1, <1>3, <2>1 DEF CommitCursor, BeginsAt
  <2>5. passed' \in [Lanes -> SUBSET Transfers] /\ cut' \subseteq Transfers
    BY <1>1, <1>3, <2>2 DEF CommitCursor
  <2> QED BY <2>3, <2>4, <2>5
<1> QED BY <1>2, <1>3

LEMMA FaultTyped == Typed /\ Fault => faults' \in 0..MaxFaults
BY BlocksAssumption DEF Typed, TypeOK, Fault

LEMMA LiveWindowTyped ==
  ASSUME Typed
  PROVE  /\ SafeHead \in Nat /\ LiveStart \in Nat
         /\ LiveEnd \in Int /\ LiveEnd <= SafeHead
         /\ ~CaughtUp(LiveStart, SafeHead) => LiveStart <= LiveEnd /\ LiveEnd \in Nat
<1>1. head \in Nat /\ Confirmations \in Nat /\ PerTick \in Nat \ {0}
      /\ checkpoint["live"] \in Nat \cup {NoBlock}
  BY BlocksAssumption DEF Typed, TypeOK, Lanes
<1>2. SafeHead \in Nat
  BY <1>1 DEF SafeHead, Upper
<1>3. LiveStart \in Nat
  BY <1>1, <1>2 DEF LiveStart, Upper, NoBlock
<1>4. /\ LiveEnd \in Int /\ LiveEnd <= SafeHead
      /\ LiveEnd = SafeHead \/ LiveEnd = LiveStart + PerTick - 1
  BY <1>1, <1>2, <1>3 DEF LiveEnd, Lower
<1> QED BY <1>1, <1>2, <1>3, <1>4 DEF CaughtUp

LEMMA BackfillEndTyped ==
  ASSUME Typed, NEW s \in Sessions
  PROVE  checkpoint["backfill"] \in Cursor /\ BackfillEnd(s) \in Int
<1>1. checkpoint["backfill"] \in Cursor /\ session[s].bound \in Cursor /\ BackfillPerTick \in Nat
  BY BlocksAssumption DEF Typed, TypeOK, SessionType, Lanes, Cursor
<1> QED BY <1>1 DEF BackfillEnd, Lower, Cursor, NoBlock

-----------------------------------------------------------------------------
(* Every step keeps the types and the shape. *)

\* The fields of a session, for the provers.
LEMMA SessionFields ==
  ASSUME Typed, NEW s \in Sessions
  PROVE  /\ session[s] \in SessionType
         /\ session[s].pc \in PCs /\ session[s].lane \in Lanes
         /\ session[s].first \in Nat /\ session[s].last \in Nat
         /\ session[s].read \in Cursor /\ session[s].left \subseteq Transfers
         /\ session[s].dirty \in BOOLEAN /\ session[s].bound \in Cursor
         /\ ShapeOf(s, session[s], lock)
<1>1. session[s] \in SessionType
  BY DEF Typed, TypeOK
<1>2. ShapeOf(s, session[s], lock)
  BY BlocksAssumption DEF Typed, TypeOK, Shape, ShapeOf, Batch
<1> QED BY <1>1, <1>2 DEF SessionType, Cursor

LEMMA FinishTyped ==
  ASSUME Typed, NEW s \in Sessions, Finish(s), StoreTyped'
  PROVE  Typed'
<1>1. ShapeOf(s, Idle, lock')
  BY BlocksAssumption DEF ShapeOf, Idle, Finish, Released
<1>2. lock' = lock \/ (lock' = NoSession /\ lock = s)
  BY DEF Finish, Released
<1> QED BY <1>1, <1>2, IdleIsTyped, StepTyped DEF Finish

LEMMA MineTyped == Typed /\ Mine => Typed'
BY BlocksAssumption DEF Typed, TypeOK, Shape, Mine, Batch

LEMMA ReceiveTyped ==
  ASSUME Typed, NEW s \in Sessions, NEW b \in Batches, Receive(s, b)
  PROVE  Typed'
<1> DEFINE r == [Idle EXCEPT !.pc = IF b.lane = "base" THEN "track" ELSE "load",
                             !.lane = b.lane, !.first = b.first, !.last = b.last,
                             !.read = IF b.lane = "base" THEN checkpoint["base"] ELSE NoBlock,
                             !.left = Window(b.first, b.last)]
<1>1. b.lane \in Lanes /\ b.first \in Nat /\ b.last \in Nat /\ checkpoint["base"] \in Cursor
  BY BlocksAssumption DEF Batches, Typed, TypeOK, Lanes, Cursor
<1>2. r \in SessionType
  BY <1>1, WindowsTyped DEF SessionType, Idle, PCs, Cursor
<1>3. lock # s
  BY SessionFields DEF Receive, ShapeOf
<1>4. ShapeOf(s, r, lock')
  BY <1>1, <1>3 DEF ShapeOf, Receive, Idle, Batches
<1>5. StoreTyped'
  BY BlocksAssumption DEF Receive, Typed, TypeOK, StoreTyped, Cursor
<1> QED BY <1>2, <1>4, <1>5, StepTyped DEF Receive

LEMMA TrackTyped ==
  ASSUME Typed, NEW s \in Sessions, Track(s)
  PROVE  Typed'
<1> DEFINE r == [session[s] EXCEPT !.pc = "load", !.dirty = TRUE, !.left = @ \cup Gap(s)]
<1>1. r \in SessionType
  BY SessionFields, WindowsTyped DEF SessionType, PCs
<1>2. ShapeOf(s, r, lock')
  BY SessionFields DEF ShapeOf, Track, SessionType
<1>3. StoreTyped'
  BY DEF Track, Typed, TypeOK, StoreTyped, Cursor
<1> QED BY <1>1, <1>2, <1>3, StepTyped DEF Track

LEMMA TrackFailsTyped ==
  ASSUME Typed, NEW s \in Sessions, TrackFails(s)
  PROVE  Typed'
<1> DEFINE r == [session[s] EXCEPT !.pc = "load"]
<1>1. r \in SessionType
  BY SessionFields DEF SessionType, PCs
<1>2. ShapeOf(s, r, lock')
  BY SessionFields DEF ShapeOf, TrackFails, SessionType
<1>3. StoreTyped'
  BY FaultTyped DEF TrackFails, Typed, TypeOK, StoreTyped, Cursor
<1> QED BY <1>1, <1>2, <1>3, StepTyped DEF TrackFails

LEMMA LoadTargetsTyped ==
  ASSUME Typed, NEW s \in Sessions, LoadTargets(s)
  PROVE  Typed'
<1> DEFINE r == [session[s] EXCEPT !.pc = "walk"]
<1>1. r \in SessionType
  BY SessionFields DEF SessionType, PCs
<1>2. ShapeOf(s, r, lock')
  BY SessionFields DEF ShapeOf, LoadTargets, SessionType
<1>3. StoreTyped'
  BY DEF LoadTargets, Typed, TypeOK, StoreTyped, Cursor
<1> QED BY <1>1, <1>2, <1>3, StepTyped DEF LoadTargets

LEMMA Moved ==
  ASSUME Typed, NEW s \in Sessions, NEW r, Becomes(s, r)
  PROVE  session'[s] = r /\ \A t \in Sessions : t # s => session'[t] = session[t]
BY DEF Becomes, Typed, TypeOK

GapLeft(s) == {b \in session[s].left : b < session[s].first}

LEMMA ClientFields ==
  ASSUME Typed, NEW s \in Sessions, NoClient(s)
  PROVE  /\ session[s].pc = "load" /\ session'[s].pc = "walk"
         /\ session'[s].left = session[s].left \ GapLeft(s)
         /\ session'[s].lane = session[s].lane /\ session'[s].first = session[s].first
         /\ session'[s].last = session[s].last /\ session'[s].snaps = session[s].snaps
         /\ session'[s].read = session[s].read /\ session'[s].dirty = session[s].dirty
         /\ \A t \in Sessions : t # s => session'[t] = session[t]
         /\ passed' = [passed EXCEPT ![session[s].lane] = @ \cup GapLeft(s)]
         /\ GapLeft(s) \subseteq Transfers
<1> DEFINE r == [session[s] EXCEPT !.pc = "walk", !.left = @ \ GapLeft(s)]
<1>1. /\ session'[s] = r /\ \A t \in Sessions : t # s => session'[t] = session[t]
      /\ session[s].pc = "load"
      /\ passed' = [passed EXCEPT ![session[s].lane] = @ \cup GapLeft(s)]
  BY Moved DEF NoClient, GapLeft
<1>2. /\ r.pc = "walk" /\ r.left = session[s].left \ GapLeft(s)
      /\ r.lane = session[s].lane /\ r.first = session[s].first
      /\ r.last = session[s].last /\ r.snaps = session[s].snaps
      /\ r.read = session[s].read /\ r.dirty = session[s].dirty
  BY SessionFields DEF SessionType
<1>3. GapLeft(s) \subseteq Transfers
  BY SessionFields DEF SessionType, GapLeft
<1> QED BY <1>1, <1>2, <1>3

LEMMA NoClientTyped ==
  ASSUME Typed, NEW s \in Sessions, NoClient(s)
  PROVE  Typed'
<1> DEFINE r == [session[s] EXCEPT !.pc = "walk", !.left = @ \ GapLeft(s)]
<1>1. r \in SessionType
  BY SessionFields DEF SessionType, PCs
<1>2. ShapeOf(s, r, lock') /\ lock' = lock /\ Becomes(s, r)
  BY SessionFields DEF ShapeOf, NoClient, SessionType, GapLeft
<1>3. passed' \in [Lanes -> SUBSET Transfers]
  <2>1. passed \in [Lanes -> SUBSET Transfers] /\ GapLeft(s) \subseteq Transfers
    BY SessionFields DEF Typed, TypeOK, SessionType, GapLeft
  <2>2. passed' = [passed EXCEPT ![session[s].lane] = @ \cup GapLeft(s)]
    BY DEF NoClient, GapLeft
  <2> QED BY <2>1, <2>2
<1>4. StoreTyped'
  BY <1>3 DEF NoClient, Typed, TypeOK, StoreTyped, Cursor
<1> QED BY <1>1, <1>2, <1>4, StepTyped

LEMMA LoadFailsTyped ==
  ASSUME Typed, NEW s \in Sessions, LoadFails(s)
  PROVE  Typed'
<1>1. StoreTyped'
  <2>1. cut' \subseteq Transfers
    BY DEF LoadFails, Typed, TypeOK, Window
  <2> QED BY <2>1, FaultTyped DEF LoadFails, Typed, TypeOK, StoreTyped, Cursor
<1> QED BY <1>1, FinishTyped DEF LoadFails

LEMMA AnswerTyped ==
  ASSUME Typed, NEW s \in Sessions, Answer(s)
  PROVE  Typed'
<1>1. StoreTyped'
  BY CommitTyped DEF Answer, Typed, TypeOK, StoreTyped
<1> QED BY <1>1, FinishTyped DEF Answer

LEMMA SeedTyped == Typed => SeedCursor \in Cursor
BY BlocksAssumption DEF Typed, TypeOK, SeedCursor, Cursor, Upper, NoBlock, Lanes

LEMMA StartTickTyped ==
  ASSUME Typed, NEW s \in Sessions, StartTick(s)
  PROVE  Typed'
<1> DEFINE r == [Idle EXCEPT !.pc = "live"]
<1>1. r \in SessionType
  BY IdleIsTyped DEF SessionType, PCs
<1>2. ShapeOf(s, r, lock')
  BY DEF ShapeOf, StartTick, Idle
<1>3. checkpoint' \in [Lanes -> Cursor] /\ origin' \in [Lanes -> Cursor]
  <2>1. checkpoint \in [Lanes -> Cursor] /\ origin \in [Lanes -> Cursor] /\ SeedCursor \in Cursor
    BY SeedTyped DEF Typed, TypeOK, Cursor
  <2>2. SeedCursor # NoBlock => SeedCursor + 1 \in Cursor
    BY <2>1 DEF Cursor
  <2> QED BY <2>1, <2>2 DEF StartTick, BeginsAt
<1>4. StoreTyped'
  BY <1>3 DEF StartTick, Typed, TypeOK, StoreTyped
<1> QED BY <1>1, <1>2, <1>4, StepTyped DEF StartTick

LEMMA RunLiveTipTyped ==
  ASSUME Typed, NEW s \in Sessions, RunLiveTip(s)
  PROVE  Typed'
<1>1. StoreTyped' /\ lock' = lock
  BY DEF RunLiveTip, Typed, TypeOK, StoreTyped, Cursor
<1>2. checkpoint["live"] \in Cursor /\ lock = s
  BY SessionFields DEF Typed, TypeOK, Cursor, Lanes, RunLiveTip, ShapeOf
<1>3. CASE CaughtUp(LiveStart, SafeHead)
  <2> DEFINE r == [session[s] EXCEPT !.pc = "history", !.bound = checkpoint["live"]]
  <2>1. r \in SessionType
    BY <1>2, SessionFields DEF SessionType, PCs, Cursor
  <2>2. ShapeOf(s, r, lock')
    BY <1>1, <1>2, SessionFields DEF ShapeOf, RunLiveTip, SessionType
  <2> QED BY <1>1, <1>3, <2>1, <2>2, StepTyped DEF RunLiveTip
<1>4. CASE ~CaughtUp(LiveStart, SafeHead)
  <2> DEFINE r == [session[s] EXCEPT !.pc = "walk", !.lane = "live",
                     !.first = LiveStart, !.last = LiveEnd, !.left = Window(LiveStart, LiveEnd),
                     !.snaps = (checkpoint["live"] = NoBlock \/ Stale)]
  <2>1. LiveStart \in Nat /\ LiveEnd \in Nat /\ Window(LiveStart, LiveEnd) \in SUBSET Transfers
    BY <1>4, LiveWindowTyped, WindowsTyped
  <2>2. (checkpoint["live"] = NoBlock \/ Stale) \in BOOLEAN
    BY DEF Stale
  <2>3. r \in SessionType
    BY <2>1, <2>2, SessionFields DEF SessionType, PCs, Lanes
  <2>4. ShapeOf(s, r, lock')
    <3>1. ~session[s].dirty
      BY SessionFields DEF ShapeOf, RunLiveTip
    <3>2. r.pc = "walk" /\ r.lane = "live" /\ ~r.dirty
      BY <3>1, SessionFields DEF SessionType
    <3> QED BY <1>1, <1>2, <3>2 DEF ShapeOf
  <2> QED BY <1>1, <1>4, <2>3, <2>4, StepTyped DEF RunLiveTip
<1> QED BY <1>3, <1>4

LEMMA HeadUnknownTyped ==
  ASSUME Typed, NEW s \in Sessions, HeadUnknown(s)
  PROVE  Typed'
<1> DEFINE r == [session[s] EXCEPT !.pc = "history", !.bound = checkpoint["live"]]
<1>1. StoreTyped' /\ lock' = lock
  BY FaultTyped DEF HeadUnknown, Typed, TypeOK, StoreTyped, Cursor
<1>2. checkpoint["live"] \in Cursor /\ lock = s
  BY SessionFields DEF Typed, TypeOK, Cursor, Lanes, HeadUnknown, ShapeOf
<1>3. r \in SessionType
  BY <1>2, SessionFields DEF SessionType, PCs, Cursor
<1>4. ShapeOf(s, r, lock')
  BY <1>1, <1>2, SessionFields DEF ShapeOf, HeadUnknown, SessionType
<1> QED BY <1>1, <1>3, <1>4, StepTyped DEF HeadUnknown

LEMMA RunBackfillTyped ==
  ASSUME Typed, NEW s \in Sessions, RunBackfill(s)
  PROVE  Typed'
<1>1. StoreTyped'
  BY DEF RunBackfill, Typed, TypeOK, StoreTyped, Cursor
<1>2. CASE checkpoint["backfill"] = NoBlock \/ checkpoint["backfill"] + 1 > BackfillEnd(s)
  BY <1>1, <1>2, FinishTyped DEF RunBackfill
<1>3. CASE ~(checkpoint["backfill"] = NoBlock \/ checkpoint["backfill"] + 1 > BackfillEnd(s))
  <2> DEFINE start == checkpoint["backfill"] + 1
             r == [session[s] EXCEPT !.pc = "walk", !.lane = "backfill",
                     !.first = start, !.last = BackfillEnd(s),
                     !.left = Window(start, BackfillEnd(s)), !.snaps = FALSE]
  <2>1. start \in Nat /\ BackfillEnd(s) \in Nat
    BY <1>3, BackfillEndTyped DEF Cursor, NoBlock
  <2>2. Window(start, BackfillEnd(s)) \in SUBSET Transfers
    BY WindowsTyped
  <2>3. r \in SessionType
    BY <2>1, <2>2, SessionFields DEF SessionType, PCs, Lanes
  <2>4. lock = s /\ lock' = lock /\ ~session[s].dirty /\ Becomes(s, r)
    BY <1>3, SessionFields DEF RunBackfill, ShapeOf
  <2>5. ShapeOf(s, r, lock')
    <3>1. r.pc = "walk" /\ r.lane = "backfill" /\ ~r.dirty
      BY <2>4, SessionFields DEF SessionType
    <3> QED BY <2>4, <3>1 DEF ShapeOf
  <2> QED BY <1>1, <2>3, <2>4, <2>5, StepTyped
<1> QED BY <1>2, <1>3

LEMMA DropTyped ==
  ASSUME Typed, NEW s \in Sessions, NEW b, session[s].pc = "walk", Drop(s, b),
         StoreTyped', lock' = lock
  PROVE  Typed'
<1> DEFINE r == [session[s] EXCEPT !.left = @ \ {b}]
<1>1. r \in SessionType
  BY SessionFields DEF SessionType
<1>2. ShapeOf(s, r, lock')
  BY SessionFields DEF ShapeOf, SessionType
<1> QED BY <1>1, <1>2, StepTyped DEF Drop

LEMMA ScanTyped ==
  ASSUME Typed, NEW s \in Sessions, Scan(s)
  PROVE  Typed'
<1>1. session[s].pc = "walk" /\ lock' = lock
  BY DEF Scan
<1>2. StoreTyped'
  BY DEF Scan, Typed, TypeOK, StoreTyped, Cursor
<1>3. CASE \E b : Drop(s, b)
  BY <1>1, <1>2, <1>3, DropTyped
<1>4. CASE Becomes(s, [session[s] EXCEPT !.pc = "insert"])
  <2> DEFINE r == [session[s] EXCEPT !.pc = "insert"]
  <2>1. r \in SessionType
    BY SessionFields DEF SessionType, PCs
  <2>2. ShapeOf(s, r, lock')
    BY <1>1, SessionFields DEF ShapeOf, SessionType
  <2> QED BY <1>1, <1>2, <1>4, <2>1, <2>2, StepTyped
<1> QED BY <1>3, <1>4 DEF Scan

LEMMA FetchFailsTyped ==
  ASSUME Typed, NEW s \in Sessions, FetchFails(s)
  PROVE  Typed'
<1>1. PICK b \in Transfers :
        /\ passed' = [passed EXCEPT ![session[s].lane] = @ \cup {b}]
        /\ Drop(s, b)
  BY DEF FetchFails
<1>2. /\ session[s].pc = "walk" /\ Fault
      /\ UNCHANGED <<head, checkpoint, rows, lock, owed, pushes, origin, cut>>
  BY DEF FetchFails
<1>3. faults' \in 0..MaxFaults
  BY <1>2, FaultTyped
<1>4. passed' \in [Lanes -> SUBSET Transfers]
  <2>1. passed \in [Lanes -> SUBSET Transfers]
    BY DEF Typed, TypeOK
  <2> QED BY <1>1, <2>1
<1>5. StoreTyped'
  BY <1>2, <1>3, <1>4 DEF Typed, TypeOK, StoreTyped, Cursor
<1> QED BY <1>1, <1>2, <1>5, DropTyped

LEMMA InsertTyped ==
  ASSUME Typed, NEW s \in Sessions, Insert(s)
  PROVE  Typed'
<1>1. PICK b \in Transfers :
        /\ rows' = rows \cup {b}
        /\ Becomes(s, [session[s] EXCEPT !.pc = "walk", !.dirty = FALSE, !.left = @ \ {b}])
  BY DEF Insert
<1> DEFINE r == [session[s] EXCEPT !.pc = "walk", !.dirty = FALSE, !.left = @ \ {b}]
<1>2. r \in SessionType
  BY SessionFields DEF SessionType, PCs
<1>3. ShapeOf(s, r, lock')
  BY SessionFields DEF ShapeOf, Insert, SessionType
<1>4. StoreTyped'
  BY <1>1, CommitTyped DEF Insert, Typed, TypeOK, StoreTyped
<1> QED BY <1>1, <1>2, <1>3, <1>4, StepTyped DEF Insert

LEMMA AdvanceTyped ==
  ASSUME Typed, NEW s \in Sessions, AdvanceLane(s)
  PROVE  Typed'
<1> DEFINE l == session[s].lane
<1>1. /\ l \in Lanes /\ l # "base" /\ session[s].first \in Cursor /\ session[s].last \in Nat
      /\ session[s].pc = "walk" /\ ~session[s].dirty
  BY SessionFields DEF AdvanceLane, ShapeOf, Cursor
<1>2. checkpoint \in [Lanes -> Cursor] /\ origin \in [Lanes -> Cursor]
  BY DEF Typed, TypeOK, Cursor
<1>3. checkpoint' \in [Lanes -> Cursor]
  <2>1. Advanced(l, session[s].last) \in Cursor
    BY <1>1, <1>2 DEF Advanced, Upper, Cursor
  <2> QED BY <1>2, <2>1 DEF AdvanceLane
<1>4. origin' \in [Lanes -> Cursor]
  BY <1>1, <1>2 DEF AdvanceLane, BeginsAt
<1>5. passed' \in [Lanes -> SUBSET Transfers]
  BY DEF AdvanceLane, Typed, TypeOK, Jumped, Window
<1>6. StoreTyped'
  BY <1>3, <1>4, <1>5 DEF AdvanceLane, Typed, TypeOK, StoreTyped
<1>7. CASE ~Pushed(s) /\ l = "live"
  <2> DEFINE r == [session[s] EXCEPT !.pc = "history", !.bound = session[s].last]
  <2>1. r \in SessionType
    BY <1>1, SessionFields DEF SessionType, PCs
  <2>2. lock = s /\ lock' = lock
    BY <1>7 DEF AdvanceLane, Pushed
  <2>3. r.pc = "history" /\ r.lane = l /\ ~r.dirty
    BY <1>1, SessionFields DEF SessionType
  <2>4. ShapeOf(s, r, lock')
    BY <1>1, <2>2, <2>3 DEF ShapeOf
  <2> QED BY <1>6, <1>7, <2>1, <2>2, <2>4, StepTyped DEF AdvanceLane
<1>8. CASE ~(~Pushed(s) /\ l = "live")
  BY <1>6, <1>8, FinishTyped DEF AdvanceLane
<1> QED BY <1>7, <1>8

LEMMA AbortTyped ==
  ASSUME Typed, NEW s \in Sessions, Abort(s)
  PROVE  Typed'
<1>1. cut' \subseteq Transfers
  BY SessionFields DEF Abort, Typed, TypeOK
<1>2. Pushed(s) => Batch(s) \in Batches
  BY DEF Abort, Typed, Shape, Pushed
<1>3. StoreTyped'
  BY <1>1, <1>2, FaultTyped DEF Abort, Typed, TypeOK, StoreTyped, Cursor
<1> QED BY <1>3, FinishTyped DEF Abort

LEMMA TypedStep == Typed /\ [Next]_vars => Typed'
<1> SUFFICES ASSUME Typed, [Next]_vars PROVE Typed'
  OBVIOUS
<1>1. CASE Mine
  BY <1>1, MineTyped
<1>2. CASE \E s \in Sessions, b \in Batches : Receive(s, b)
  BY <1>2, ReceiveTyped
<1>3. CASE \E s \in Sessions : StartTick(s)
  BY <1>3, StartTickTyped
<1>4. CASE \E s \in Sessions : Step(s)
  BY <1>4, TrackTyped, LoadTargetsTyped, AnswerTyped, RunLiveTipTyped, RunBackfillTyped,
     ScanTyped, InsertTyped, AdvanceTyped DEF Step
<1>5. CASE \E s \in Sessions : Fails(s)
  BY <1>5, TrackFailsTyped, NoClientTyped, LoadFailsTyped, HeadUnknownTyped, FetchFailsTyped,
     AbortTyped DEF Fails
<1>6. CASE UNCHANGED vars
  BY <1>6 DEF vars, Typed, TypeOK, Shape, Batch
<1> QED BY <1>1, <1>2, <1>3, <1>4, <1>5, <1>6 DEF Next

LEMMA TypedInit == Init => Typed
<1> SUFFICES ASSUME Init PROVE Typed
  OBVIOUS
<1>1. \A s \in Sessions : session[s] = Idle /\ lock # s
  BY BlocksAssumption DEF Init
<1>2. session \in [Sessions -> SessionType]
  BY IdleIsTyped DEF Init
<1>3. TypeOK
  BY <1>1, <1>2, BlocksAssumption DEF Init, TypeOK, Idle, NoBlock
<1>4. Shape
  <2>1. Idle.pc = "idle" /\ Idle.lane = "live"
    BY DEF Idle
  <2> QED BY <1>1, <2>1 DEF Shape
<1> QED BY <1>3, <1>4 DEF Typed

\* Every variable stays in its domain, the advisory lock is held only by a tick that
\* is under way, and only a handler of the delivery lane holds an uncommitted cursor,
\* whatever dies, fails or is delivered again (run_one_tick,
\* process_quicknode_base_stream_webhook).
THEOREM TypeCorrect == Spec => []TypeOK
<1>1. Spec => []Typed
  BY TypedInit, TypedStep, PTL DEF Spec
<1>2. Typed => TypeOK
  BY DEF Typed
<1> QED BY <1>1, <1>2, PTL

-----------------------------------------------------------------------------
(* The cursors of the live and backfill lanes never move back. *)

LEMMA Monotone ==
  ASSUME Typed, [Next]_vars, NEW l \in {"live", "backfill"}
  PROVE  checkpoint'[l] >= checkpoint[l]
<1>1. checkpoint \in [Lanes -> Cursor] /\ checkpoint[l] \in Cursor /\ l \in Lanes /\ l # "base"
  BY DEF Typed, TypeOK, Lanes, Cursor
<1>2. CASE checkpoint' = checkpoint
  BY <1>1, <1>2 DEF Cursor, NoBlock
<1>3. CASE \E s \in Sessions : CommitCursor(s)
  <2>1. checkpoint'[l] = checkpoint[l]
    BY <1>1, <1>3 DEF CommitCursor
  <2> QED BY <1>1, <2>1 DEF Cursor, NoBlock
<1>4. CASE \E s \in Sessions : StartTick(s)
  <2>1. checkpoint'[l] = checkpoint[l] \/ (checkpoint[l] = NoBlock /\ checkpoint'[l] = SeedCursor)
    BY <1>1, <1>4 DEF StartTick
  <2> QED BY <1>1, <2>1, SeedTyped DEF Cursor, NoBlock
<1>5. ASSUME NEW s \in Sessions, AdvanceLane(s)
      PROVE  checkpoint'[l] >= checkpoint[l]
  <2>1. session[s].last \in Int /\ checkpoint[l] \in Int
    BY <1>1, SessionFields DEF Cursor, NoBlock
  <2>2. checkpoint'[l] = checkpoint[l] \/ checkpoint'[l] = Upper(checkpoint[l], session[s].last)
    BY <1>1, <1>5 DEF AdvanceLane, Advanced
  <2> QED BY <2>1, <2>2 DEF Upper
<1>6. CASE Mine \/ UNCHANGED vars
  BY <1>2, <1>6 DEF Mine, vars
<1>7. CASE \E s \in Sessions, b \in Batches : Receive(s, b)
  BY <1>2, <1>7 DEF Receive
<1>8. CASE \E s \in Sessions : Step(s)
  BY <1>2, <1>3, <1>5, <1>8
  DEF Step, Track, LoadTargets, Answer, RunLiveTip, RunBackfill, Scan, Insert
<1>9. CASE \E s \in Sessions : Fails(s)
  BY <1>2, <1>9 DEF Fails, TrackFails, NoClient, LoadFails, HeadUnknown, FetchFails, Abort
<1> QED BY <1>4, <1>6, <1>7, <1>8, <1>9 DEF Next

\* "never regresses" (_advance_lane_checkpoint): no interleaving of ticks and pushed
\* batches, each writing from its own earlier read, takes the live or the backfill
\* cursor back.
THEOREM CursorsOnlyAdvance == Spec => LanesNeverRegress
<1>1. Typed /\ [Next]_vars
      => [\A l \in {"live", "backfill"} : checkpoint'[l] >= checkpoint[l]]_checkpoint
  BY Monotone
<1>2. Spec => []Typed
  BY TypedInit, TypedStep, PTL DEF Spec
<1> QED BY <1>1, <1>2, PTL DEF Spec, LanesNeverRegress

-----------------------------------------------------------------------------
(* A cursor of the live or backfill lane stands for work done.              *)
(* The argument: a session that works for one of these lanes has recorded,  *)
(* passed or still holds every transfer between its first and last block,   *)
(* and the window of a tick that does not snap joins the lane's cursor.     *)

WorkOf(s) ==
  session[s].pc \in {"load", "walk", "insert"} /\ session[s].lane # "base" =>
    /\ Window(session[s].first, session[s].last)
         \subseteq rows \cup passed[session[s].lane] \cup session[s].left
    /\ lock = s /\ ~session[s].snaps =>
         /\ checkpoint[session[s].lane] # NoBlock
         /\ session[s].first <= checkpoint[session[s].lane] + 1

Backed == CursorsAreBacked /\ \A s \in Sessions : WorkOf(s)

\* Rows and histories only grow.
LEMMA Grows ==
  ASSUME Typed, [Next]_vars
  PROVE  /\ rows \subseteq rows' /\ cut \subseteq cut'
         /\ \A l \in Lanes : passed[l] \subseteq passed'[l]
<1>1. passed \in [Lanes -> SUBSET Transfers]
  BY DEF Typed, TypeOK
<1>2. CASE UNCHANGED <<rows, passed, cut>>
  BY <1>2
<1>3. ASSUME NEW s \in Sessions, CommitCursor(s)
      PROVE  cut \subseteq cut' /\ \A l \in Lanes : passed[l] \subseteq passed'[l]
  BY <1>1, <1>3 DEF CommitCursor
<1>4. CASE Mine \/ UNCHANGED vars \/ \E s \in Sessions : StartTick(s)
  BY <1>2, <1>4 DEF Mine, vars, StartTick
<1>5. CASE \E s \in Sessions, b \in Batches : Receive(s, b)
  BY <1>2, <1>5 DEF Receive
<1>6. ASSUME NEW s \in Sessions, Step(s)
      PROVE  /\ rows \subseteq rows' /\ cut \subseteq cut'
             /\ \A l \in Lanes : passed[l] \subseteq passed'[l]
  <2>1. CASE Track(s) \/ LoadTargets(s) \/ RunLiveTip(s) \/ RunBackfill(s)
    BY <1>2, <2>1 DEF Track, LoadTargets, RunLiveTip, RunBackfill
  <2>2. CASE Answer(s)
    BY <1>3, <2>2 DEF Answer
  <2>3. CASE Insert(s)
    BY <1>3, <2>3 DEF Insert
  <2>4. CASE Scan(s)
    <3>1. UNCHANGED <<rows, cut>>
      BY <2>4 DEF Scan
    <3>2. passed' = passed \/ \E b : passed' = [passed EXCEPT ![session[s].lane] = @ \cup {b}]
      BY <2>4 DEF Scan
    <3> QED BY <1>1, <3>1, <3>2
  <2>5. CASE AdvanceLane(s)
    <3>1. UNCHANGED <<rows, cut>>
      BY <2>5 DEF AdvanceLane
    <3>2. \E S : passed' = [passed EXCEPT ![session[s].lane] = @ \cup S]
      BY <2>5 DEF AdvanceLane
    <3> QED BY <1>1, <3>1, <3>2
  <2> QED BY <1>6, <2>1, <2>2, <2>3, <2>4, <2>5 DEF Step
<1>7. ASSUME NEW s \in Sessions, Fails(s)
      PROVE  /\ rows \subseteq rows' /\ cut \subseteq cut'
             /\ \A l \in Lanes : passed[l] \subseteq passed'[l]
  <2>1. CASE TrackFails(s) \/ HeadUnknown(s)
    BY <1>2, <2>1 DEF TrackFails, HeadUnknown
  <2>2. CASE LoadFails(s) \/ Abort(s)
    BY <2>2 DEF LoadFails, Abort
  <2>3. CASE FetchFails(s)
    <3>1. UNCHANGED <<rows, cut>>
      BY <2>3 DEF FetchFails
    <3>2. \E b : passed' = [passed EXCEPT ![session[s].lane] = @ \cup {b}]
      BY <2>3 DEF FetchFails
    <3> QED BY <1>1, <3>1, <3>2
  <2>4. CASE NoClient(s)
    <3>1. UNCHANGED <<rows, cut>>
      BY <2>4 DEF NoClient
    <3> QED BY <1>1, <2>4, <3>1, ClientFields
  <2> QED BY <1>7, <2>1, <2>2, <2>3, <2>4 DEF Fails
<1> QED BY <1>4, <1>5, <1>6, <1>7 DEF Next

\* What the sessions that do not move keep.
LEMMA OthersWork ==
  ASSUME Typed, [Next]_vars, NEW t \in Sessions, WorkOf(t),
         session'[t] = session[t], lock' = t => lock = t
  PROVE  WorkOf(t)'
<1> SUFFICES ASSUME session[t].pc \in {"load", "walk", "insert"}, session[t].lane # "base"
             PROVE  /\ Window(session[t].first, session[t].last)
                         \subseteq rows' \cup passed'[session[t].lane] \cup session[t].left
                    /\ lock' = t /\ ~session[t].snaps =>
                         /\ checkpoint'[session[t].lane] # NoBlock
                         /\ session[t].first <= checkpoint'[session[t].lane] + 1
  BY DEF WorkOf, Window
<1> DEFINE l == session[t].lane
<1>1. l \in {"live", "backfill"} /\ l \in Lanes /\ session[t].first \in Nat
  BY SessionFields DEF Lanes
<1>2. rows \subseteq rows' /\ passed[l] \subseteq passed'[l]
  BY <1>1, Grows
<1>3. checkpoint[l] \in Cursor /\ checkpoint'[l] \in Cursor /\ checkpoint'[l] >= checkpoint[l]
  BY <1>1, Monotone, TypedStep DEF Typed, TypeOK, Cursor
<1>4. WorkOf(t)
  OBVIOUS
<1>5. Window(session[t].first, session[t].last)
        \subseteq rows' \cup passed'[l] \cup session[t].left
  BY <1>2, <1>4 DEF WorkOf
<1>6. lock' = t /\ ~session[t].snaps =>
        checkpoint'[l] # NoBlock /\ session[t].first <= checkpoint'[l] + 1
  BY <1>1, <1>3, <1>4 DEF WorkOf, Cursor, NoBlock
<1> QED BY <1>5, <1>6

\* Nothing but a tick's first step and the end of a lane's walk moves these cursors.
LEMMA CursorsStay ==
  ASSUME Typed, [Next]_vars, CursorsAreBacked,
         \A l \in {"live", "backfill"} : checkpoint'[l] = checkpoint[l] /\ origin'[l] = origin[l]
  PROVE  CursorsAreBacked'
<1> SUFFICES ASSUME NEW l \in {"live", "backfill"}, checkpoint'[l] # NoBlock
             PROVE  Window(origin'[l], checkpoint'[l]) \subseteq rows' \cup passed'[l]
  BY DEF CursorsAreBacked, Window
<1>1. Window(origin[l], checkpoint[l]) \subseteq rows \cup passed[l]
  BY DEF CursorsAreBacked
<1>2. rows \subseteq rows' /\ passed[l] \subseteq passed'[l]
  BY Grows DEF Lanes
<1> QED BY <1>1, <1>2

LEMMA CommitLeavesLanes ==
  ASSUME Typed, NEW s \in Sessions, CommitCursor(s)
  PROVE  \A l \in {"live", "backfill"} : checkpoint'[l] = checkpoint[l] /\ origin'[l] = origin[l]
<1>1. checkpoint \in [Lanes -> Cursor] /\ origin \in [Lanes -> Cursor]
  BY DEF Typed, TypeOK, Cursor
<1> QED BY <1>1 DEF CommitCursor, BeginsAt, Lanes

\* A walk that handles one transfer still accounts for its window.
LEMMA HandledWork ==
  ASSUME Typed, [Next]_vars, NEW s \in Sessions, WorkOf(s), NEW b, NEW p,
         session[s].pc \in {"walk", "insert"}, p \in {"walk", "insert"}, lock' = lock,
         \A l \in {"live", "backfill"} : checkpoint'[l] = checkpoint[l],
         session'[s].pc = p, session'[s].left = session[s].left \ {b},
         session'[s].lane = session[s].lane, session'[s].first = session[s].first,
         session'[s].last = session[s].last, session'[s].snaps = session[s].snaps,
         b \in rows' \cup passed'[session[s].lane]
  PROVE  WorkOf(s)'
<1> SUFFICES ASSUME session[s].lane # "base"
             PROVE  /\ Window(session[s].first, session[s].last)
                         \subseteq rows' \cup passed'[session[s].lane] \cup (session[s].left \ {b})
                    /\ lock' = s /\ ~session[s].snaps =>
                         /\ checkpoint'[session[s].lane] # NoBlock
                         /\ session[s].first <= checkpoint'[session[s].lane] + 1
  BY DEF WorkOf, Window
<1>1. session[s].lane \in {"live", "backfill"} /\ session[s].lane \in Lanes
  BY SessionFields DEF Lanes
<1>2. rows \subseteq rows' /\ passed[session[s].lane] \subseteq passed'[session[s].lane]
  BY <1>1, Grows
<1>3. checkpoint'[session[s].lane] = checkpoint[session[s].lane]
  BY <1>1
<1> QED BY <1>1, <1>2, <1>3 DEF WorkOf

\* The moved session's new record, and that the others keep theirs.
\* A step of s that leaves the lock or frees its own, and accounts for s.
LEMMA BackedBy ==
  ASSUME Typed, [Next]_vars, Backed, NEW s \in Sessions,
         \A t \in Sessions : t # s => session'[t] = session[t],
         \A t \in Sessions : t # s => (lock' = t => lock = t),
         CursorsAreBacked', WorkOf(s)'
  PROVE  Backed'
<1> SUFFICES ASSUME NEW t \in Sessions PROVE WorkOf(t)'
  BY DEF Backed
<1>1. CASE t = s
  BY <1>1
<1>2. CASE t # s
  BY <1>2, OthersWork DEF Backed
<1> QED BY <1>1, <1>2

LEMMA FinishBacked ==
  ASSUME Typed, [Next]_vars, Backed, NEW s \in Sessions, Finish(s), CursorsAreBacked'
  PROVE  Backed'
<1>1. session'[s] = Idle /\ \A t \in Sessions : t # s => session'[t] = session[t]
  BY Moved DEF Finish
<1>2. \A t \in Sessions : t # s => (lock' = t => lock = t)
  BY BlocksAssumption DEF Finish, Released
<1>3. WorkOf(s)'
  BY <1>1 DEF WorkOf, Idle
<1> QED BY <1>1, <1>2, <1>3, BackedBy

LEMMA ReceiveBacked ==
  ASSUME Typed, [Next]_vars, Backed, NEW s \in Sessions, NEW b \in Batches, Receive(s, b)
  PROVE  Backed'
<1> DEFINE r == [Idle EXCEPT !.pc = IF b.lane = "base" THEN "track" ELSE "load",
                             !.lane = b.lane, !.first = b.first, !.last = b.last,
                             !.read = IF b.lane = "base" THEN checkpoint["base"] ELSE NoBlock,
                             !.left = Window(b.first, b.last)]
<1>1. session'[s] = r /\ \A t \in Sessions : t # s => session'[t] = session[t]
  BY Moved DEF Receive
<1>2. r.first = b.first /\ r.last = b.last /\ r.left = Window(b.first, b.last)
  BY DEF Idle
<1>3. lock' = lock /\ lock # s
  BY SessionFields DEF Receive, ShapeOf
<1>4. CursorsAreBacked'
  BY CursorsStay DEF Backed, Receive
<1>5. WorkOf(s)'
  BY <1>1, <1>2, <1>3 DEF WorkOf, Window
<1> QED BY <1>1, <1>3, <1>4, <1>5, BackedBy

LEMMA StartTickBacked ==
  ASSUME Typed, [Next]_vars, Backed, NEW s \in Sessions, StartTick(s)
  PROVE  Backed'
<1>1. /\ session'[s].pc = "live"
      /\ \A t \in Sessions : t # s => session'[t] = session[t]
  BY Moved DEF StartTick, Idle
<1>2. \A t \in Sessions : t # s => (lock' = t => lock = t)
  BY DEF StartTick
<1>3. WorkOf(s)'
  BY <1>1 DEF WorkOf
<1>4. CursorsAreBacked'
  <2>1. checkpoint \in [Lanes -> Cursor] /\ origin \in [Lanes -> Cursor] /\ SeedCursor \in Cursor
    BY SeedTyped DEF Typed, TypeOK, Cursor
  <2>2. CASE checkpoint["backfill"] = NoBlock /\ SeedCursor # NoBlock
    <3>1. /\ checkpoint'["live"] = checkpoint["live"] /\ origin'["live"] = origin["live"]
          /\ checkpoint'["backfill"] = SeedCursor /\ origin'["backfill"] = SeedCursor + 1
      BY <2>1, <2>2 DEF StartTick, BeginsAt, Lanes
    <3>2. Window(SeedCursor + 1, SeedCursor) = {}
      <4>1. SeedCursor \in Int /\ SeedCursor + 1 \in Int
        BY <2>1 DEF Cursor, NoBlock
      <4>2. \A b : b \notin Window(SeedCursor + 1, SeedCursor)
        <5> SUFFICES ASSUME NEW b, b \in Window(SeedCursor + 1, SeedCursor) PROVE FALSE
          OBVIOUS
        <5>1. b \in Int /\ SeedCursor + 1 <= b /\ b <= SeedCursor
          BY <4>1, WindowMember, TransfersAreBlocks
        <5> QED BY <4>1, <5>1
      <4> QED BY <4>2
    <3>3. rows \subseteq rows' /\ passed["live"] \subseteq passed'["live"]
      BY Grows DEF Lanes
    <3>4. checkpoint["live"] # NoBlock =>
            Window(origin["live"], checkpoint["live"]) \subseteq rows \cup passed["live"]
      BY DEF Backed, CursorsAreBacked
    <3> SUFFICES ASSUME NEW l \in {"live", "backfill"}, checkpoint'[l] # NoBlock
                 PROVE  Window(origin'[l], checkpoint'[l]) \subseteq rows' \cup passed'[l]
      BY DEF CursorsAreBacked, Window
    <3>5. CASE l = "live"
      BY <3>1, <3>3, <3>4, <3>5
    <3>6. CASE l = "backfill"
      BY <3>1, <3>2, <3>6
    <3> QED BY <3>5, <3>6
  <2>3. CASE ~(checkpoint["backfill"] = NoBlock /\ SeedCursor # NoBlock)
    BY <2>3, CursorsStay DEF Backed, StartTick
  <2> QED BY <2>2, <2>3
<1> QED BY <1>1, <1>2, <1>3, <1>4, BackedBy

\* A record that is on its way to a walk, or has left it, owes nothing.
LEMMA RestingWork ==
  ASSUME NEW s \in Sessions, session'[s].pc \notin {"load", "walk", "insert"}
  PROVE  WorkOf(s)'
BY DEF WorkOf

LEMMA TrackBacked ==
  ASSUME Typed, [Next]_vars, Backed, NEW s \in Sessions,
         Track(s) \/ TrackFails(s) \/ LoadTargets(s)
  PROVE  Backed'
<1>1. CursorsAreBacked' /\ lock' = lock
  BY CursorsStay DEF Backed, Track, TrackFails, LoadTargets
<1>2. /\ session'[s].lane = session[s].lane
      /\ session[s].pc = "load" =>
           /\ session'[s].left = session[s].left
           /\ session'[s].first = session[s].first /\ session'[s].last = session[s].last
      /\ session[s].pc \in {"track", "load"}
      /\ \A t \in Sessions : t # s => session'[t] = session[t]
  <2> DEFINE r1 == [session[s] EXCEPT !.pc = "load", !.dirty = TRUE, !.left = @ \cup Gap(s)]
             r2 == [session[s] EXCEPT !.pc = "load"]
             r3 == [session[s] EXCEPT !.pc = "walk"]
  <2>1. /\ r1.lane = session[s].lane
        /\ r2.lane = session[s].lane
        /\ r3.lane = session[s].lane /\ r3.left = session[s].left
        /\ r3.first = session[s].first /\ r3.last = session[s].last
    BY SessionFields DEF SessionType
  <2>2. CASE Track(s)
    <3>1. session'[s] = r1 /\ \A t \in Sessions : t # s => session'[t] = session[t]
      BY <2>2, Moved DEF Track
    <3> QED BY <2>1, <2>2, <3>1 DEF Track
  <2>3. CASE TrackFails(s)
    <3>1. session'[s] = r2 /\ \A t \in Sessions : t # s => session'[t] = session[t]
      BY <2>3, Moved DEF TrackFails
    <3> QED BY <2>1, <2>3, <3>1 DEF TrackFails
  <2>4. CASE LoadTargets(s)
    <3>1. session'[s] = r3 /\ \A t \in Sessions : t # s => session'[t] = session[t]
      BY <2>4, Moved DEF LoadTargets
    <3> QED BY <2>1, <2>4, <3>1 DEF LoadTargets
  <2> QED BY <2>2, <2>3, <2>4
<1>3. lock # s
  BY SessionFields DEF ShapeOf, Track, TrackFails, LoadTargets
<1>4. WorkOf(s)'
  <2>1. CASE session[s].lane = "base"
    BY <1>2, <2>1 DEF WorkOf
  <2>2. CASE session[s].lane # "base"
    <3>1. session[s].pc = "load"
      BY <1>2, <2>2, SessionFields DEF ShapeOf
    <3>2. rows \subseteq rows' /\ passed[session[s].lane] \subseteq passed'[session[s].lane]
      BY Grows, SessionFields
    <3>3. Window(session[s].first, session[s].last)
            \subseteq rows \cup passed[session[s].lane] \cup session[s].left
      BY <2>2, <3>1 DEF Backed, WorkOf
    <3>4. Window(session'[s].first, session'[s].last)
            \subseteq rows' \cup passed'[session'[s].lane] \cup session'[s].left
      BY <1>2, <3>1, <3>2, <3>3
    <3> QED BY <1>1, <1>3, <3>4 DEF WorkOf, Window
  <2> QED BY <2>1, <2>2
<1> QED BY <1>1, <1>2, <1>4, BackedBy

LEMMA NoClientBacked ==
  ASSUME Typed, [Next]_vars, Backed, NEW s \in Sessions, NoClient(s)
  PROVE  Backed'
<1>1. CursorsAreBacked' /\ lock' = lock
  BY CursorsStay DEF Backed, NoClient
<1>2. lock # s
  BY SessionFields DEF ShapeOf, NoClient
<1>3. WorkOf(s)'
  <2>1. CASE session[s].lane = "base"
    BY <2>1, ClientFields DEF WorkOf
  <2>2. CASE session[s].lane # "base"
    <3>1. rows \subseteq rows' /\ passed[session[s].lane] \subseteq passed'[session[s].lane]
      BY Grows, SessionFields
    <3>2. GapLeft(s) \subseteq passed'[session[s].lane]
      <4>1. passed \in [Lanes -> SUBSET Transfers] /\ session[s].lane \in Lanes
        BY SessionFields DEF Typed, TypeOK
      <4> QED BY <4>1, ClientFields
    <3>3. Window(session[s].first, session[s].last)
            \subseteq rows \cup passed[session[s].lane] \cup session[s].left
      BY <2>2, ClientFields DEF Backed, WorkOf
    <3>4. Window(session'[s].first, session'[s].last)
            \subseteq rows' \cup passed'[session'[s].lane] \cup session'[s].left
      BY ClientFields, <3>1, <3>2, <3>3
    <3> QED BY <1>1, <1>2, <3>4 DEF WorkOf, Window
  <2> QED BY <2>1, <2>2
<1> QED BY <1>1, <1>3, ClientFields, BackedBy

LEMMA RunLiveTipBacked ==
  ASSUME Typed, [Next]_vars, Backed, NEW s \in Sessions, RunLiveTip(s)
  PROVE  Backed'
<1>1. CursorsAreBacked' /\ lock' = lock /\ checkpoint' = checkpoint
  BY CursorsStay DEF Backed, RunLiveTip
<1>2. CASE CaughtUp(LiveStart, SafeHead)
  <2> DEFINE r == [session[s] EXCEPT !.pc = "history", !.bound = checkpoint["live"]]
  <2>1. session'[s] = r /\ \A t \in Sessions : t # s => session'[t] = session[t]
    BY <1>2, Moved DEF RunLiveTip
  <2>2. r.pc = "history"
    BY SessionFields DEF SessionType
  <2> QED BY <1>1, <2>1, <2>2, RestingWork, BackedBy
<1>3. CASE ~CaughtUp(LiveStart, SafeHead)
  <2> DEFINE r == [session[s] EXCEPT !.pc = "walk", !.lane = "live",
                     !.first = LiveStart, !.last = LiveEnd, !.left = Window(LiveStart, LiveEnd),
                     !.snaps = (checkpoint["live"] = NoBlock \/ Stale)]
  <2>0. session'[s] = r /\ \A t \in Sessions : t # s => session'[t] = session[t]
    BY <1>3, Moved DEF RunLiveTip
  <2>1. /\ session'[s].pc = "walk" /\ session'[s].lane = "live"
        /\ session'[s].first = LiveStart /\ session'[s].last = LiveEnd
        /\ session'[s].left = Window(LiveStart, LiveEnd)
        /\ session'[s].snaps = (checkpoint["live"] = NoBlock \/ Stale)
    <3>1. /\ r.pc = "walk" /\ r.lane = "live" /\ r.first = LiveStart /\ r.last = LiveEnd
          /\ r.left = Window(LiveStart, LiveEnd)
          /\ r.snaps = (checkpoint["live"] = NoBlock \/ Stale)
      BY SessionFields DEF SessionType
    <3> QED BY <2>0, <3>1
  <2>2. ~session'[s].snaps => checkpoint["live"] # NoBlock /\ LiveStart = checkpoint["live"] + 1
    BY <2>1 DEF LiveStart
  <2>3. checkpoint["live"] \in Cursor
    BY DEF Typed, TypeOK, Lanes, Cursor
  <2>4. WorkOf(s)'
    BY <1>1, <2>1, <2>2, <2>3 DEF WorkOf, Window, Cursor, NoBlock
  <2> QED BY <1>1, <2>0, <2>4, BackedBy
<1> QED BY <1>2, <1>3

LEMMA HeadUnknownBacked ==
  ASSUME Typed, [Next]_vars, Backed, NEW s \in Sessions, HeadUnknown(s)
  PROVE  Backed'
<1>1. CursorsAreBacked' /\ lock' = lock
  BY CursorsStay DEF Backed, HeadUnknown
<1> DEFINE r == [session[s] EXCEPT !.pc = "history", !.bound = checkpoint["live"]]
<1>2. session'[s] = r /\ \A t \in Sessions : t # s => session'[t] = session[t]
  BY Moved DEF HeadUnknown
<1>3. r.pc = "history"
  BY SessionFields DEF SessionType
<1> QED BY <1>1, <1>2, <1>3, RestingWork, BackedBy

LEMMA RunBackfillBacked ==
  ASSUME Typed, [Next]_vars, Backed, NEW s \in Sessions, RunBackfill(s)
  PROVE  Backed'
<1> DEFINE start == checkpoint["backfill"] + 1
<1>1. CursorsAreBacked' /\ checkpoint' = checkpoint
  BY CursorsStay DEF Backed, RunBackfill
<1>2. CASE checkpoint["backfill"] = NoBlock \/ start > BackfillEnd(s)
  BY <1>1, <1>2, FinishBacked DEF RunBackfill
<1>3. CASE ~(checkpoint["backfill"] = NoBlock \/ start > BackfillEnd(s))
  <2> DEFINE r == [session[s] EXCEPT !.pc = "walk", !.lane = "backfill",
                     !.first = start, !.last = BackfillEnd(s),
                     !.left = Window(start, BackfillEnd(s)), !.snaps = FALSE]
  <2>0. /\ session'[s] = r /\ lock' = lock
        /\ \A t \in Sessions : t # s => session'[t] = session[t]
    BY <1>3, Moved DEF RunBackfill
  <2>1. /\ session'[s].pc = "walk" /\ session'[s].lane = "backfill"
        /\ session'[s].first = start /\ session'[s].last = BackfillEnd(s)
        /\ session'[s].left = Window(start, BackfillEnd(s))
    <3>1. /\ r.pc = "walk" /\ r.lane = "backfill" /\ r.first = start
          /\ r.last = BackfillEnd(s) /\ r.left = Window(start, BackfillEnd(s))
      BY SessionFields DEF SessionType
    <3> QED BY <2>0, <3>1
  <2>2. checkpoint["backfill"] # NoBlock /\ start \in Int
    BY <1>3, BackfillEndTyped DEF Cursor, NoBlock
  <2>3. WorkOf(s)'
    BY <1>1, <2>1, <2>2 DEF WorkOf, Window
  <2> QED BY <1>1, <2>0, <2>3, BackedBy
<1> QED BY <1>2, <1>3

LEMMA DropFields ==
  ASSUME Typed, NEW s \in Sessions, NEW b, Drop(s, b)
  PROVE  /\ session'[s].pc = session[s].pc /\ session'[s].left = session[s].left \ {b}
         /\ session'[s].lane = session[s].lane /\ session'[s].first = session[s].first
         /\ session'[s].last = session[s].last /\ session'[s].snaps = session[s].snaps
         /\ session'[s].read = session[s].read /\ session'[s].dirty = session[s].dirty
         /\ \A t \in Sessions : t # s => session'[t] = session[t]
<1> DEFINE r == [session[s] EXCEPT !.left = @ \ {b}]
<1>1. session'[s] = r /\ \A t \in Sessions : t # s => session'[t] = session[t]
  BY Moved DEF Drop
<1>2. /\ r.pc = session[s].pc /\ r.left = session[s].left \ {b}
      /\ r.lane = session[s].lane /\ r.first = session[s].first
      /\ r.last = session[s].last /\ r.snaps = session[s].snaps
      /\ r.read = session[s].read /\ r.dirty = session[s].dirty
  BY SessionFields DEF SessionType
<1> QED BY <1>1, <1>2

LEMMA InsertFields ==
  ASSUME Typed, NEW s \in Sessions, NEW b,
         Becomes(s, [session[s] EXCEPT !.pc = "walk", !.dirty = FALSE, !.left = @ \ {b}])
  PROVE  /\ session'[s].pc = "walk" /\ session'[s].left = session[s].left \ {b}
         /\ session'[s].lane = session[s].lane /\ session'[s].first = session[s].first
         /\ session'[s].last = session[s].last /\ session'[s].snaps = session[s].snaps
         /\ session'[s].read = session[s].read /\ session'[s].dirty = FALSE
         /\ \A t \in Sessions : t # s => session'[t] = session[t]
<1> DEFINE r == [session[s] EXCEPT !.pc = "walk", !.dirty = FALSE, !.left = @ \ {b}]
<1>1. session'[s] = r /\ \A t \in Sessions : t # s => session'[t] = session[t]
  BY Moved
<1>2. /\ r.pc = "walk" /\ r.left = session[s].left \ {b}
      /\ r.lane = session[s].lane /\ r.first = session[s].first
      /\ r.last = session[s].last /\ r.snaps = session[s].snaps
      /\ r.read = session[s].read /\ r.dirty = FALSE
  BY SessionFields DEF SessionType
<1> QED BY <1>1, <1>2

LEMMA ToInsertFields ==
  ASSUME Typed, NEW s \in Sessions, Becomes(s, [session[s] EXCEPT !.pc = "insert"])
  PROVE  /\ session'[s].pc = "insert" /\ session'[s].left = session[s].left
         /\ session'[s].lane = session[s].lane /\ session'[s].first = session[s].first
         /\ session'[s].last = session[s].last /\ session'[s].snaps = session[s].snaps
         /\ session'[s].read = session[s].read /\ session'[s].dirty = session[s].dirty
         /\ \A t \in Sessions : t # s => session'[t] = session[t]
<1> DEFINE r == [session[s] EXCEPT !.pc = "insert"]
<1>1. session'[s] = r /\ \A t \in Sessions : t # s => session'[t] = session[t]
  BY Moved
<1>2. /\ r.pc = "insert" /\ r.left = session[s].left
      /\ r.lane = session[s].lane /\ r.first = session[s].first
      /\ r.last = session[s].last /\ r.snaps = session[s].snaps
      /\ r.read = session[s].read /\ r.dirty = session[s].dirty
  BY SessionFields DEF SessionType
<1> QED BY <1>1, <1>2

LEMMA ScanBacked ==
  ASSUME Typed, [Next]_vars, Backed, NEW s \in Sessions, Scan(s) \/ FetchFails(s)
  PROVE  Backed'
<1>1. /\ CursorsAreBacked' /\ lock' = lock /\ session[s].pc = "walk" /\ WorkOf(s)
      /\ checkpoint' = checkpoint
  BY CursorsStay DEF Backed, Scan, FetchFails
<1>2. ASSUME NEW b, Drop(s, b), b \in rows' \cup passed'[session[s].lane]
      PROVE  Backed'
  <2>1. WorkOf(s)'
    BY <1>1, <1>2, DropFields, HandledWork
  <2> QED BY <1>1, <1>2, <2>1, DropFields, BackedBy
<1>3. CASE Becomes(s, [session[s] EXCEPT !.pc = "insert"]) /\ passed' = passed /\ rows' = rows
  <2>1. WorkOf(s)'
    BY <1>1, <1>3, ToInsertFields DEF WorkOf, Window
  <2> QED BY <1>1, <1>3, <2>1, ToInsertFields, BackedBy
<1>4. passed \in [Lanes -> SUBSET Transfers] /\ session[s].lane \in Lanes
  BY SessionFields DEF Typed, TypeOK
<1>5. CASE Scan(s)
  <2>1. PICK b \in Transfers :
          IF Fetched(s, b) /\ b > head
          THEN /\ passed' = [passed EXCEPT ![session[s].lane] = @ \cup {b}]
               /\ Drop(s, b)
          ELSE /\ IF b \in rows THEN Drop(s, b)
                  ELSE Becomes(s, [session[s] EXCEPT !.pc = "insert"])
               /\ UNCHANGED passed
    BY <1>5 DEF Scan
  <2>2. rows' = rows
    BY <1>5 DEF Scan
  <2>3. CASE Fetched(s, b) /\ b > head
    BY <1>2, <1>4, <2>1, <2>3
  <2>4. CASE ~(Fetched(s, b) /\ b > head) /\ b \in rows
    BY <1>2, <2>1, <2>2, <2>4
  <2>5. CASE ~(Fetched(s, b) /\ b > head) /\ b \notin rows
    BY <1>3, <2>1, <2>2, <2>5
  <2> QED BY <2>3, <2>4, <2>5
<1>6. CASE FetchFails(s)
  <2>1. PICK b \in Transfers :
          passed' = [passed EXCEPT ![session[s].lane] = @ \cup {b}] /\ Drop(s, b)
    BY <1>6 DEF FetchFails
  <2> QED BY <1>2, <1>4, <2>1
<1> QED BY <1>5, <1>6

LEMMA InsertBacked ==
  ASSUME Typed, [Next]_vars, Backed, NEW s \in Sessions, Insert(s)
  PROVE  Backed'
<1>1. PICK b \in Transfers :
        /\ rows' = rows \cup {b}
        /\ Becomes(s, [session[s] EXCEPT !.pc = "walk", !.dirty = FALSE, !.left = @ \ {b}])
  BY DEF Insert
<1>2. \A l \in {"live", "backfill"} : checkpoint'[l] = checkpoint[l] /\ origin'[l] = origin[l]
  BY CommitLeavesLanes DEF Insert
<1>3. CursorsAreBacked' /\ lock' = lock /\ session[s].pc = "insert" /\ WorkOf(s)
  BY <1>2, CursorsStay DEF Backed, Insert
<1>4. WorkOf(s)'
  BY <1>1, <1>2, <1>3, InsertFields, HandledWork
<1> QED BY <1>1, <1>3, <1>4, InsertFields, BackedBy

LEMMA FinishingBacked ==
  ASSUME Typed, [Next]_vars, Backed, NEW s \in Sessions,
         Answer(s) \/ LoadFails(s) \/ Abort(s)
  PROVE  Backed'
<1>1. \A l \in {"live", "backfill"} : checkpoint'[l] = checkpoint[l] /\ origin'[l] = origin[l]
  BY CommitLeavesLanes DEF Answer, LoadFails, Abort
<1>2. CursorsAreBacked'
  BY <1>1, CursorsStay DEF Backed
<1> QED BY <1>2, FinishBacked DEF Answer, LoadFails, Abort

\* The end of a walk: what the cursor goes over is its old window, what lies between
\* that and the first block handled, and the blocks handled.
LEMMA AdvanceCursor ==
  ASSUME Typed, [Next]_vars, Backed, NEW s \in Sessions, AdvanceLane(s)
  PROVE  CursorsAreBacked'
<1> DEFINE l == session[s].lane
           first == session[s].first
           last == session[s].last
<1>1. /\ l \in {"live", "backfill"} /\ l \in Lanes /\ first \in Nat /\ last \in Nat
      /\ session[s].pc = "walk" /\ session[s].left = {}
  BY SessionFields DEF AdvanceLane, Lanes
<1>2. /\ checkpoint \in [Lanes -> Cursor] /\ origin \in [Lanes -> Cursor]
      /\ passed \in [Lanes -> SUBSET Transfers]
  BY DEF Typed, TypeOK, Cursor
<1>3. /\ checkpoint' = [checkpoint EXCEPT ![l] = Upper(checkpoint[l], last)]
      /\ origin' = [origin EXCEPT ![l] = IF checkpoint[l] = NoBlock THEN first ELSE @]
      /\ passed' = [passed EXCEPT ![l] = @ \cup
                      (IF Pushed(s) \/ session[s].snaps THEN Jumped(l, first) ELSE {})]
      /\ rows' = rows
  BY DEF AdvanceLane, Advanced, BeginsAt
<1>4. /\ Window(first, last) \subseteq rows \cup passed[l]
      /\ ~(Pushed(s) \/ session[s].snaps) =>
            checkpoint[l] # NoBlock /\ first <= checkpoint[l] + 1
  BY <1>1 DEF Backed, WorkOf, Pushed
<1>5. ASSUME NEW k \in {"live", "backfill"}, k # l, checkpoint'[k] # NoBlock
      PROVE  Window(origin'[k], checkpoint'[k]) \subseteq rows' \cup passed'[k]
  <2>1. checkpoint'[k] = checkpoint[k] /\ origin'[k] = origin[k] /\ passed'[k] = passed[k]
    BY <1>1, <1>2, <1>3, <1>5 DEF Lanes
  <2> QED BY <1>3, <1>5, <2>1 DEF Backed, CursorsAreBacked
<1>6. ASSUME NEW b \in Window(origin'[l], checkpoint'[l])
      PROVE  b \in rows' \cup passed'[l]
  <2>1. /\ checkpoint'[l] = Upper(checkpoint[l], last)
        /\ origin'[l] = (IF checkpoint[l] = NoBlock THEN first ELSE origin[l])
        /\ passed'[l] = passed[l] \cup
             (IF Pushed(s) \/ session[s].snaps THEN Jumped(l, first) ELSE {})
    BY <1>1, <1>2, <1>3
  <2>2. checkpoint[l] \in Int /\ origin[l] \in Int /\ checkpoint'[l] \in Int /\ origin'[l] \in Int
        /\ checkpoint[l] >= -1
    BY <1>1, <1>2, <2>1 DEF Cursor, NoBlock, Upper
  <2>3. b \in Transfers /\ b \in Nat /\ origin'[l] <= b /\ b <= checkpoint'[l]
    BY <2>2, WindowMember, TransfersAreBlocks
  <2>4. CASE first <= b /\ b <= last
    <3>1. b \in Window(first, last)
      BY <1>1, <2>3, <2>4, WindowMember
    <3> QED BY <1>3, <1>4, <2>1, <3>1
  <2>5. CASE checkpoint[l] # NoBlock /\ b <= checkpoint[l]
    <3>1. b \in Window(origin[l], checkpoint[l])
      BY <2>1, <2>2, <2>3, <2>5, WindowMember
    <3>2. b \in rows \cup passed[l]
      BY <1>1, <2>5, <3>1 DEF Backed, CursorsAreBacked
    <3> QED BY <1>3, <2>1, <3>2
  <2>6. CASE checkpoint[l] # NoBlock /\ checkpoint[l] < b /\ b < first
    <3>1. Pushed(s) \/ session[s].snaps
      BY <1>1, <1>4, <2>2, <2>3, <2>6
    <3>2. b \in Window(checkpoint[l] + 1, first - 1)
      <4>1. checkpoint[l] + 1 \in Int /\ first - 1 \in Int
            /\ checkpoint[l] + 1 <= b /\ b <= first - 1
        BY <1>1, <2>2, <2>3, <2>6
      <4> QED BY <2>3, <4>1, WindowMember
    <3> QED BY <2>1, <2>6, <3>1, <3>2 DEF Jumped
  <2>7. b <= last \/ b <= checkpoint[l]
    BY <1>1, <2>1, <2>2, <2>3 DEF Upper
  <2>8. CASE checkpoint[l] = NoBlock
    BY <1>1, <2>1, <2>2, <2>3, <2>4, <2>7, <2>8 DEF NoBlock
  <2> QED BY <1>1, <2>2, <2>3, <2>4, <2>5, <2>6, <2>7, <2>8
<1> QED BY <1>5, <1>6 DEF CursorsAreBacked, Window

LEMMA AdvanceBacked ==
  ASSUME Typed, [Next]_vars, Backed, NEW s \in Sessions, AdvanceLane(s)
  PROVE  Backed'
<1>1. CursorsAreBacked'
  BY AdvanceCursor
<1>2. CASE ~Pushed(s) /\ session[s].lane = "live"
  <2> DEFINE r == [session[s] EXCEPT !.pc = "history", !.bound = session[s].last]
  <2>1. /\ session'[s] = r /\ lock' = lock
        /\ \A t \in Sessions : t # s => session'[t] = session[t]
    BY <1>2, Moved DEF AdvanceLane
  <2>2. r.pc = "history"
    BY SessionFields DEF SessionType
  <2> QED BY <1>1, <2>1, <2>2, RestingWork, BackedBy
<1>3. CASE ~(~Pushed(s) /\ session[s].lane = "live")
  BY <1>1, <1>3, FinishBacked DEF AdvanceLane
<1> QED BY <1>2, <1>3

LEMMA BackedStep ==
  ASSUME Typed, [Next]_vars, Backed
  PROVE  Backed'
<1>1. CASE Mine \/ UNCHANGED vars
  <2>1. /\ session' = session /\ lock' = lock
        /\ \A l \in {"live", "backfill"} : checkpoint'[l] = checkpoint[l] /\ origin'[l] = origin[l]
    BY <1>1 DEF Mine, vars
  <2> QED BY <2>1, CursorsStay, OthersWork DEF Backed
<1>2. CASE \E s \in Sessions, b \in Batches : Receive(s, b)
  BY <1>2, ReceiveBacked
<1>3. CASE \E s \in Sessions : StartTick(s)
  BY <1>3, StartTickBacked
<1>4. CASE \E s \in Sessions : Step(s)
  BY <1>4, TrackBacked, FinishingBacked, RunLiveTipBacked, RunBackfillBacked, ScanBacked,
     InsertBacked, AdvanceBacked DEF Step
<1>5. CASE \E s \in Sessions : Fails(s)
  BY <1>5, TrackBacked, FinishingBacked, NoClientBacked, HeadUnknownBacked, ScanBacked
  DEF Fails
<1> QED BY <1>1, <1>2, <1>3, <1>4, <1>5 DEF Next

LEMMA BackedInit == Init => Backed
<1> SUFFICES ASSUME Init PROVE Backed
  OBVIOUS
<1>1. CursorsAreBacked
  BY DEF Init, CursorsAreBacked, Lanes
<1>2. \A s \in Sessions : session[s].pc = "idle"
  BY DEF Init, Idle
<1> QED BY <1>1, <1>2 DEF Backed, WorkOf

\* Every transfer between the block a lane began at and its cursor has a telemetry row,
\* or is one the lane went past by design (run_live_tip_ingest, run_backfill_step,
\* _process_realtime_lane_batch): no crash, race of two writers or redelivery leaves a
\* transfer silently behind a cursor of the live or the backfill lane.
THEOREM CursorsStayBacked == Spec => []CursorsAreBacked
<1>1. Init => Typed /\ Backed
  BY TypedInit, BackedInit
<1>2. (Typed /\ Backed) /\ [Next]_vars => (Typed /\ Backed)'
  BY TypedStep, BackedStep
<1>3. Typed /\ Backed => CursorsAreBacked
  BY DEF Backed
<1> QED BY <1>1, <1>2, <1>3, PTL DEF Spec

-----------------------------------------------------------------------------
(* The delivery lane heals its gaps.                                        *)
(* The argument: what the cursor has gone over is never lost from Safe,     *)
(* because a handler that has committed its cursor answers for what it      *)
(* holds, a handler that dies owes its batch again, and what it held of its *)
(* gap goes to cut; and a handler that has not committed needs only what    *)
(* stood before the cursor it read, its gap and its batch.                  *)

Done == rows \cup passed["base"]

\* What a handler holds whose cursor is committed, or that has none to commit.
Held(s) == IF session[s].lane = "base" /\ session[s].pc \in {"walk", "insert"} /\ ~session[s].dirty
           THEN session[s].left ELSE {}

Safe == Done \cup cut \cup OwedTransfers \cup UNION {Held(s) : s \in Sessions}

DeliveryWork(s) ==
  session[s].lane = "base" /\ session[s].pc # "idle" =>
    /\ \A b \in session[s].left : b <= session[s].last
    /\ Window(session[s].first, session[s].last) \subseteq Done \cup session[s].left
    /\ session[s].dirty => Gap(s) \subseteq Done \cup session[s].left
    /\ session[s].read # NoBlock =>
         /\ checkpoint["base"] # NoBlock
         /\ Window(origin["base"], session[s].read) \subseteq Safe

Healing ==
  /\ checkpoint["base"] # NoBlock => Window(origin["base"], checkpoint["base"]) \subseteq Safe
  /\ \A s \in Sessions : DeliveryWork(s)

LEMMA DoneGrows ==
  ASSUME Typed, [Next]_vars
  PROVE  Done \subseteq Done' /\ cut \subseteq cut'
BY Grows DEF Done, Lanes

LEMMA OwedIs ==
  \A b : b \in OwedTransfers <=> \E c \in owed : c.lane = "base" /\ b \in Window(c.first, c.last)
BY DEF OwedTransfers

LEMMA OwedIsNext ==
  \A b : b \in OwedTransfers' <=> \E c \in owed' : c.lane = "base" /\ b \in Window(c.first, c.last)
BY DEF OwedTransfers, Window

\* What an action of s has to show to keep everything safe.
LEMMA SafeKept ==
  ASSUME Typed, [Next]_vars, NEW s \in Sessions,
         \A t \in Sessions : t # s => session'[t] = session[t],
         Held(s) \subseteq Done' \cup cut' \cup OwedTransfers' \cup Held(s)',
         OwedTransfers \subseteq Done' \cup cut' \cup OwedTransfers'
  PROVE  Safe \subseteq Safe'
<1> SUFFICES ASSUME NEW b \in Safe PROVE b \in Safe'
  OBVIOUS
<1>1. CASE b \in Done \/ b \in cut
  BY <1>1, DoneGrows DEF Safe
<1>2. CASE b \in OwedTransfers
  BY <1>2 DEF Safe
<1>3. ASSUME NEW t \in Sessions, b \in Held(t) PROVE b \in Safe'
  <2>1. Held(t)' \subseteq Safe'
    BY DEF Safe
  <2>2. CASE t = s
    BY <1>3, <2>1, <2>2 DEF Safe
  <2>3. CASE t # s
    <3>1. Held(t)' = Held(t)
      BY <2>3 DEF Held
    <3> QED BY <1>3, <2>1, <3>1
  <2> QED BY <2>2, <2>3
<1> QED BY <1>1, <1>2, <1>3 DEF Safe

LEMMA OwedStays == ASSUME owed' = owed PROVE OwedTransfers \subseteq OwedTransfers'
BY OwedIs, OwedIsNext

\* A batch that is owed no more was handled, given up, or none of the delivery lane.
LEMMA OwedWithout ==
  ASSUME NEW s \in Sessions, owed' = owed \ {Batch(s)},
         session[s].lane = "base" /\ Batch(s) \in owed =>
           Window(session[s].first, session[s].last) \subseteq Done' \cup cut'
  PROVE  OwedTransfers \subseteq Done' \cup cut' \cup OwedTransfers'
<1> SUFFICES ASSUME NEW b \in OwedTransfers PROVE b \in Done' \cup cut' \cup OwedTransfers'
  OBVIOUS
<1>1. PICK c \in owed : c.lane = "base" /\ b \in Window(c.first, c.last)
  BY OwedIs
<1>2. CASE c = Batch(s)
  <2>1. /\ session[s].lane = "base" /\ Batch(s) \in owed
        /\ b \in Window(session[s].first, session[s].last)
    BY <1>1, <1>2 DEF Batch
  <2> QED BY <2>1
<1>3. CASE c # Batch(s)
  BY <1>1, <1>3, OwedIsNext
<1> QED BY <1>2, <1>3

\* A session that has not begun to walk holds nothing.
LEMMA HoldsNothing ==
  ASSUME NEW s \in Sessions,
         session[s].pc \notin {"walk", "insert"} \/ session[s].lane # "base" \/ session[s].left = {}
  PROVE  Held(s) = {}
BY DEF Held

LEMMA QuietSafe ==
  ASSUME Typed, [Next]_vars, NEW s \in Sessions, owed' = owed,
         session[s].pc \notin {"walk", "insert"},
         \A t \in Sessions : t # s => session'[t] = session[t]
  PROVE  Safe \subseteq Safe'
BY SafeKept, OwedStays, HoldsNothing

LEMMA DropSafe ==
  ASSUME Typed, [Next]_vars, NEW s \in Sessions, owed' = owed, NEW b,
         \A t \in Sessions : t # s => session'[t] = session[t],
         session'[s].pc \in {"walk", "insert"}, session'[s].lane = session[s].lane,
         session'[s].left = session[s].left \ {b}, session'[s].dirty => session[s].dirty,
         session[s].lane = "base" => b \in Done' \/ b \notin session[s].left
  PROVE  Safe \subseteq Safe'
<1>1. Held(s) \subseteq Done' \cup Held(s)'
  BY DEF Held
<1> QED BY <1>1, SafeKept, OwedStays

LEMMA ScanSafe ==
  ASSUME Typed, [Next]_vars, NEW s \in Sessions, Scan(s) \/ FetchFails(s)
  PROVE  Safe \subseteq Safe'
<1>1. owed' = owed /\ session[s].pc = "walk"
  BY DEF Scan, FetchFails
<1>2. passed \in [Lanes -> SUBSET Transfers] /\ session[s].lane \in Lanes
  BY SessionFields DEF Typed, TypeOK
<1>3. ASSUME NEW b, Drop(s, b), session[s].lane = "base" => b \in Done'
      PROVE  Safe \subseteq Safe'
  BY <1>1, <1>3, DropFields, DropSafe
<1>4. CASE Becomes(s, [session[s] EXCEPT !.pc = "insert"])
  <2>1. Held(s) \subseteq Held(s)'
    BY <1>1, <1>4, ToInsertFields DEF Held
  <2> QED BY <1>1, <1>4, <2>1, ToInsertFields, SafeKept, OwedStays
<1>5. CASE Scan(s)
  <2>1. PICK b \in Transfers :
          IF Fetched(s, b) /\ b > head
          THEN /\ passed' = [passed EXCEPT ![session[s].lane] = @ \cup {b}]
               /\ Drop(s, b)
          ELSE IF b \in rows THEN Drop(s, b)
               ELSE Becomes(s, [session[s] EXCEPT !.pc = "insert"])
    BY <1>5 DEF Scan
  <2>2. rows' = rows
    BY <1>5 DEF Scan
  <2>3. CASE Fetched(s, b) /\ b > head
    BY <1>2, <1>3, <2>1, <2>3 DEF Done
  <2>4. CASE ~(Fetched(s, b) /\ b > head) /\ b \in rows
    BY <1>3, <2>1, <2>2, <2>4 DEF Done
  <2>5. CASE ~(Fetched(s, b) /\ b > head) /\ b \notin rows
    BY <1>4, <2>1, <2>5
  <2> QED BY <2>3, <2>4, <2>5
<1>6. CASE FetchFails(s)
  <2>1. PICK b \in Transfers :
          passed' = [passed EXCEPT ![session[s].lane] = @ \cup {b}] /\ Drop(s, b)
    BY <1>6 DEF FetchFails
  <2> QED BY <1>2, <1>3, <2>1 DEF Done
<1> QED BY <1>5, <1>6

LEMMA InsertSafe ==
  ASSUME Typed, [Next]_vars, NEW s \in Sessions, Insert(s)
  PROVE  Safe \subseteq Safe'
<1>1. PICK b \in Transfers :
        /\ rows' = rows \cup {b}
        /\ Becomes(s, [session[s] EXCEPT !.pc = "walk", !.dirty = FALSE, !.left = @ \ {b}])
  BY DEF Insert
<1>2. owed' = owed
  BY DEF Insert
<1>3. b \in Done'
  BY <1>1 DEF Done
<1> QED BY <1>1, <1>2, <1>3, InsertFields, DropSafe

LEMMA FinishSafe ==
  ASSUME Typed, [Next]_vars, Healing, NEW s \in Sessions, Answer(s) \/ LoadFails(s)
  PROVE  Safe \subseteq Safe'
<1>1. \A t \in Sessions : t # s => session'[t] = session[t]
  BY Moved DEF Answer, LoadFails, Finish
<1>2. Held(s) = {}
  BY HoldsNothing DEF Answer, LoadFails
<1>3. session[s].lane = "base" /\ Batch(s) \in owed =>
        Window(session[s].first, session[s].last) \subseteq Done' \cup cut'
  <2>1. CASE Answer(s)
    BY <2>1, DoneGrows DEF Answer, Healing, DeliveryWork
  <2>2. CASE LoadFails(s)
    BY <2>2 DEF LoadFails, Batch
  <2> QED BY <2>1, <2>2
<1>4. owed' = owed \ {Batch(s)}
  BY DEF Answer, LoadFails
<1> QED BY <1>1, <1>2, <1>3, <1>4, OwedWithout, SafeKept

LEMMA AdvanceSafe ==
  ASSUME Typed, [Next]_vars, NEW s \in Sessions, AdvanceLane(s)
  PROVE  Safe \subseteq Safe'
<1>1. \A t \in Sessions : t # s => session'[t] = session[t]
  BY Moved DEF AdvanceLane, Finish
<1>2. Held(s) = {} /\ session[s].lane # "base"
  BY HoldsNothing DEF AdvanceLane
<1>3. owed' = owed \/ owed' = owed \ {Batch(s)}
  BY DEF AdvanceLane
<1> QED BY <1>1, <1>2, <1>3, OwedWithout, OwedStays, SafeKept

LEMMA AbortSafe ==
  ASSUME Typed, [Next]_vars, Healing, NEW s \in Sessions, Abort(s)
  PROVE  Safe \subseteq Safe'
<1>1. \A t \in Sessions : t # s => session'[t] = session[t]
  BY Moved DEF Abort, Finish
<1>2. owed \subseteq owed' /\ (Pushed(s) => Batch(s) \in owed')
  BY DEF Abort
<1>3. OwedTransfers \subseteq OwedTransfers'
  BY <1>2, OwedIs, OwedIsNext
<1>4. ASSUME NEW b \in Held(s)
      PROVE  b \in cut' \/ b \in OwedTransfers'
  <2>1. /\ session[s].lane = "base" /\ session[s].pc \in {"walk", "insert"}
        /\ ~session[s].dirty /\ b \in session[s].left /\ b \in Transfers
    BY <1>4, SessionFields DEF Held
  <2>2. b \in Int /\ session[s].first \in Nat /\ session[s].last \in Nat /\ Pushed(s)
    BY <2>1, SessionFields, TransfersAreBlocks DEF ShapeOf, Pushed
  <2>3. CASE b < session[s].first
    BY <2>1, <2>3 DEF Abort
  <2>4. CASE ~(b < session[s].first)
    <3>1. b <= session[s].last
      BY <2>1 DEF Healing, DeliveryWork
    <3>2. b \in Window(session[s].first, session[s].last)
      BY <2>1, <2>2, <2>4, <3>1, WindowMember
    <3>3. Batch(s) \in owed' /\ Batch(s).lane = "base"
          /\ b \in Window(Batch(s).first, Batch(s).last)
      BY <1>2, <2>1, <2>2, <3>2 DEF Batch
    <3> QED BY <3>3, OwedIsNext
  <2> QED BY <2>3, <2>4
<1> QED BY <1>1, <1>3, <1>4, SafeKept

\* Nothing that was safe is lost.
LEMMA SafeGrows ==
  ASSUME Typed, [Next]_vars, Healing
  PROVE  Safe \subseteq Safe'
<1>1. CASE Mine \/ UNCHANGED vars
  <2>1. /\ session' = session /\ owed' = owed /\ rows' = rows /\ passed' = passed /\ cut' = cut
    BY <1>1 DEF Mine, vars
  <2> QED BY <2>1 DEF Safe, Done, OwedTransfers, Held, Window
<1>2. CASE \E s \in Sessions, b \in Batches : Receive(s, b)
  <2>1. PICK s \in Sessions, b \in Batches : Receive(s, b)
    BY <1>2
  <2> QED BY <2>1, Moved, QuietSafe DEF Receive
<1>3. ASSUME NEW s \in Sessions, StartTick(s) PROVE Safe \subseteq Safe'
  BY <1>3, Moved, QuietSafe DEF StartTick
<1>4. ASSUME NEW s \in Sessions,
             Track(s) \/ LoadTargets(s) \/ RunLiveTip(s) \/ RunBackfill(s)
               \/ TrackFails(s) \/ HeadUnknown(s)
      PROVE  Safe \subseteq Safe'
  <2>1. session[s].pc \notin {"walk", "insert"} /\ owed' = owed
    BY <1>4 DEF Track, LoadTargets, RunLiveTip, RunBackfill, TrackFails, HeadUnknown
  <2>2. \E r : Becomes(s, r)
    BY <1>4 DEF Track, LoadTargets, RunLiveTip, RunBackfill, TrackFails, HeadUnknown, Finish
  <2>3. \A t \in Sessions : t # s => session'[t] = session[t]
    BY <2>2, Moved
  <2> QED BY <2>1, <2>3, QuietSafe
<1>5. CASE \E s \in Sessions : Step(s)
  BY <1>4, <1>5, ScanSafe, InsertSafe, AdvanceSafe, FinishSafe DEF Step
<1>6. ASSUME NEW s \in Sessions, NoClient(s) PROVE Safe \subseteq Safe'
  BY <1>6, ClientFields, QuietSafe DEF NoClient
<1>7. CASE \E s \in Sessions : Fails(s)
  BY <1>4, <1>6, <1>7, ScanSafe, AbortSafe, FinishSafe DEF Fails
<1> QED BY <1>1, <1>2, <1>3, <1>5, <1>7 DEF Next

\* Once the delivery lane has a cursor it keeps one, and its origin stays.
LEMMA OriginStays ==
  ASSUME Typed, [Next]_vars, checkpoint["base"] # NoBlock
  PROVE  checkpoint'["base"] # NoBlock /\ origin'["base"] = origin["base"]
<1>1. checkpoint \in [Lanes -> Cursor] /\ origin \in [Lanes -> Cursor] /\ "base" \in Lanes
  BY DEF Typed, TypeOK, Cursor, Lanes
<1>2. CASE checkpoint' = checkpoint /\ origin' = origin
  BY <1>2
<1>3. ASSUME NEW s \in Sessions, CommitCursor(s)
      PROVE  checkpoint'["base"] # NoBlock /\ origin'["base"] = origin["base"]
  <2>1. NewProcessed(s) \in Nat
    BY NewProcessedTyped
  <2> QED BY <1>1, <1>3, <2>1 DEF CommitCursor, BeginsAt, NoBlock
<1>4. ASSUME NEW s \in Sessions, StartTick(s) \/ AdvanceLane(s)
      PROVE  checkpoint'["base"] = checkpoint["base"] /\ origin'["base"] = origin["base"]
  BY <1>1, <1>4 DEF StartTick, AdvanceLane, BeginsAt
<1>5. CASE Mine \/ UNCHANGED vars \/ \E s \in Sessions, b \in Batches : Receive(s, b)
  BY <1>2, <1>5 DEF Mine, vars, Receive
<1>6. CASE \E s \in Sessions : Step(s)
  <2>1. PICK s \in Sessions : Step(s)
    BY <1>6
  <2>2. CASE Track(s) \/ LoadTargets(s) \/ RunLiveTip(s) \/ RunBackfill(s) \/ Scan(s)
    BY <1>2, <2>2 DEF Track, LoadTargets, RunLiveTip, RunBackfill, Scan
  <2>3. CASE Insert(s) \/ Answer(s)
    BY <1>3, <2>3 DEF Insert, Answer
  <2> QED BY <1>4, <2>1, <2>2, <2>3 DEF Step
<1>7. CASE \E s \in Sessions : Fails(s)
  BY <1>2, <1>7 DEF Fails, TrackFails, NoClient, LoadFails, HeadUnknown, FetchFails, Abort
<1> QED BY <1>4, <1>5, <1>6, <1>7 DEF Next

\* A session of the delivery lane that goes on with its batch.
LEMMA OnItGoes ==
  ASSUME Typed, [Next]_vars, Healing, NEW s \in Sessions,
         session[s].lane = "base", session[s].pc # "idle",
         session'[s].first = session[s].first, session'[s].last = session[s].last,
         session'[s].read = session[s].read,
         session'[s].dirty => session[s].dirty,
         session'[s].left \subseteq session[s].left,
         session[s].left \ session'[s].left \subseteq Done'
  PROVE  DeliveryWork(s)'
<1> SUFFICES
      /\ \A b \in session'[s].left : b <= session'[s].last
      /\ Window(session'[s].first, session'[s].last) \subseteq Done' \cup session'[s].left
      /\ session'[s].dirty => Gap(s)' \subseteq Done' \cup session'[s].left
      /\ session'[s].read # NoBlock =>
           /\ checkpoint'["base"] # NoBlock
           /\ Window(origin'["base"], session'[s].read) \subseteq Safe'
  BY DEF DeliveryWork, Window
<1>1. DeliveryWork(s)
  BY DEF Healing
<1>2. Gap(s)' = Gap(s)
  BY DEF Gap, Window, Capped
<1>3. Done \subseteq Done' /\ Safe \subseteq Safe'
  BY DoneGrows, SafeGrows
<1>4. Done \cup session[s].left \subseteq Done' \cup session'[s].left
  BY <1>3
<1>5. \A b \in session'[s].left : b <= session'[s].last
  BY <1>1 DEF DeliveryWork
<1>6. Window(session'[s].first, session'[s].last) \subseteq Done' \cup session'[s].left
  BY <1>1, <1>4 DEF DeliveryWork
<1>7. session'[s].dirty => Gap(s)' \subseteq Done' \cup session'[s].left
  BY <1>1, <1>2, <1>4 DEF DeliveryWork
<1>8. session'[s].read # NoBlock =>
           /\ checkpoint'["base"] # NoBlock
           /\ Window(origin'["base"], session'[s].read) \subseteq Safe'
  BY <1>1, <1>3, OriginStays DEF DeliveryWork
<1> QED BY <1>5, <1>6, <1>7, <1>8

LEMMA OthersDeliver ==
  ASSUME Typed, [Next]_vars, Healing, NEW t \in Sessions, session'[t] = session[t]
  PROVE  DeliveryWork(t)'
<1>1. CASE session[t].lane = "base" /\ session[t].pc # "idle"
  BY <1>1, OnItGoes
<1>2. CASE ~(session[t].lane = "base" /\ session[t].pc # "idle")
  BY <1>2 DEF DeliveryWork
<1> QED BY <1>1, <1>2

LEMMA NotDelivering ==
  ASSUME NEW s \in Sessions, session'[s].lane # "base" \/ session'[s].pc = "idle"
  PROVE  DeliveryWork(s)'
BY DEF DeliveryWork

\* What an action of s has to show to keep the lane healing.
LEMMA HealingBy ==
  ASSUME Typed, [Next]_vars, Healing, NEW s \in Sessions,
         \A t \in Sessions : t # s => session'[t] = session[t],
         DeliveryWork(s)',
         \/ checkpoint'["base"] = checkpoint["base"] /\ origin'["base"] = origin["base"]
         \/ Window(origin'["base"], checkpoint'["base"]) \subseteq Safe'
  PROVE  Healing'
<1>1. Safe \subseteq Safe'
  BY SafeGrows
<1>2. checkpoint'["base"] # NoBlock => Window(origin'["base"], checkpoint'["base"]) \subseteq Safe'
  BY <1>1 DEF Healing
<1>3. \A t \in Sessions : DeliveryWork(t)'
  BY OthersDeliver
<1>4. Window(origin["base"], checkpoint["base"])' = Window(origin'["base"], checkpoint'["base"])
  BY DEF Window
<1> QED BY <1>2, <1>3, <1>4 DEF Healing

LEMMA ReceiveHeals ==
  ASSUME Typed, [Next]_vars, Healing, NEW s \in Sessions, NEW b \in Batches, Receive(s, b)
  PROVE  Healing'
<1> DEFINE r == [Idle EXCEPT !.pc = IF b.lane = "base" THEN "track" ELSE "load",
                             !.lane = b.lane, !.first = b.first, !.last = b.last,
                             !.read = IF b.lane = "base" THEN checkpoint["base"] ELSE NoBlock,
                             !.left = Window(b.first, b.last)]
<1>1. /\ checkpoint' = checkpoint /\ origin' = origin
      /\ session'[s] = r /\ \A t \in Sessions : t # s => session'[t] = session[t]
  BY Moved DEF Receive
<1>2. /\ r.lane = b.lane /\ r.first = b.first /\ r.last = b.last /\ ~r.dirty
      /\ r.left = Window(b.first, b.last)
      /\ r.read = (IF b.lane = "base" THEN checkpoint["base"] ELSE NoBlock)
  BY DEF Idle
<1>3. CASE b.lane # "base"
  BY <1>1, <1>2, <1>3, NotDelivering, HealingBy
<1>4. CASE b.lane = "base"
  <2>1. \A c \in Window(b.first, b.last) : c <= b.last
    <3>1. b.first \in Int /\ b.last \in Int
      BY BlocksAssumption DEF Batches
    <3> QED BY <3>1, WindowMember
  <2>2. checkpoint["base"] # NoBlock =>
          Window(origin["base"], checkpoint["base"]) \subseteq Safe'
    BY SafeGrows DEF Healing
  <2>3. DeliveryWork(s)'
    BY <1>1, <1>2, <1>4, <2>1, <2>2 DEF DeliveryWork, Window
  <2> QED BY <1>1, <2>3, HealingBy
<1> QED BY <1>3, <1>4

LEMMA TrackHeals ==
  ASSUME Typed, [Next]_vars, Healing, NEW s \in Sessions, Track(s)
  PROVE  Healing'
<1> DEFINE r == [session[s] EXCEPT !.pc = "load", !.dirty = TRUE, !.left = @ \cup Gap(s)]
<1>1. /\ checkpoint' = checkpoint /\ origin' = origin /\ rows' = rows /\ passed' = passed
      /\ session'[s] = r /\ \A t \in Sessions : t # s => session'[t] = session[t]
      /\ session[s].lane = "base" /\ session[s].pc = "track"
  BY SessionFields, Moved DEF Track, Typed, Shape
<1>2. /\ r.lane = session[s].lane /\ r.first = session[s].first /\ r.last = session[s].last
      /\ r.read = session[s].read /\ r.left = session[s].left \cup Gap(s)
  BY SessionFields DEF SessionType
<1>3. Gap(s)' = Gap(s) /\ Done' = Done
  BY <1>1, <1>2 DEF Gap, Window, Capped, Done
<1>4. DeliveryWork(s)
  BY DEF Healing
<1>5. \A b \in Gap(s) : b <= session[s].last
  <2> SUFFICES ASSUME NEW b \in Gap(s) PROVE b <= session[s].last
    OBVIOUS
  <2> DEFINE from == session[s].read + 1
             upto == session[s].first - 1
  <2>1. /\ session[s].read \in Cursor /\ session[s].first \in Nat /\ session[s].last \in Nat
        /\ session[s].first <= session[s].last
    BY <1>1, SessionFields DEF ShapeOf
  <2>2. from \in Int /\ upto \in Int /\ GapCap \in Int
    BY <2>1, BlocksAssumption DEF Cursor, NoBlock
  <2>3. Capped(from, upto) <= upto /\ Capped(from, upto) \in Int
    BY <2>2 DEF Capped, Lower
  <2>4. b \in Window(from, Capped(from, upto))
    BY DEF Gap
  <2>5. b \in Transfers /\ b <= Capped(from, upto)
    BY <2>2, <2>3, <2>4, WindowMember
  <2>6. b \in Int
    BY <2>5, TransfersAreBlocks
  <2> QED BY <2>1, <2>2, <2>3, <2>5, <2>6
<1>6. session[s].read # NoBlock => Window(origin["base"], session[s].read) \subseteq Safe'
  BY <1>1, <1>4, SafeGrows DEF DeliveryWork
<1>7. DeliveryWork(s)'
  <2>1. \A b \in session'[s].left : b <= session'[s].last
    BY <1>1, <1>2, <1>4, <1>5 DEF DeliveryWork
  <2>2. Window(session'[s].first, session'[s].last) \subseteq Done' \cup session'[s].left
    BY <1>1, <1>2, <1>3, <1>4 DEF DeliveryWork
  <2>3. Gap(s)' \subseteq Done' \cup session'[s].left
    BY <1>1, <1>2, <1>3
  <2>4. session'[s].read # NoBlock =>
           /\ checkpoint'["base"] # NoBlock
           /\ Window(origin'["base"], session'[s].read) \subseteq Safe'
    BY <1>1, <1>2, <1>4, <1>6 DEF DeliveryWork
  <2> QED BY <2>1, <2>2, <2>3, <2>4 DEF DeliveryWork, Window
<1> QED BY <1>1, <1>7, HealingBy

\* Scans, failed fetches and inserts take one transfer at a time out of a hand.
LEMMA WalkHeals ==
  ASSUME Typed, [Next]_vars, Healing, NEW s \in Sessions, Scan(s) \/ FetchFails(s)
  PROVE  Healing'
<1>1. /\ checkpoint' = checkpoint /\ origin' = origin /\ session[s].pc = "walk"
      /\ passed \in [Lanes -> SUBSET Transfers] /\ session[s].lane \in Lanes
  BY SessionFields DEF Scan, FetchFails, Typed, TypeOK
<1>2. ASSUME NEW b, Drop(s, b), session[s].lane = "base" => b \in Done'
      PROVE  Healing'
  <2>1. DeliveryWork(s)'
    BY <1>1, <1>2, DropFields, OnItGoes, NotDelivering
  <2> QED BY <1>1, <1>2, <2>1, DropFields, HealingBy
<1>3. CASE Becomes(s, [session[s] EXCEPT !.pc = "insert"])
  <2>1. DeliveryWork(s)'
    BY <1>1, <1>3, ToInsertFields, OnItGoes, NotDelivering
  <2> QED BY <1>1, <1>3, <2>1, ToInsertFields, HealingBy
<1>4. CASE Scan(s)
  <2>1. PICK b \in Transfers :
          IF Fetched(s, b) /\ b > head
          THEN /\ passed' = [passed EXCEPT ![session[s].lane] = @ \cup {b}]
               /\ Drop(s, b)
          ELSE IF b \in rows THEN Drop(s, b)
               ELSE Becomes(s, [session[s] EXCEPT !.pc = "insert"])
    BY <1>4 DEF Scan
  <2>2. rows' = rows
    BY <1>4 DEF Scan
  <2>3. CASE Fetched(s, b) /\ b > head
    BY <1>1, <1>2, <2>1, <2>3 DEF Done
  <2>4. CASE ~(Fetched(s, b) /\ b > head) /\ b \in rows
    BY <1>2, <2>1, <2>2, <2>4 DEF Done
  <2>5. CASE ~(Fetched(s, b) /\ b > head) /\ b \notin rows
    BY <1>3, <2>1, <2>5
  <2> QED BY <2>3, <2>4, <2>5
<1>5. CASE FetchFails(s)
  <2>1. PICK b \in Transfers :
          passed' = [passed EXCEPT ![session[s].lane] = @ \cup {b}] /\ Drop(s, b)
    BY <1>5 DEF FetchFails
  <2> QED BY <1>1, <1>2, <2>1 DEF Done
<1> QED BY <1>4, <1>5

LEMMA NoClientHeals ==
  ASSUME Typed, [Next]_vars, Healing, NEW s \in Sessions, NoClient(s)
  PROVE  Healing'
<1>1. checkpoint' = checkpoint /\ origin' = origin
  BY DEF NoClient
<1>2. DeliveryWork(s)'
  <2>1. CASE session[s].lane = "base"
    <3>1. passed \in [Lanes -> SUBSET Transfers] /\ "base" \in Lanes
      BY DEF Typed, TypeOK, Lanes
    <3>2. GapLeft(s) \subseteq Done'
      BY <2>1, <3>1, ClientFields DEF Done
    <3> QED BY <2>1, <3>2, ClientFields, OnItGoes
  <2>2. CASE session[s].lane # "base"
    BY <2>2, ClientFields, NotDelivering
  <2> QED BY <2>1, <2>2
<1> QED BY <1>1, <1>2, ClientFields, HealingBy

\* A commit takes the cursor over what stood before the cursor read, the gap, what the
\* gap leaves out, and the batch; all of it is safe once the commit is made.
LEMMA CommitHeals ==
  ASSUME Typed, [Next]_vars, Healing, NEW s \in Sessions, CommitCursor(s), session[s].dirty,
         session[s].pc # "idle",
         session[s].left \subseteq Done' \cup Held(s)'
  PROVE  Window(origin'["base"], checkpoint'["base"]) \subseteq Safe'
<1> DEFINE first == session[s].first
           last == session[s].last
           read == session[s].read
<1>1. /\ session[s].lane = "base" /\ first \in Nat /\ last \in Nat /\ read \in Cursor
      /\ first <= last
  BY SessionFields DEF ShapeOf
<1>2. /\ checkpoint["base"] \in Cursor /\ origin["base"] \in Cursor
      /\ checkpoint \in [Lanes -> Cursor] /\ origin \in [Lanes -> Cursor]
      /\ passed \in [Lanes -> SUBSET Transfers] /\ "base" \in Lanes
  BY DEF Typed, TypeOK, Cursor, Lanes
<1>3. /\ checkpoint'["base"] = NewProcessed(s)
      /\ origin'["base"] = (IF checkpoint["base"] = NoBlock THEN first ELSE origin["base"])
      /\ Truncated(s) \subseteq passed'["base"] /\ UnseenGap(s) \subseteq cut'
  BY <1>2 DEF CommitCursor, BeginsAt
<1>4. NewProcessed(s) \in Nat /\ (NewProcessed(s) = read \/ NewProcessed(s) = last)
  BY NewProcessedTyped
<1>5. DeliveryWork(s)
  BY DEF Healing
<1>6. /\ Safe \subseteq Safe' /\ Done \subseteq Done'
      /\ Done' \subseteq Safe' /\ cut' \subseteq Safe' /\ Held(s)' \subseteq Safe'
      /\ Truncated(s) \subseteq Safe'
  <2>1. Safe \subseteq Safe' /\ Done \subseteq Done'
    BY SafeGrows, DoneGrows
  <2>2. Done' \subseteq Safe' /\ cut' \subseteq Safe'
    BY DEF Safe
  <2>3. Held(s)' \subseteq Safe'
    BY DEF Safe
  <2>4. Truncated(s) \subseteq Done'
    BY <1>3 DEF Done
  <2> QED BY <2>1, <2>2, <2>3, <2>4
<1> SUFFICES ASSUME NEW b \in Window(origin'["base"], checkpoint'["base"])
             PROVE  b \in Safe'
  OBVIOUS
<1>7. origin'["base"] \in Int /\ checkpoint'["base"] \in Int
  BY <1>1, <1>2, <1>3, <1>4 DEF Cursor, NoBlock
<1>8. b \in Transfers /\ origin'["base"] <= b /\ b <= checkpoint'["base"]
  BY <1>7, WindowMember
<1>9. b \in Nat
  BY <1>8, TransfersAreBlocks
<1>10. CASE first <= b /\ b <= last
  <2>1. b \in Window(first, last)
    BY <1>1, <1>8, <1>10, WindowMember
  <2>2. b \in Done \cup session[s].left
    BY <1>1, <1>5, <2>1 DEF DeliveryWork
  <2> QED BY <1>6, <2>2
<1>11. CASE read # NoBlock /\ b <= read
  <2>1. checkpoint["base"] # NoBlock /\ Window(origin["base"], read) \subseteq Safe
    BY <1>1, <1>5, <1>11 DEF DeliveryWork
  <2>2. origin["base"] <= b /\ origin["base"] \in Int /\ read \in Int
    BY <1>1, <1>2, <1>3, <1>8, <2>1 DEF Cursor, NoBlock
  <2>3. b \in Window(origin["base"], read)
    BY <1>8, <1>11, <2>2, WindowMember
  <2> QED BY <1>6, <2>1, <2>3
<1>12. CASE read # NoBlock /\ read < b /\ b < first
  <2> DEFINE to == Capped(read + 1, first - 1)
  <2>1. read + 1 \in Int /\ first - 1 \in Int /\ to \in Int /\ GapCap \in Int
    BY <1>1, BlocksAssumption DEF Cursor, NoBlock, Capped, Lower
  <2>2. read + 1 <= b /\ b <= first - 1
    BY <1>1, <1>9, <1>12 DEF Cursor, NoBlock
  <2>3. CASE b <= to
    <3>1. b \in Window(read + 1, to)
      BY <1>8, <2>1, <2>2, <2>3, WindowMember
    <3>2. b \in Gap(s)
      BY <1>12, <3>1 DEF Gap
    <3>3. b \in Done \cup session[s].left
      BY <1>1, <1>5, <3>2 DEF DeliveryWork
    <3> QED BY <1>6, <3>3
  <2>4. CASE ~(b <= to)
    <3>1. to + 1 \in Int /\ to + 1 <= b
      BY <1>9, <2>1, <2>4
    <3>2. b \in Window(to + 1, first - 1)
      BY <1>8, <2>1, <2>2, <3>1, WindowMember
    <3>3. b \in Truncated(s)
      BY <1>12, <3>2 DEF Truncated
    <3> QED BY <1>6, <3>3
  <2> QED BY <2>3, <2>4
<1>13. CASE read = NoBlock /\ b < first
  <2>1. checkpoint["base"] # NoBlock /\ origin["base"] <= b
    BY <1>1, <1>3, <1>8, <1>9, <1>13
  <2>2. checkpoint["base"] \in Int /\ origin["base"] \in Int
    BY <1>2 DEF Cursor, NoBlock
  <2>3. CASE b <= checkpoint["base"]
    <3>1. b \in Window(origin["base"], checkpoint["base"])
      BY <1>8, <2>1, <2>2, <2>3, WindowMember
    <3> QED BY <1>6, <2>1, <3>1 DEF Healing
  <2>4. CASE ~(b <= checkpoint["base"])
    <3>1. checkpoint["base"] + 1 \in Int /\ first - 1 \in Int
          /\ checkpoint["base"] + 1 <= b /\ b <= first - 1
      BY <1>1, <1>9, <1>13, <2>2, <2>4
    <3>2. b \in Window(checkpoint["base"] + 1, first - 1)
      BY <1>8, <3>1, WindowMember
    <3>3. b \in UnseenGap(s)
      BY <1>13, <2>1, <3>2 DEF UnseenGap, Jumped
    <3> QED BY <1>3, <1>6, <3>3
  <2> QED BY <2>3, <2>4
<1>14. b <= last \/ (read # NoBlock /\ b <= read)
  BY <1>1, <1>3, <1>4, <1>8, <1>9 DEF Cursor, NoBlock
<1>15. read # NoBlock => read \in Nat
  BY <1>1 DEF Cursor
<1> QED BY <1>1, <1>9, <1>10, <1>11, <1>12, <1>13, <1>14, <1>15

LEMMA InsertHeals ==
  ASSUME Typed, [Next]_vars, Healing, NEW s \in Sessions, Insert(s)
  PROVE  Healing'
<1>1. PICK b \in Transfers :
        /\ rows' = rows \cup {b}
        /\ Becomes(s, [session[s] EXCEPT !.pc = "walk", !.dirty = FALSE, !.left = @ \ {b}])
  BY DEF Insert
<1>2. CommitCursor(s) /\ session[s].pc = "insert"
  BY DEF Insert
<1>3. b \in Done'
  BY <1>1 DEF Done
<1>4. /\ session'[s].pc = "walk" /\ session'[s].left = session[s].left \ {b}
      /\ session'[s].lane = session[s].lane /\ session'[s].first = session[s].first
      /\ session'[s].last = session[s].last /\ session'[s].read = session[s].read
      /\ session'[s].dirty = FALSE
      /\ \A t \in Sessions : t # s => session'[t] = session[t]
  BY <1>1, InsertFields
<1>5. DeliveryWork(s)'
  <2>1. CASE session[s].lane = "base"
    BY <1>2, <1>3, <1>4, <2>1, OnItGoes
  <2>2. CASE session[s].lane # "base"
    BY <1>4, <2>2, NotDelivering
  <2> QED BY <2>1, <2>2
<1>6. CASE session[s].dirty
  <2>1. session[s].lane = "base"
    BY <1>6, SessionFields DEF ShapeOf
  <2>2. session[s].left \subseteq Done' \cup Held(s)'
    BY <1>3, <1>4, <2>1 DEF Held
  <2>3. Window(origin'["base"], checkpoint'["base"]) \subseteq Safe'
    BY <1>2, <1>6, <2>2, CommitHeals
  <2> QED BY <1>5, <1>4, <2>3, HealingBy
<1>7. CASE ~session[s].dirty
  BY <1>2, <1>5, <1>7, <1>4, HealingBy DEF CommitCursor
<1> QED BY <1>6, <1>7

LEMMA IdleHeals ==
  ASSUME NEW s \in Sessions, Finish(s), Typed
  PROVE  DeliveryWork(s)' /\ \A t \in Sessions : t # s => session'[t] = session[t]
<1>1. session'[s] = Idle /\ \A t \in Sessions : t # s => session'[t] = session[t]
  BY Moved DEF Finish
<1> QED BY <1>1, NotDelivering DEF Idle

LEMMA AnswerHeals ==
  ASSUME Typed, [Next]_vars, Healing, NEW s \in Sessions, Answer(s)
  PROVE  Healing'
<1>1. /\ DeliveryWork(s)' /\ \A t \in Sessions : t # s => session'[t] = session[t]
      /\ CommitCursor(s) /\ session[s].left = {} /\ session[s].pc = "walk"
  BY IdleHeals DEF Answer
<1>2. CASE session[s].dirty
  BY <1>1, <1>2, CommitHeals, HealingBy
<1>3. CASE ~session[s].dirty
  BY <1>1, <1>3, HealingBy DEF CommitCursor
<1> QED BY <1>2, <1>3

LEMMA QuietHeals ==
  ASSUME Typed, [Next]_vars, Healing, NEW s \in Sessions,
         \/ TrackFails(s) \/ LoadTargets(s) \/ LoadFails(s) \/ Abort(s)
         \/ HeadUnknown(s) \/ RunLiveTip(s) \/ RunBackfill(s)
  PROVE  Healing'
<1>1. checkpoint' = checkpoint /\ origin' = origin
  BY DEF TrackFails, LoadTargets, LoadFails, Abort, HeadUnknown, RunLiveTip, RunBackfill
<1>2. CASE Finish(s)
  BY <1>1, <1>2, IdleHeals, HealingBy
<1>3. ASSUME NEW r, Becomes(s, r), r.lane # "base" PROVE Healing'
  BY <1>1, <1>3, Moved, NotDelivering, HealingBy
<1>4. CASE TrackFails(s) \/ LoadTargets(s)
  <2>1. PICK pc \in {"load", "walk"} : Becomes(s, [session[s] EXCEPT !.pc = pc])
    BY <1>4 DEF TrackFails, LoadTargets
  <2> DEFINE r == [session[s] EXCEPT !.pc = pc]
  <2>2. session'[s] = r /\ \A t \in Sessions : t # s => session'[t] = session[t]
    BY <2>1, Moved
  <2>3. /\ r.lane = session[s].lane /\ r.first = session[s].first /\ r.last = session[s].last
        /\ r.read = session[s].read /\ r.left = session[s].left /\ r.dirty = session[s].dirty
    BY SessionFields DEF SessionType
  <2>4. session[s].pc # "idle"
    BY <1>4 DEF TrackFails, LoadTargets
  <2>5. DeliveryWork(s)'
    BY <2>2, <2>3, <2>4, OnItGoes, NotDelivering
  <2> QED BY <1>1, <2>2, <2>5, HealingBy
<1>5. CASE LoadFails(s) \/ Abort(s)
  BY <1>2, <1>5 DEF LoadFails, Abort
<1>6. CASE HeadUnknown(s) \/ RunLiveTip(s) \/ RunBackfill(s)
  <2>1. session[s].lane # "base"
    BY <1>6, SessionFields DEF ShapeOf, HeadUnknown, RunLiveTip, RunBackfill
  <2>2. [session[s] EXCEPT !.pc = "history", !.bound = checkpoint["live"]].lane # "base"
    BY <2>1, SessionFields DEF SessionType
  <2>3. [session[s] EXCEPT !.pc = "walk", !.lane = "live",
           !.first = LiveStart, !.last = LiveEnd, !.left = Window(LiveStart, LiveEnd),
           !.snaps = (checkpoint["live"] = NoBlock \/ Stale)].lane # "base"
    BY SessionFields DEF SessionType
  <2>4. [session[s] EXCEPT !.pc = "walk", !.lane = "backfill",
           !.first = checkpoint["backfill"] + 1, !.last = BackfillEnd(s),
           !.left = Window(checkpoint["backfill"] + 1, BackfillEnd(s)), !.snaps = FALSE].lane
         # "base"
    BY SessionFields DEF SessionType
  <2>5. CASE HeadUnknown(s)
    BY <1>3, <2>2, <2>5 DEF HeadUnknown
  <2>6. CASE RunLiveTip(s)
    BY <1>3, <2>2, <2>3, <2>6 DEF RunLiveTip
  <2>7. CASE RunBackfill(s)
    BY <1>2, <1>3, <2>4, <2>7 DEF RunBackfill
  <2> QED BY <1>6, <2>5, <2>6, <2>7
<1> QED BY <1>4, <1>5, <1>6

LEMMA TickHeals ==
  ASSUME Typed, [Next]_vars, Healing, NEW s \in Sessions, StartTick(s) \/ AdvanceLane(s)
  PROVE  Healing'
<1>1. checkpoint'["base"] = checkpoint["base"] /\ origin'["base"] = origin["base"]
  <2>1. checkpoint \in [Lanes -> Cursor] /\ origin \in [Lanes -> Cursor] /\ "base" \in Lanes
    BY DEF Typed, TypeOK, Cursor, Lanes
  <2> QED BY <2>1 DEF StartTick, AdvanceLane, BeginsAt
<1>2. CASE Finish(s)
  BY <1>1, <1>2, IdleHeals, HealingBy
<1>3. ASSUME NEW r, Becomes(s, r), r.lane # "base" PROVE Healing'
  BY <1>1, <1>3, Moved, NotDelivering, HealingBy
<1>4. CASE StartTick(s)
  <2>1. [Idle EXCEPT !.pc = "live"].lane # "base"
    BY DEF Idle
  <2> QED BY <1>3, <1>4, <2>1 DEF StartTick
<1>5. CASE AdvanceLane(s)
  <2>1. [session[s] EXCEPT !.pc = "history", !.bound = session[s].last].lane # "base"
    BY <1>5, SessionFields DEF SessionType, AdvanceLane
  <2> QED BY <1>2, <1>3, <1>5, <2>1 DEF AdvanceLane
<1> QED BY <1>4, <1>5

LEMMA HealingStep ==
  ASSUME Typed, [Next]_vars, Healing
  PROVE  Healing'
<1>1. CASE Mine \/ UNCHANGED vars
  <2>1. session' = session /\ checkpoint' = checkpoint /\ origin' = origin
    BY <1>1 DEF Mine, vars
  <2>2. \A s \in Sessions : DeliveryWork(s)'
    BY <2>1, OthersDeliver
  <2> QED BY <2>1, <2>2, SafeGrows DEF Healing, Window
<1>2. CASE \E s \in Sessions, b \in Batches : Receive(s, b)
  BY <1>2, ReceiveHeals
<1>3. CASE \E s \in Sessions : StartTick(s)
  BY <1>3, TickHeals
<1>4. CASE \E s \in Sessions : Step(s)
  BY <1>4, TrackHeals, QuietHeals, AnswerHeals, WalkHeals, InsertHeals, TickHeals DEF Step
<1>5. CASE \E s \in Sessions : Fails(s)
  BY <1>5, QuietHeals, WalkHeals, NoClientHeals DEF Fails
<1> QED BY <1>1, <1>2, <1>3, <1>4, <1>5 DEF Next

LEMMA HealingInit == Init => Healing
<1> SUFFICES ASSUME Init PROVE Healing
  OBVIOUS
<1>1. checkpoint["base"] = NoBlock
  BY DEF Init, Lanes
<1>2. \A s \in Sessions : session[s].pc = "idle"
  BY DEF Init, Idle
<1> QED BY <1>1, <1>2 DEF Healing, DeliveryWork

\* Whatever its stream skipped, a transfer the delivery cursor has gone over has a row, is
\* in the hand of a handler, is owed by QuickNode, or was given up by name
\* (_track_stream_checkpoint_and_detect_gap, _backfill_stream_gap): in whatever order the
\* batches of any number of handlers are read, committed, aborted and delivered again.
THEOREM GapsHeal == Spec => []GapsHealUnlessCut
<1>1. Init => Typed /\ Healing
  BY TypedInit, HealingInit
<1>2. (Typed /\ Healing) /\ [Next]_vars => (Typed /\ Healing)'
  BY TypedStep, HealingStep
<1>3. Typed /\ Healing => GapsHealUnlessCut
  <2> SUFFICES ASSUME Typed, Healing PROVE GapsHealUnlessCut
    OBVIOUS
  <2>1. \A s \in Sessions : Held(s) \subseteq InHand(s)
    BY SessionFields DEF Held, InHand, Pushed, ShapeOf
  <2>2. UNION {Held(s) : s \in Sessions} \subseteq UNION {InHand(s) : s \in Sessions}
    BY <2>1
  <2> QED BY <2>2 DEF Healing, GapsHealUnlessCut, Safe, Done
<1> QED BY <1>1, <1>2, <1>3, PTL DEF Spec

=============================================================================
