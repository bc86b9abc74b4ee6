-------------------------- MODULE WatchlistRanges --------------------------
(***************************************************************************)
(* The arithmetic of block ranges that plans of a backfill are made with   *)
(* (domains/external_watchlist/backfill.py): merge_ranges and              *)
(* subtract_ranges.  A range is a pair of block numbers; r[1] .. r[2] are  *)
(* its blocks.                                                             *)
(***************************************************************************)
EXTENDS Naturals, Sequences, FiniteSets

InRange(r) == r[1] .. r[2]
InRanges(rs) == UNION {InRange(rs[i]) : i \in 1 .. Len(rs)}

Least(a, b) == IF a < b THEN a ELSE b
Greatest(a, b) == IF a < b THEN b ELSE a

\* sorted(...) of a set of ranges
Before(r, s) == r[1] < s[1] \/ (r[1] = s[1] /\ r[2] <= s[2])
Sorted(rs) == CHOOSE s \in [1 .. Cardinality(rs) -> rs] :
                 \A i, j \in 1 .. Cardinality(rs) : i < j => s[i] # s[j] /\ Before(s[i], s[j])

\* merge_ranges: in order, and joined where they overlap or touch
Joined(merged, r) ==
    LET last == Len(merged) IN
    IF last > 0 /\ r[1] <= merged[last][2] + 1
    THEN [merged EXCEPT ![last] = <<merged[last][1], Greatest(merged[last][2], r[2])>>]
    ELSE Append(merged, r)

Merging(s) ==  \* after each range of s
    LET merged[n \in 0 .. Len(s)] ==
            IF n = 0 THEN <<>> ELSE Joined(merged[n - 1], s[n])
    IN merged
MergeRanges(rs) ==
    LET s == Sorted({r \in rs : r[1] <= r[2]}) IN Merging(s)[Len(s)]

\* subtract_ranges: what of the window no range of covered has
Cut(window, acc, c) ==
    IF c[2] < acc.cursor \/ c[1] > window[2] \/ acc.cursor > window[2] THEN acc
    ELSE [rest |-> IF c[1] > acc.cursor
                   THEN Append(acc.rest, <<acc.cursor, c[1] - 1>>) ELSE acc.rest,
          cursor |-> c[2] + 1]

Cutting(window, s) ==  \* after each range of s
    LET cut[n \in 0 .. Len(s)] ==
            IF n = 0 THEN [rest |-> <<>>, cursor |-> window[1]]
                     ELSE Cut(window, cut[n - 1], s[n])
    IN cut
SubtractRanges(window, covered) ==
    LET s == MergeRanges(covered)
        acc == Cutting(window, s)[Len(s)]
    IN IF acc.cursor <= window[2] THEN Append(acc.rest, <<acc.cursor, window[2]>>)
                                  ELSE acc.rest
-----------------------------------------------------------------------------
(* What they promise. *)

\* Ranges in order, with a block between any two of them.
Apart(rs) == \A i \in 2 .. Len(rs) : rs[i - 1][2] + 1 < rs[i][1]
Blocked(rs) == \A i \in 1 .. Len(rs) : rs[i][1] <= rs[i][2]
=============================================================================
