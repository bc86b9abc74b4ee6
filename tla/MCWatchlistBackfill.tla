------------------------ MODULE MCWatchlistBackfill ------------------------
(* Instances of WatchlistBackfill for TLC, and its range arithmetic checked   *)
(* against sets of blocks for every window and up to three ranges.            *)
EXTENDS WatchlistBackfill, TLC

CONSTANTS w1, w2

Pairs == (1 .. 5) \X (1 .. 5)
Few   == UNION {{{r, s, t} : t \in Pairs} : <<r, s>> \in
            {<<r, s>> \in Pairs \X Pairs : r[1] <= s[1]}}

ASSUME RangesAssumption ==
    \A covered \in Few :
        LET blocks == UNION {InRange(r) : r \in covered} IN
        /\ InRanges(MergeRanges(covered)) = blocks /\ Apart(MergeRanges(covered))
        /\ \A window \in {<<1, 5>>, <<2, 4>>, <<3, 3>>, <<4, 3>>} :
              LET rest == SubtractRanges(window, covered) IN
              InRanges(rest) = InRange(window) \ blocks /\ Apart(rest)
=============================================================================
