---------------------------- MODULE AlertChannel ----------------------------
(***************************************************************************)
(* What alert delivery promises its subscribers: an alert event that has   *)
(* been committed reaches its workspace's stream, at most once, unless it  *)
(* is given up in the open.  It may still be delivered after that.         *)
(***************************************************************************)
EXTENDS Naturals

CONSTANT Events

VARIABLES accepted,   \* events committed with their alert
          delivered,  \* delivered[e]: entries of e on the workspace stream
          abandoned   \* events some dead-letter record exists for

channel == <<accepted, delivered, abandoned>>

Init == /\ accepted = {}
        /\ delivered = [e \in Events |-> 0]
        /\ abandoned = {}

Accept(e) == /\ e \notin accepted
             /\ accepted' = accepted \cup {e}
             /\ UNCHANGED <<delivered, abandoned>>

Deliver(e) == /\ e \in accepted
              /\ delivered[e] = 0
              /\ delivered' = [delivered EXCEPT ![e] = 1]
              /\ UNCHANGED <<accepted, abandoned>>

\* Events may be given up together: one commit can carry several of them.
Abandon(S) == /\ S # {} /\ S \subseteq accepted \ abandoned
              /\ abandoned' = abandoned \cup S
              /\ UNCHANGED <<accepted, delivered>>

Next == \/ \E e \in Events : Accept(e) \/ Deliver(e)
        \/ \E S \in SUBSET Events : Abandon(S)

Outstanding(e) == e \in accepted \ abandoned /\ delivered[e] = 0

Settle(e) == /\ Outstanding(e)
             /\ Deliver(e) \/ \E S \in SUBSET Events : e \in S /\ Abandon(S)

Steps == Init /\ [][Next]_channel
Spec  == Steps /\ \A e \in Events : WF_channel(Settle(e))
=============================================================================
