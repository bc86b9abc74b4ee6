------------------------- MODULE PolicyEnforcement -------------------------
(***************************************************************************)
(* The producer of the policy verdicts the execution gate reads            *)
(* (services/api/app/domains/governance_policy/enforcement.py) beside the  *)
(* editing of the policy itself (governance_policy/service.py).            *)
(*                                                                         *)
(* An evaluation pass reads the clock, the canonical facts, the governing  *)
(* policy, if there is none whether anything governs the scope and under   *)
(* which versions, a verdict already recorded for the same fact digest and *)
(* today's issuance total, each in a statement of its own at READ          *)
(* COMMITTED, and then inserts one immutable row.  Any read may fail, with *)
(* a consequence of its own.  Nothing in the table makes two rows for one  *)
(* digest collide, so passes interleave freely.                            *)
(*                                                                         *)
(* One policy, one workspace; the actions share an incident.               *)
(***************************************************************************)
EXTENDS Naturals, FiniteSets

CONSTANTS
    Actions,      \* response actions of one incident
    Passes,       \* evaluation passes (HTTP calls) the model admits
    Edits,        \* policy edits (HTTP calls) the model admits
    Facts,        \* what the canonical rows may say of an action
    Identified,   \* facts from which the operation can be established
    Permits,      \* Permits[v]: facts version v of the policy allows
    Amount,       \* amount_usd of every action
    Cap,          \* maximum_daily_amount_usd
    MaxVersion,   \* bound: policy versions
    MaxDay,       \* bound: UTC days
    MaxChanges,   \* bound: changes of facts
    Nothing       \* "no row", "no policy", "not read"

ASSUME FactsAssumption == /\ Identified \subseteq Facts
                          /\ Nothing \notin Facts
ASSUME NumbersAssumption == /\ Amount \in Nat /\ Cap \in Nat
                            /\ MaxVersion \in Nat \ {0} /\ MaxChanges \in Nat
                            /\ MaxDay \in Nat \ {0}
                            /\ Permits \in [1..MaxVersion -> SUBSET Facts]

VARIABLES
    facts,      \* facts[a]: canonical facts about a
    policy,     \* current governance policy row: version and status
    history,    \* governance_policy_versions
    rows,       \* governance_policy_evaluations with simulation = FALSE
    clock,      \* utc_now(), advanced by each pass that reads it
    today,      \* its UTC day
    pass,       \* the evaluation passes
    edit,       \* the policy edits
    changes,    \* bound: changes so far
    settled     \* history: actions whose last pass saw what is true now

vars == <<facts, policy, history, rows, clock, today, pass, edit, changes, settled>>

Statuses == {"ACTIVE", "DISABLED"}
Policy   == [version : 1..MaxVersion, status : Statuses]
\* What a pass knows, and what digest() makes a fingerprint of; Nothing for a
\* supplementary fact that could not be read.  No policy has version 0.  scope is
\* the version scope_policy_refs names in the sources of a fail-closed digest.
Digest == [action : Actions, seen : Facts \cup {Nothing}, version : 0..MaxVersion,
           scope : 0..MaxVersion]
RowOf  == [digest : Digest, decision : {"ALLOW", "DENY"}, at : Nat,
           day : 1..MaxDay, by : Passes]
\* History in a pass: clean, nothing it reads was disturbed; after, the passes that
\* had ended when it began; blind, its look for an earlier verdict failed.
Pass   == [pc : {"idle", "facts", "policy", "scope", "refs", "lookup", "judge", "record",
                 "done"},
           digest : Digest \cup {Nothing}, at : Nat, day : 1..MaxDay, total : Nat,
           status : {"none", "lost", "no_policy", "already", "recorded"},
           clean : BOOLEAN, after : SUBSET Passes, blind : BOOLEAN]
Edit   == [pc : {"idle", "update", "done"}, base : 0..MaxVersion]

ASSUME NothingAssumption == Nothing \notin RowOf

TypeOK ==
    /\ facts \in [Actions -> Facts]
    /\ policy \in Policy
    /\ history \subseteq Policy
    /\ rows \subseteq RowOf
    /\ clock \in Nat
    /\ today \in 1..MaxDay
    /\ pass \in [Passes -> Pass]
    /\ edit \in [Edits -> Edit]
    /\ changes \in Nat
    /\ settled \subseteq Actions

-----------------------------------------------------------------------------
(* Judging *)

\* governing_policy, policy_scope_governed and scope_policy_refs
Governed      == policy.status = "ACTIVE"
Matched(seen) == IF Governed /\ seen \in Identified THEN policy.version ELSE 0
InScope       == IF Governed THEN policy.version ELSE 0

\* daily_total_usd, for the UTC day the pass read
Allowed(d)   == {r \in rows : r.decision = "ALLOW" /\ r.day = d}
AllowedOn(d) == Cardinality(Allowed(d)) * Amount

\* mutant: the cap is compared with the prior total alone
VerdictOnPriorTotal(d, total) ==
    IF d.version # 0 /\ d.seen \in Permits[d.version] /\ total <= Cap
    THEN "ALLOW" ELSE "DENY"
\* mutant: an operation no policy matches is recorded as not applicable
VerdictNotApplicable(d, total) ==
    IF d.version = 0 THEN "NOT_APPLICABLE"
    ELSE IF d.seen \in Permits[d.version] /\ total + Amount <= Cap
    THEN "ALLOW" ELSE "DENY"
\* evaluate_policy: no policy is a fail-closed DENY
Verdict(d, total) ==
    IF d.version # 0 /\ d.seen \in Permits[d.version] /\ total + Amount <= Cap
    THEN "ALLOW" ELSE "DENY"

\* mutants: a digest without the action; policy_id compared with "=", which no
\* fail-closed row satisfies
ExistingForAny(d) == \E r \in rows : r.digest = [d EXCEPT !.action = r.digest.action]
ExistingGoverned(d) == d.version # 0 /\ \E r \in rows : r.digest = d
\* existing_evaluation, when its read succeeds
Existing(d) == \E r \in rows : r.digest = d

-----------------------------------------------------------------------------
(* What the gate reads: latest_policy_evaluation *)

Own(a)    == {r \in rows : r.digest.action = a}
Latest(R) == CHOOSE r \in R : \A q \in R : q.at <= r.at
Seen(a)   == IF Own(a) # {} THEN Latest(Own(a))
             ELSE IF rows # {} THEN Latest(rows) ELSE Nothing

\* mutant: a sibling's ALLOW is adopted
GateAdoptsAny(a) ==
    IF Seen(a) = Nothing THEN ~Governed
    ELSE /\ Seen(a).decision = "ALLOW"
         /\ Seen(a).digest.version = policy.version
\* the policy half of evaluate_gate
GatePolicyHolds(a) ==
    IF Seen(a) = Nothing THEN ~Governed
    ELSE /\ Seen(a).decision = "ALLOW"
         /\ Seen(a).digest.action = a
         /\ Seen(a).digest.version = policy.version

-----------------------------------------------------------------------------
IdlePass == [pc |-> "idle", digest |-> Nothing, at |-> 0, day |-> 1, total |-> 0,
             status |-> "none", clean |-> FALSE, after |-> {}, blind |-> FALSE]

Init ==
    /\ facts \in [Actions -> Facts]
    /\ policy = [version |-> 1, status |-> "ACTIVE"]
    /\ history = {policy}
    /\ rows = {}
    /\ clock = 0 /\ today = 1
    /\ pass = [p \in Passes |-> IdlePass]
    /\ edit = [e \in Edits |-> [pc |-> "idle", base |-> 0]]
    /\ changes = 0
    /\ settled = {}

world == <<facts, policy, history, today, edit, changes>>

\* The call returns: of a pass only its report is left, and its history.
End(p, status) ==
    /\ pass' = [pass EXCEPT ![p] = [IdlePass EXCEPT
                  !.pc = "done", !.status = status, !.digest = pass[p].digest,
                  !.after = pass[p].after, !.blind = pass[p].blind]]
    /\ settled' = IF pass[p].clean /\ status \in {"already", "recorded"}
                  THEN settled \cup {pass[p].digest.action}
                  ELSE settled

-----------------------------------------------------------------------------
(* evaluate_response_action, statement by statement *)

BeginPass(p, a) ==
    /\ pass[p].pc = "idle"
    /\ clock' = clock + 1
    /\ pass' = [pass EXCEPT ![p] =
                  [pc |-> "facts", at |-> clock + 1, day |-> today, total |-> 0,
                   digest |-> [action |-> a, seen |-> Nothing, version |-> 0, scope |-> 0],
                   status |-> "none", clean |-> TRUE, blind |-> FALSE,
                   after |-> {q \in Passes : pass[q].pc = "done"}]]
    /\ settled' = settled \ {a}
    /\ UNCHANGED <<rows, world>>

\* resolve_action_facts: a material gap abandons the pass; a supplementary one
\* leaves an incomplete operation context, which no policy is matched with
ReadFacts(p) ==
    /\ pass[p].pc = "facts"
    /\ \/ End(p, "lost")
       \/ /\ pass' = [pass EXCEPT ![p].pc = "policy",
                        ![p].digest.seen = facts[pass[p].digest.action]]
          /\ UNCHANGED settled
       \/ /\ pass' = [pass EXCEPT ![p].pc = "scope", ![p].clean = FALSE]
          /\ UNCHANGED settled
    /\ UNCHANGED <<rows, clock, world>>

\* governing_policy; raising it abandons the pass
ReadPolicy(p) ==
    /\ pass[p].pc = "policy"
    /\ \/ End(p, "lost")
       \/ /\ pass' = [pass EXCEPT
                  ![p].pc = IF Matched(pass[p].digest.seen) # 0 THEN "lookup" ELSE "scope",
                  ![p].digest.version = Matched(pass[p].digest.seen)]
          /\ UNCHANGED settled
    /\ UNCHANGED <<rows, clock, world>>

\* policy_scope_governed, by a later statement than governing_policy
ReadScope(p) ==
    /\ pass[p].pc = "scope"
    /\ \/ End(p, "lost")
       \/ ~Governed /\ End(p, "no_policy")
       \/ /\ Governed
          /\ pass' = [pass EXCEPT ![p].pc = "refs"] /\ UNCHANGED settled
    /\ UNCHANGED <<rows, clock, world>>

\* scope_policy_refs: best effort, a failed read names no policy
ReadRefs(p) ==
    /\ pass[p].pc = "refs"
    /\ \E v \in {0, InScope} :
          pass' = [pass EXCEPT ![p].pc = "lookup", ![p].digest.scope = v]
    /\ UNCHANGED <<rows, clock, world, settled>>

\* existing_evaluation answers "none" as well when it could not look
LookUp(p) ==
    /\ pass[p].pc = "lookup"
    /\ \/ Existing(pass[p].digest) /\ End(p, "already")
       \/ /\ ~Existing(pass[p].digest)
          /\ pass' = [pass EXCEPT ![p].pc = "judge"] /\ UNCHANGED settled
       \/ /\ pass' = [pass EXCEPT ![p].pc = "judge", ![p].blind = TRUE]
          /\ UNCHANGED settled
    /\ UNCHANGED <<rows, clock, world>>

ReadTotal(p) ==
    /\ pass[p].pc = "judge"
    /\ pass' = [pass EXCEPT ![p].pc = "record", ![p].total = AllowedOn(pass[p].day)]
    /\ UNCHANGED <<rows, clock, world, settled>>

\* record_evaluation and the commit
Record(p) ==
    /\ pass[p].pc = "record"
    /\ rows' = rows \cup {[digest |-> pass[p].digest, at |-> pass[p].at, by |-> p,
                           day |-> pass[p].day,
                           decision |-> Verdict(pass[p].digest, pass[p].total)]}
    /\ End(p, "recorded")
    /\ UNCHANGED <<clock, world>>

\* an exception rolls back to the savepoint, a crash rolls the transaction back
AbortPass(p) ==
    /\ pass[p].pc \notin {"idle", "done"}
    /\ End(p, "lost")
    /\ UNCHANGED <<rows, clock, world>>

-----------------------------------------------------------------------------
(* apply_policy_update *)

BeginEdit(e) ==
    /\ edit[e].pc = "idle"
    /\ edit' = [edit EXCEPT ![e] = [pc |-> "update", base |-> policy.version]]
    /\ UNCHANGED <<facts, policy, history, rows, clock, today, pass, changes, settled>>

\* An in-flight pass may have read what is changing.
Disturb ==
    /\ settled' = {}
    /\ pass' = [p \in Passes |-> [pass[p] EXCEPT !.clean = FALSE]]

\* mutant: the WHERE clause does not carry the version
ApplyBlindly(e, status) ==
    /\ edit[e].pc = "update" /\ edit[e].base < MaxVersion
    /\ edit' = [edit EXCEPT ![e].pc = "done"]
    /\ policy'  = [version |-> edit[e].base + 1, status |-> status]
    /\ history' = history \cup {policy'}
    /\ Disturb
    /\ UNCHANGED <<facts, rows, clock, today, changes>>
ApplyEdit(e, status) ==
    /\ edit[e].pc = "update" /\ edit[e].base < MaxVersion
    /\ edit' = [edit EXCEPT ![e].pc = "done"]
    /\ IF edit[e].base = policy.version
       THEN /\ policy'  = [version |-> policy.version + 1, status |-> status]
            /\ history' = history \cup {policy'}
            /\ Disturb
       ELSE UNCHANGED <<policy, history, pass, settled>>
    /\ UNCHANGED <<facts, rows, clock, today, changes>>

-----------------------------------------------------------------------------
ChangeFacts(a, f) ==
    /\ changes < MaxChanges /\ f # facts[a]
    /\ facts' = [facts EXCEPT ![a] = f]
    /\ changes' = changes + 1
    /\ Disturb
    /\ UNCHANGED <<policy, history, rows, clock, today, edit>>

\* Midnight: a pass in flight keeps the day it began in.
NextDay ==
    /\ today < MaxDay /\ today' = today + 1
    /\ Disturb
    /\ UNCHANGED <<facts, policy, history, rows, clock, edit, changes>>

Next ==
    \/ \E p \in Passes :
         \/ \E a \in Actions : BeginPass(p, a)
         \/ ReadFacts(p) \/ ReadPolicy(p) \/ ReadScope(p) \/ ReadRefs(p) \/ LookUp(p)
         \/ ReadTotal(p) \/ Record(p) \/ AbortPass(p)
    \/ \E e \in Edits :
         \/ BeginEdit(e)
         \/ \E s \in Statuses : ApplyEdit(e, s)
    \/ \E a \in Actions, f \in Facts : ChangeFacts(a, f)
    \/ NextDay

Spec == Init /\ [][Next]_vars

-----------------------------------------------------------------------------
(* Properties *)

\* The gate passes an action on policy only when a verdict was reached for this
\* very action, on facts that were read, under the rules in force now - or when
\* nothing governs it (evaluate_gate over latest_policy_evaluation).
GateRestsOnAVerdict ==
    \A a \in Actions : GatePolicyHolds(a) =>
        \/ rows = {} /\ policy.status # "ACTIVE"
        \/ \E r \in Own(a) : /\ r.decision = "ALLOW"
                             /\ r.digest.version = policy.version
                             /\ r.digest.seen \in Permits[policy.version] \cap Identified

\* "history can never disagree with the current row" (apply_policy_update): the
\* versions are numbered without a gap or a fork and end in the current row.
HistoryMatchesPolicy ==
    /\ policy \in history
    /\ {h.version : h \in history} = 1..policy.version
    /\ Cardinality(history) = policy.version

\* A pass that reports a verdict leaves one for this action, so the gate never
\* stays at POLICY_EVALUATION_MISSING after a pass that did not lose a fact.
ReportedVerdictExists ==
    \A p \in Passes : pass[p].status \in {"already", "recorded"} =>
        \E r \in Own(pass[p].digest.action) : r.digest = pass[p].digest

\* Check 8 of evaluate_policy, "the daily issuance limit would not be exceeded":
\* every ALLOW fits the cap together with the ALLOWs of its day whose passes had
\* ended before its own began.  Passes that overlap may overrun the cap, by what
\* they allow while they overlap and no more; midnight, edits, failed reads and
\* changing facts never do.
EachAllowFits ==
    \A q \in {r \in rows : r.decision = "ALLOW"} :
        (Cardinality({r \in Allowed(q.day) : r.by \in pass[q.by].after}) + 1) * Amount
            <= Cap

\* "a missed match records a duplicate decision, while a false match would suppress
\* a real re-evaluation" (existing_evaluation): of two passes one after the other,
\* with whatever else in flight and days or edits between them, the later decides
\* a digest again only if it could not look for the earlier decision.
DecidedAgainOnlyBlind ==
    \A r, q \in rows : r.digest = q.digest /\ r.by \in pass[q.by].after
                       => pass[q.by].blind

\* "a re-evaluation produces the new decision rather than returning a stale one"
\* (EnforcementFacts.digest): after a pass nothing interfered with, the verdict
\* the gate reads for the action is the verdict on what is true now.
ReevaluationIsCurrent ==
    \A a \in settled :
        LET now == [action |-> a, seen |-> facts[a], version |-> Matched(facts[a])]
        IN  Seen(a).decision = Verdict(now, 0)

=============================================================================
