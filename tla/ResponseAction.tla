--------------------------- MODULE ResponseAction ---------------------------
(***************************************************************************)
(* The life of one response action (a row of response_actions): approval,  *)
(* rejection, the deterministic execution gate, execution and rollback     *)
(* (services/api/app/pilot.py, domains/response_gate/).                    *)
(*                                                                         *)
(* Every handler opens its own PostgreSQL transaction at READ COMMITTED,   *)
(* reads the row with a plain SELECT, and ends with an UPDATE whose WHERE  *)
(* clause names only the id.  A handler is therefore a request that moves  *)
(* through a few steps, and requests interleave at those steps.  A step    *)
(* that ends in COMMIT installs the handler's UPDATE on the row that is    *)
(* current at that moment, as PostgreSQL does once the row lock is free.   *)
(*                                                                         *)
(* Requests are one-shot, so the number of requests bounds the model.      *)
(***************************************************************************)
EXTENDS Naturals, FiniteSets

CONSTANTS
    Users,            \* members of the workspace
    NoUser,           \* approved_by_user_id IS NULL
    Proposer,         \* created_by_user_id
    Requests,         \* HTTP requests the model admits
    PolicyRoles,      \* governance roles the governing policy names
    NoRole,           \* an approval cast without approval_role
    HoldsRole,        \* HoldsRole[u]: roles u's membership evidences
    Modes,            \* modes the action may be created in
    LivePath,         \* live_execution_path of the action type
    RequiresApproval, \* lifecycle.requires_approval of the action type
    RequiredQuorum,   \* _required_approval_quorum
    Governed,         \* does an ACTIVE policy cover the workspace/asset
    MaxVersion,       \* bound: policy versions published
    Admitted          \* bound: the operations and events an instance admits

ASSUME UsersAssumption == /\ Proposer \in Users
                          /\ NoUser \notin Users
ASSUME RolesAssumption == /\ NoRole \notin PolicyRoles
                          /\ HoldsRole \in [Users -> SUBSET PolicyRoles]
ASSUME KindAssumption ==
    /\ Modes \subseteq {"recommended", "simulated", "live"}
    /\ LivePath \in {"safe", "freeze", "governance", "manual_only", "unsupported"}
    /\ RequiresApproval \in BOOLEAN
    /\ Governed \in BOOLEAN
Operations == {"approve", "reject", "execute", "rollback"}
Events     == {"simulate", "evaluate", "sibling", "publish", "incident", "plan",
               "demote", "abort"}
ASSUME AdmittedAssumption == Admitted \subseteq Operations \cup Events
ASSUME BoundsAssumption == /\ RequiredQuorum \in Nat \ {0}
                           /\ MaxVersion \in Nat \ {0}
                           /\ IsFiniteSet(Users)
                           /\ IsFiniteSet(PolicyRoles)

VARIABLES
    row,           \* the response_actions row
    approvals,     \* committed response_action_approvals rows
    evaluation,    \* the row latest_policy_evaluation would return
    policyVersion, \* version of the governing policy now
    incidentOpen,  \* incidents.status is not resolved/suppressed/closed
    planLocked,    \* resolve_execution_lock(...)['locked']
    admins,        \* members whose role is owner or admin
    req,           \* the requests and how far each has come
    compensations, \* compensating actions rollbacks have inserted
    runs,          \* history: runs that took effect, see Run
    stops          \* history: stops standing since a request began

vars == <<row, approvals, evaluation, policyVersion, incidentOpen,
          planLocked, admins, req, compensations, runs, stops>>
world == <<evaluation, policyVersion, incidentOpen, planLocked, admins>>

-----------------------------------------------------------------------------
(* Types *)

Statuses   == {"pending", "executed", "failed", "canceled"}
ExecStates == {"proposed", "simulated", "recommended_approved",
               "live_manual_required", "failed", "unsupported"}
Row == [mode : {"recommended", "simulated", "live"},
        status : Statuses, execState : ExecStates,
        approvedBy : Users \cup {NoUser},
        rejected : BOOLEAN, rolledBack : BOOLEAN]

Approval == [user : Users, decision : {"approved", "rejected"},
             role : PolicyRoles \cup {NoRole}]

\* own: the evaluation's input snapshot names this action (ACTION_SPECIFIC)
NoEvaluation == [own |-> FALSE, decision |-> "NONE", version |-> 0]
Evaluation == [own : BOOLEAN, decision : {"ALLOW", "DENY", "NONE"},
               version : 0..MaxVersion]

Stops == {"executed", "canceled", "rejected", "rolled_back",
          "denied", "incident_closed", "plan_locked"}
Steps == {"idle", "approve", "recorded", "advance", "reject", "verdict",
          "gate", "run", "finish", "fail", "rollback", "done"}
Request == [pc : Steps, user : Users \cup {NoUser},
            role : PolicyRoles \cup {NoRole},
            snap : Row, verdict : Evaluation]
Run == [req : Requests, executor : Users, approver : Users \cup {NoUser},
        mode : {"recommended", "simulated", "live"},
        roles : SUBSET PolicyRoles, stops : SUBSET Stops]

TypeOK ==
    /\ row \in Row
    /\ approvals \subseteq Approval
    /\ evaluation \in Evaluation
    /\ policyVersion \in 1..MaxVersion
    /\ incidentOpen \in BOOLEAN
    /\ planLocked \in BOOLEAN
    /\ admins \subseteq Users
    /\ req \in [Requests -> Request]
    /\ compensations \in Nat
    /\ runs \subseteq Run
    /\ stops \in [Requests -> SUBSET Stops]

-----------------------------------------------------------------------------
(* The canonical lifecycle and the execution gate *)

\* approval_status of response_action_lifecycle
ApprovalStatus(action) ==
    IF action.rejected THEN "rejected"
    ELSE IF ~RequiresApproval THEN "not_required"
    ELSE IF action.approvedBy # NoUser THEN "approved" ELSE "pending"

Executed(action) == action.status = "executed"

\* build_gate_inputs: a borrowed ALLOW is discarded, a borrowed DENY is kept
Adopted(e) == IF e.decision = "ALLOW" /\ ~e.own THEN NoEvaluation ELSE e

PolicySatisfied(e) ==
    \/ e.own /\ e.decision = "ALLOW" /\ e.version = policyVersion
    \/ e.decision = "NONE" /\ ~Governed

RequiredRoles(e) == IF Adopted(e).decision = "NONE" THEN {} ELSE PolicyRoles

\* _quorum_facts and _quorum_met
Approved       == {a \in approvals : a.decision = "approved"}
Approvers      == {a.user : a \in Approved}
SatisfiedRoles == {a.role : a \in Approved}
GateQuorum(roles) ==
    LET numeric == IF RequiresApproval THEN RequiredQuorum ELSE 0
    IN  IF Cardinality(roles) > numeric THEN Cardinality(roles) ELSE numeric
\* mutant: the numeric threshold alone decides
QuorumMetByCount(action, roles) ==
    \/ GateQuorum(roles) = 0
    \/ approvals # {} /\ Cardinality(Approvers) >= GateQuorum(roles)
    \/ approvals = {} /\ ApprovalStatus(action) \in {"not_required", "approved"}
QuorumMet(action, roles) ==
    /\ roles \subseteq SatisfiedRoles
    /\ \/ GateQuorum(roles) = 0
       \/ approvals # {} /\ Cardinality(Approvers) >= GateQuorum(roles)
       \/ approvals = {} /\ ApprovalStatus(action) \in {"not_required", "approved"}

\* the terminal facts evaluate_gate reports first
Over(action) ==
    \/ Executed(action)
    \/ action.rolledBack \/ action.status = "canceled"
    \/ ApprovalStatus(action) = "rejected"

\* mutant: the incident is not looked at
GateWithoutIncident(action, e) ==
    /\ ~Over(action)
    /\ PolicySatisfied(e)
    /\ QuorumMet(action, RequiredRoles(e))
\* evaluate_gate on the row a request read and the facts the gate reads now
GateAuthorizes(action, e) ==
    /\ ~Over(action)
    /\ PolicySatisfied(e)
    /\ QuorumMet(action, RequiredRoles(e))
    /\ incidentOpen

ContactsProvider(action) == action.mode = "live" /\ LivePath \in {"safe", "freeze"}

\* (next status, execution state) of execute_enforcement_action
Outcome(action, pc) ==
    IF pc = "fail" THEN [status |-> "failed", execState |-> "failed"]
    ELSE IF action.mode = "simulated" THEN [status |-> "executed", execState |-> "simulated"]
    ELSE IF action.mode = "live" /\ LivePath = "unsupported"
         THEN [status |-> "failed", execState |-> "unsupported"]
    ELSE [status |-> "pending",
          execState |-> IF action.mode = "recommended" THEN "recommended_approved"
                        ELSE IF LivePath = "manual_only" THEN "live_manual_required"
                        ELSE "proposed"]

-----------------------------------------------------------------------------
(* History: the stops that have stood since a request began *)

StopsOf(action) ==
    {s \in Stops : \/ s = "executed"    /\ action.status = "executed"
                   \/ s = "canceled"    /\ action.status = "canceled"
                   \/ s = "rejected"    /\ action.rejected
                   \/ s = "rolled_back" /\ action.rolledBack}
StopsNow == StopsOf(row) \cup
    {s \in Stops : \/ s = "denied"          /\ evaluation.decision = "DENY"
                   \/ s = "incident_closed" /\ ~incidentOpen
                   \/ s = "plan_locked"     /\ planLocked /\ row.mode = "live"}

TrackStops ==
    stops' = [r \in Requests |->
                 IF req'[r].pc \in {"idle", "done"} THEN {}
                 ELSE IF req[r].pc = "idle" THEN StopsNow
                 ELSE stops[r] \cap StopsNow']

-----------------------------------------------------------------------------
IdleRequest == [pc |-> "idle", user |-> NoUser, role |-> NoRole,
                snap |-> [mode |-> "live", status |-> "pending",
                          execState |-> "proposed", approvedBy |-> NoUser,
                          rejected |-> FALSE, rolledBack |-> FALSE],
                verdict |-> NoEvaluation]

\* create_enforcement_action: only a simulated action may be created past pending
Init ==
    /\ row \in {[mode |-> m, status |-> s,
                 execState |-> IF m = "live" THEN "proposed" ELSE "simulated",
                 approvedBy |-> NoUser, rejected |-> FALSE, rolledBack |-> FALSE]
                  : m \in Modes, s \in Statuses}
    /\ row.mode # "simulated" => row.status = "pending"
    /\ approvals = {}
    /\ evaluation = NoEvaluation
    /\ policyVersion = 1
    /\ incidentOpen = TRUE
    /\ planLocked = FALSE
    /\ admins = Users
    /\ req = [r \in Requests |-> IdleRequest]
    /\ compensations = 0
    /\ runs = {}
    /\ stops = [r \in Requests |-> {}]

Begin(r, request) == /\ req[r].pc = "idle"
                     /\ req' = [req EXCEPT ![r] = request]
                     /\ UNCHANGED <<row, approvals, compensations, runs, world>>
Goto(r, pc) == req' = [req EXCEPT ![r].pc = pc]
Done(r)     == req' = [req EXCEPT ![r] = [IdleRequest EXCEPT !.pc = "done"]]

\* An uncommitted decision row of user u, held by another request: the unique
\* index makes a second INSERT of the same approver wait for it.
NeverPending(r, u) == FALSE    \* mutant: the table has no unique index
DecisionPending(r, u) ==
    \E q \in Requests \ {r} : req[q].pc \in {"recorded", "advance"} /\ req[q].user = u
Decided(u) == \E a \in approvals : a.user = u

-----------------------------------------------------------------------------
(* approve_enforcement_action *)

AnyAdminApproves(u) == u \in admins    \* mutant: approving one's own proposal
MayApprove(u) == u \in admins /\ u # Proposer

BeginApproveLate(r, u, role) ==    \* mutant: any status may be approved
    /\ MayApprove(u)
    /\ RequiresApproval
    /\ role \in HoldsRole[u] \cup {NoRole}
    /\ Begin(r, [IdleRequest EXCEPT !.pc = "approve", !.user = u, !.role = role])
BeginApprove(r, u, role) ==
    /\ MayApprove(u)
    /\ RequiresApproval
    /\ row.status \in {"pending", "failed"}
    /\ role \in HoldsRole[u] \cup {NoRole}
    /\ Begin(r, [IdleRequest EXCEPT !.pc = "approve", !.user = u, !.role = role])

\* _record_action_approval_decision then _action_approval_summary, which sees
\* the committed decisions and this transaction's own.
RecordApproval(r) ==
    /\ req[r].pc = "approve"
    /\ ~DecisionPending(r, req[r].user)
    /\ IF Decided(req[r].user) THEN Done(r)
       ELSE IF Cardinality(Approvers) + 1 < RequiredQuorum THEN Goto(r, "recorded")
       ELSE Goto(r, "advance")
    /\ UNCHANGED <<row, approvals, compensations, runs, world>>

\* mutants: a status outside ENFORCEMENT_STATUSES; the approver left out
AdvancedToApproved(u) == [row EXCEPT !.status = "approved", !.approvedBy = u]
AdvancedNamelessly(u) == [row EXCEPT !.status = "pending"]
Advanced(u) == [row EXCEPT !.status = "pending", !.approvedBy = u]

CommitApproval(r) ==
    /\ req[r].pc \in {"recorded", "advance"}
    /\ approvals' = approvals \cup
         {[user |-> req[r].user, decision |-> "approved", role |-> req[r].role]}
    /\ row' = IF req[r].pc = "recorded" THEN row ELSE Advanced(req[r].user)
    /\ Done(r)
    /\ UNCHANGED <<compensations, runs, world>>

-----------------------------------------------------------------------------
(* reject_enforcement_action: the proposer may reject, a repeated decision of *)
(* the same approver is tolerated, and the row is canceled in any case.       *)

BeginReject(r, u) ==
    /\ u \in admins
    /\ ~row.rejected /\ RequiresApproval
    /\ row.status \in {"pending", "failed"}
    /\ Begin(r, [IdleRequest EXCEPT !.pc = "reject", !.user = u])

CommitReject(r) ==
    /\ req[r].pc = "reject"
    /\ ~DecisionPending(r, req[r].user)
    /\ approvals' = IF Decided(req[r].user) THEN approvals
                    ELSE approvals \cup {[user |-> req[r].user,
                                          decision |-> "rejected", role |-> NoRole]}
    /\ row' = [row EXCEPT !.status = "canceled", !.rejected = TRUE]
    /\ Done(r)
    /\ UNCHANGED <<compensations, runs, world>>

-----------------------------------------------------------------------------
(* execute_enforcement_action *)

\* _verify_live_action_approver_role and the separation of duties around it
ApproverIsPrivileged(u) ==    \* mutant: the executor may be the approver
    row.approvedBy \in admins /\ row.approvedBy # Proposer
ApproverReleases(u) ==
    row.approvedBy \in admins /\ row.approvedBy \notin {Proposer, u}

\* The row and the tenant's plan are read once; the checks that do not need the
\* gate follow on that reading.
BeginExecute(r, u) ==
    /\ row.status = "pending"
    /\ row.mode # "simulated" => u \in admins
    /\ row.mode = "live" => ~planLocked /\ ApproverReleases(u)
    /\ Begin(r, [IdleRequest EXCEPT !.pc = "verdict", !.user = u, !.snap = row])

\* latest_policy_evaluation
ReadVerdict(r) ==
    /\ req[r].pc = "verdict"
    /\ req' = [req EXCEPT ![r].pc = "gate", ![r].verdict = evaluation]
    /\ UNCHANGED <<row, approvals, compensations, runs, world>>

\* _current_policy_version, approval_records, incident_status, evaluate_gate
PassGate(r) ==
    /\ req[r].pc = "gate"
    /\ IF GateAuthorizes(req[r].snap, req[r].verdict) THEN Goto(r, "run") ELSE Done(r)
    /\ UNCHANGED <<row, approvals, compensations, runs, world>>

RunOf(r) == [req |-> r, executor |-> req[r].user,
             approver |-> req[r].snap.approvedBy, mode |-> req[r].snap.mode,
             roles |-> RequiredRoles(req[r].verdict), stops |-> stops[r]]

\* _propose_safe_transaction, _submit_freeze_wallet_governance_action.  The
\* provider may have acted although no usable answer came back: the Safe path
\* then raises (the transaction rolls back), the freeze path records a failure.
ContactProvider(r) ==
    /\ req[r].pc = "run" /\ ContactsProvider(req[r].snap)
    /\ runs' = runs \cup {RunOf(r)}
    /\ \/ Goto(r, "finish")
       \/ LivePath = "safe" /\ Done(r)
       \/ LivePath = "freeze" /\ Goto(r, "fail")
    /\ UNCHANGED <<row, approvals, compensations, world>>

\* The closing UPDATE: execution_metadata (with rejected_at in it) is written
\* back whole, from the row read at the start.
FinishExecute(r) ==
    /\ \/ req[r].pc \in {"finish", "fail"} /\ runs' = runs
       \/ /\ req[r].pc = "run" /\ ~ContactsProvider(req[r].snap)
          /\ runs' = runs \cup {RunOf(r)}
    /\ row' = [row EXCEPT !.status    = Outcome(req[r].snap, req[r].pc).status,
                          !.execState = Outcome(req[r].snap, req[r].pc).execState,
                          !.rejected  = req[r].snap.rejected]
    /\ Done(r)
    /\ UNCHANGED <<approvals, compensations, world>>

-----------------------------------------------------------------------------
(* rollback_enforcement_action and simulate_response_action *)

BeginRollback(r, u) ==
    /\ row.status \in {"executed", "failed"}
    /\ Begin(r, [IdleRequest EXCEPT !.pc = "rollback", !.user = u])

CommitRollback(r) ==
    /\ req[r].pc = "rollback"
    /\ row' = [row EXCEPT !.status = "canceled", !.rolledBack = TRUE]
    /\ compensations' = compensations + 1
    /\ Done(r)
    /\ UNCHANGED <<approvals, runs, world>>

\* An unguarded UPDATE whose effect does not depend on the row it read, in any
\* status; simulate_all issues the same UPDATE for the rows it found eligible.
Simulate ==
    /\ row.mode # "simulated"
    /\ row' = [row EXCEPT !.mode = "simulated", !.execState = "simulated"]
    /\ UNCHANGED <<approvals, req, compensations, runs, world>>

\* A check that refuses, a lost database connection or a crash of the process:
\* the transaction rolls back and a provider already contacted stays contacted.
Abort(r) ==
    /\ req[r].pc \notin {"idle", "done"}
    /\ Done(r)
    /\ UNCHANGED <<row, approvals, compensations, runs, world>>

-----------------------------------------------------------------------------
(* The rest of the product, as far as the handlers read it *)

\* evaluate_response_action records a verdict for this action
RecordEvaluation(d) ==
    /\ Governed
    /\ evaluation' = [own |-> TRUE, decision |-> d, version |-> policyVersion]
    /\ UNCHANGED <<row, approvals, req, compensations, runs, policyVersion, incidentOpen, planLocked, admins>>

\* ... or for a sibling on the same incident or asset, visible while this
\* action has no verdict of its own
RecordSiblingEvaluation(d) ==
    /\ Governed /\ ~evaluation.own
    /\ evaluation' = [own |-> FALSE, decision |-> d, version |-> policyVersion]
    /\ UNCHANGED <<row, approvals, req, compensations, runs, policyVersion, incidentOpen, planLocked, admins>>

\* apply_policy_update with a material change
PublishPolicy ==
    /\ Governed /\ policyVersion < MaxVersion
    /\ policyVersion' = policyVersion + 1
    /\ UNCHANGED <<row, approvals, req, compensations, runs, evaluation, incidentOpen, planLocked, admins>>

SetIncident(open) ==
    /\ incidentOpen' = open
    /\ UNCHANGED <<row, approvals, req, compensations, runs, evaluation, policyVersion, planLocked, admins>>

SetPlanLock(on) ==
    /\ planLocked' = on
    /\ UNCHANGED <<row, approvals, req, compensations, runs, evaluation, policyVersion, incidentOpen, admins>>

Demote(u) ==
    /\ admins' = admins \ {u}
    /\ UNCHANGED <<row, approvals, req, compensations, runs, evaluation, policyVersion, incidentOpen, planLocked>>

-----------------------------------------------------------------------------
Operate(r, u) ==
    \/ /\ "approve" \in Admitted
       /\ \E role \in PolicyRoles \cup {NoRole} : BeginApprove(r, u, role)
    \/ "reject"   \in Admitted /\ BeginReject(r, u)
    \/ "execute"  \in Admitted /\ BeginExecute(r, u)
    \/ "rollback" \in Admitted /\ BeginRollback(r, u)

Step(r) ==
    \/ \E u \in Users : Operate(r, u)
    \/ RecordApproval(r) \/ CommitApproval(r) \/ CommitReject(r)
    \/ ReadVerdict(r) \/ PassGate(r) \/ ContactProvider(r) \/ FinishExecute(r)
    \/ CommitRollback(r)
    \/ "abort" \in Admitted /\ Abort(r)

Environment ==
    \/ "simulate" \in Admitted /\ Simulate
    \/ "evaluate" \in Admitted /\ \E d \in {"ALLOW", "DENY"} : RecordEvaluation(d)
    \/ "sibling"  \in Admitted /\ \E d \in {"ALLOW", "DENY"} : RecordSiblingEvaluation(d)
    \/ "publish"  \in Admitted /\ PublishPolicy
    \/ "incident" \in Admitted /\ \E b \in BOOLEAN : SetIncident(b)
    \/ "plan"     \in Admitted /\ \E b \in BOOLEAN : SetPlanLock(b)
    \/ "demote"   \in Admitted /\ \E u \in Users : Demote(u)

Next == /\ \/ \E r \in Requests : Step(r)
           \/ Environment
        /\ TrackStops

Spec == Init /\ [][Next]_vars

-----------------------------------------------------------------------------
(* Properties *)

\* One person decides an action at most once, however their requests interleave
\* (unique index uq_response_action_approvals_decision and the 409 before it).
OneDecisionPerApprover ==
    \A a, b \in approvals : a.user = b.user => a = b

\* The approver that approve_enforcement_action writes on the row is someone
\* whose approval is on record, and is never the proposer.
RowApproverOnRecord ==
    row.approvedBy # NoUser => row.approvedBy \in Approvers \ {Proposer}

\* Whatever ran had the quorum the gate demands: every role the policy names is
\* covered by a recorded approval, by enough distinct people, none the proposer.
QuorumBacked ==
    \A x \in runs :
        /\ x.roles \subseteq SatisfiedRoles
        /\ Cardinality(Approvers) >= GateQuorum(x.roles)
        /\ Proposer \notin Approvers

\* A live run joins two different people, neither of them approving their own
\* proposal: the recorded approver is neither the proposer nor the executor.
SeparationOfDuties ==
    \A x \in runs :
        x.mode = "live" => x.approver \in Approvers \ {Proposer, x.executor}

\* A reason to refuse that stands from the first read of a request to the moment
\* it would take effect stops it: an execution overtaken by nothing never runs
\* an action that is executed, canceled, rejected, rolled back, denied by
\* policy, of a closed incident or of a tenant without the entitlement.
HonoursStandingStops == \A x \in runs : x.stops = {}

\* Once enough distinct approvers have approved and no approval is under way,
\* the row carries an approver (the action has left "Awaiting Approval").
QuorumReachedIsRecorded ==
    (/\ Cardinality(Approvers) >= RequiredQuorum
     /\ \A r \in Requests : req[r].pc \notin {"approve", "recorded", "advance"})
    => row.approvedBy # NoUser

\* A rolled-back action has its compensating action, and no other has one
\* (rollback_enforcement_action inserts it in the same transaction).
RollbackCompensated == row.rolledBack <=> compensations > 0

\* What a terminal row may still become: an executed one is rolled back.
Reopens == \/ row.status = "executed" /\ row'.status \notin {"executed", "canceled"}
           \/ row.status = "canceled" /\ row'.status # "canceled"

\* "Terminal facts (executed / cancelled ...) are not recoverable by collecting
\* another approval" (evaluate_gate): no step reopens a terminal row.
TerminalIsFinal == [][~Reopens]_vars

\* Only a request that was overtaken reopens a terminal row: the closing UPDATE
\* of an approval or an execution that began while the row was in another
\* status.  Nobody who starts from the terminal row can reopen it.
OnlyOvertakenReopens ==
    [][Reopens => \E r \in Requests :
                     /\ req[r].pc \in {"advance", "run", "finish", "fail"}
                     /\ req'[r].pc = "done"
                     /\ row.status \notin stops[r]]_vars

=============================================================================
