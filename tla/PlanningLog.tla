---------------------------- MODULE PlanningLog ----------------------------
(***************************************************************************)
(* The store's side of one plan-only run under the                         *)
(* IndependentSemanticReviewV1 contract: the run's append-only event log   *)
(* and the admission rules every append passes inside one immediate SQLite *)
(* transaction (crates/store: validate_generic_event and the validators it *)
(* routes to).                                                             *)
(*                                                                         *)
(* LogSpec is what the store promises whoever calls it: any actor may      *)
(* propose any event, and only admissible ones are appended.  The daemon's *)
(* supervisor (module RunSupervision) is shown to implement it.            *)
(*                                                                         *)
(* An event's identity is its position in the log.  Its parent field is    *)
(* the causal_parent; a Prepared event is bound to the plan candidate it   *)
(* works on (ref), an outcome to its Prepared and a decision to its        *)
(* Observed event (parent).                                                *)
(***************************************************************************)
EXTENDS Naturals, Sequences

CONSTANT Actors          \* runtime actors: one per daemon process

VARIABLES log,           \* the events of the run, in sequence order
          state,         \* the run_state_projection row of the run
          leaseLive      \* the latest claim's lease has not expired

logVars == <<log, state, leaseLive>>

Stages == {"InitialPlan", "InitialReview", "Repair", "FinalReview"}
PlanStages == {"InitialPlan", "Repair"}
ReviewStages == {"InitialReview", "FinalReview"}

(* required_prefix: the stages prepared before a stage may be.             *)
Before == [s \in Stages |->
    CASE s = "InitialPlan"   -> {}
      [] s = "InitialReview" -> {"InitialPlan"}
      [] s = "Repair"        -> {"InitialPlan", "InitialReview"}
      [] s = "FinalReview"   -> {"InitialPlan", "InitialReview", "Repair"}]

RunStates == {"Queued", "Running", "Waiting", "Completed", "Failed", "Cancelled"}
Terminal == {"Completed", "Failed", "Cancelled"}
Inactive == {"Queued", "Waiting"}

PlanDecisions == {"PlanAccepted", "PlanRejected"}
ReviewDecisions == {"ReviewAccepted", "RepairOnceAuthorized", "ReviewRejected"}
Decisions == PlanDecisions \cup ReviewDecisions
(* An observation keeps the evidence it rests on: an answer, an error of   *)
(* the call, or that no call was made (NotDispatched, CancelledBeforeCall).*)
Observations == {"Succeeded", "ObservedFailed", "NotDispatched"}
Outcomes == Observations \cup {"Unknown"}
Failures == {"PlanningFailed", "StageFailed"}
StateChanges == RunStates \ {"Queued"}
Kinds == {"Created", "Claimed", "CancelRequested", "Prepared"}
         \cup Outcomes \cup Decisions \cup Failures \cup StateChanges

Event == {e \in [kind : Kinds, actor : Actors, parent : Nat,
                 stage : Stages \cup {"none"}, ref : Nat, cgen : {0, 1}] :
             e.kind = "Prepared" => e.stage \in Stages}

LogTypeOK ==
    /\ log \in Seq(Event)
    /\ state \in RunStates
    /\ leaseLive \in BOOLEAN

-----------------------------------------------------------------------------
(* What the validators read from the log.                                  *)

Has(K) == \E i \in DOMAIN log : log[i].kind \in K

(* The latest event whose kind is in K: a singleton, or empty.             *)
Latest(K) == {i \in DOMAIN log : /\ log[i].kind \in K
                                 /\ \A j \in i + 1..Len(log) : log[j].kind \notin K}
LastOf(K) == CHOOSE i \in Latest(K) : TRUE

latest_cancellation_generation == IF Has({"CancelRequested"}) THEN 1 ELSE 0
Cancelled == latest_cancellation_generation > 0

latest_claim_for_run == LastOf({"Claimed"})
latest_non_claim_event == LastOf(Kinds \ {"Claimed"})

require_active_claim_owner(a) ==
    /\ Has({"Claimed"})
    /\ log[latest_claim_for_run].actor = a
    /\ leaseLive

require_current_claim_owner(a, g) ==
    /\ require_active_claim_owner(a)
    /\ log[latest_claim_for_run].cgen = g
    /\ latest_cancellation_generation = g

require_latest_claim_owner(a) ==
    require_current_claim_owner(a, latest_cancellation_generation)

require_latest_run_parent(e) == e.parent = Len(log)

Prepared(s) == {i \in DOMAIN log : log[i].kind = "Prepared" /\ log[i].stage = s}

(* The attempt (its Prepared event) of an outcome or of a decision.        *)
AttemptOf(i) == IF log[i].kind \in Decisions THEN log[log[i].parent].parent
                                             ELSE log[i].parent

inference_terminal_count(p) ==
    {i \in DOMAIN log : log[i].kind \in Outcomes /\ log[i].parent = p}

DecisionsOf(p) == {i \in DOMAIN log : log[i].kind \in Decisions /\ AttemptOf(i) = p}

(* current_plan_base: the latest accepted plan, 0 for the genesis plan.    *)
current_plan_base ==
    IF Has({"PlanAccepted"}) THEN LastOf({"PlanAccepted"}) ELSE 0

-----------------------------------------------------------------------------
(* The validators, one per event payload.                                  *)

root_planning_failure_fence(e) ==
    Has(Failures) => e.kind \in {"Claimed", "CancelRequested"} \cup StateChanges

valid_run_transition(from, to) ==
    \/ from \in Inactive /\ to \in {"Running", "Failed", "Cancelled"}
    \/ from = "Running" /\ to \in {"Waiting"} \cup Terminal

(* The closed matrix of causes for which a run may complete or fail.       *)
valid_terminal_cause(to) ==
    LET cause == log[latest_non_claim_event].kind IN
    \/ to = "Completed" /\ cause = "ReviewAccepted"
    \/ /\ to = "Failed"
       /\ cause \in {"PlanRejected", "ReviewRejected"} \cup Failures
                    \cup (Outcomes \ {"Succeeded"})

(* After a durable planning failure only its own terminal state, or the    *)
(* cancellation that overtook it, may follow.                              *)
failure_terminal(to) ==
    LET cause == log[latest_non_claim_event].kind IN
    \/ cause \in Failures /\ to = "Failed"
    \/ cause = "CancelRequested" /\ to = "Cancelled"

validate_run_state_change(e) ==
    LET to == e.kind IN
    /\ valid_run_transition(state, to)
    /\ require_latest_run_parent(e)
    /\ Cancelled => to = "Cancelled"
    /\ Has(Failures) => failure_terminal(to)
    /\ to \in {"Completed", "Failed"} => valid_terminal_cause(to)
    /\ \/ /\ state \in Inactive /\ to = "Cancelled"
          /\ log[Len(log)].kind = "CancelRequested"
       \/ /\ state \in Inactive /\ to = "Running"
          /\ log[Len(log)].kind = "Claimed"
          /\ require_latest_claim_owner(e.actor)
       \/ /\ state = "Running" /\ to = "Cancelled"
          /\ Cancelled
          /\ require_active_claim_owner(e.actor)
       \/ /\ ~(state \in Inactive /\ to \in {"Running", "Cancelled"})
          /\ ~(state = "Running" /\ to = "Cancelled")
          /\ require_latest_claim_owner(e.actor)

validate_run_claim(e) ==
    /\ state \notin Terminal
    /\ require_latest_run_parent(e)
    /\ e.cgen = latest_cancellation_generation
    /\ ~(Cancelled /\ state \in Inactive)
    /\ Has({"Claimed"}) /\ leaseLive => log[latest_claim_for_run].actor = e.actor

\* mutant: the run's state is not looked at
CancellationOfAnyRun(e) == require_latest_run_parent(e) /\ ~Cancelled

validate_cancellation(e) ==
    /\ state \notin Terminal
    /\ require_latest_run_parent(e)
    /\ ~Cancelled

(* The candidate a stage works on is a plan accepted in stage s.           *)
validate_candidate_binding(c, s) ==
    /\ c \in DOMAIN log
    /\ log[c].kind = "PlanAccepted"
    /\ log[AttemptOf(c)].stage = s

\* mutant: the review's verdict on the plan is not looked up
RepairOfAnyReviewedPlan(e) ==
    CASE e.stage = "InitialPlan" -> e.ref = 0
      [] e.stage \in {"InitialReview", "Repair"} ->
           validate_candidate_binding(e.ref, "InitialPlan")
      [] e.stage = "FinalReview" -> validate_candidate_binding(e.ref, "Repair")

StageCandidate(e) ==
    CASE e.stage = "InitialPlan" -> e.ref = 0
      [] e.stage = "InitialReview" -> validate_candidate_binding(e.ref, "InitialPlan")
      [] e.stage = "Repair" ->
           /\ validate_candidate_binding(e.ref, "InitialPlan")
           /\ \E r \in DOMAIN log :
                /\ log[r].kind = "RepairOnceAuthorized"
                /\ log[AttemptOf(r)].stage = "InitialReview"
                /\ log[AttemptOf(r)].ref = e.ref
      [] e.stage = "FinalReview" -> validate_candidate_binding(e.ref, "Repair")

\* mutant: the stages already prepared are not compared with the prefix
StageContextWithoutPrefix(e) == StageCandidate(e)

validate_planner_stage_context(e) ==
    /\ \A s \in Stages : Prepared(s) # {} <=> s \in Before[e.stage]
    /\ StageCandidate(e)

validate_planner_inference_prepared(e) ==
    /\ state = "Running"
    /\ ~Cancelled
    /\ require_latest_run_parent(e)
    /\ require_current_claim_owner(e.actor, e.cgen)
    /\ validate_planner_stage_context(e)
    /\ e.ref = current_plan_base

validate_planner_inference_observed(e) ==
    /\ state = "Running"
    /\ e.parent \in DOMAIN log
    /\ log[e.parent].kind = "Prepared"
    /\ e.actor = log[e.parent].actor
    /\ inference_terminal_count(e.parent) = {}
    /\ require_active_claim_owner(e.actor)

validate_planner_inference_unknown(e) ==
    /\ state = "Running"
    /\ e.parent \in DOMAIN log
    /\ log[e.parent].kind = "Prepared"
    /\ require_current_claim_owner(e.actor, e.cgen)
    /\ inference_terminal_count(e.parent) = {}

(* Plan and review decisions share the binding to a successful observation *)
(* of a stage of their kind, made on the plan that is still current.       *)
validate_decision(e, stages) ==
    /\ state = "Running"
    /\ e.parent \in DOMAIN log
    /\ log[e.parent].kind = "Succeeded"
    /\ LET p == log[e.parent].parent IN
         /\ log[p].stage \in stages
         /\ require_current_claim_owner(e.actor, log[p].cgen)
         /\ DecisionsOf(p) = {}
         /\ log[p].ref = current_plan_base

validate_plan_decision(e) == validate_decision(e, PlanStages)

validate_semantic_review(e) ==
    /\ validate_decision(e, ReviewStages)
    /\ e.kind = "RepairOnceAuthorized" =>
         log[log[e.parent].parent].stage = "InitialReview"

validate_root_planning_failed(e) ==
    /\ state = "Running"
    /\ require_latest_run_parent(e)
    /\ ~Has({"Prepared"})
    /\ require_current_claim_owner(e.actor, 0)

(* The failed stage either was about to be prepared, right after the       *)
(* decision that authorised it, or is the one just observed.               *)
StageFailurePredecessor(s) ==
    LET pred == latest_non_claim_event
        prefix(b) == \A t \in Stages : Prepared(t) # {} <=> t \in b IN
    \/ /\ log[pred].kind = "Succeeded"
       /\ log[log[pred].parent].stage = s
       /\ prefix(Before[s] \cup {s})
    \/ /\ s \in ReviewStages
       /\ prefix(Before[s])
       /\ log[pred].kind = "PlanAccepted"
    \/ /\ s = "Repair"
       /\ prefix(Before[s])
       /\ log[pred].kind = "RepairOnceAuthorized"

validate_root_planning_stage_failed(e) ==
    /\ state = "Running"
    /\ require_latest_run_parent(e)
    /\ ~Cancelled
    /\ require_current_claim_owner(e.actor, 0)
    /\ StageFailurePredecessor(e.stage)

validate_generic_event(e) ==
    /\ CASE e.kind \in StateChanges     -> validate_run_state_change(e)
         [] e.kind = "Claimed"          -> validate_run_claim(e)
         [] e.kind = "CancelRequested"  -> validate_cancellation(e)
         [] e.kind = "Prepared"         -> validate_planner_inference_prepared(e)
         [] e.kind \in Observations     -> validate_planner_inference_observed(e)
         [] e.kind = "Unknown"          -> validate_planner_inference_unknown(e)
         [] e.kind \in PlanDecisions    -> validate_plan_decision(e)
         [] e.kind \in ReviewDecisions  -> validate_semantic_review(e)
         [] e.kind = "PlanningFailed"   -> validate_root_planning_failed(e)
         [] e.kind = "StageFailed"      -> validate_root_planning_stage_failed(e)
         [] OTHER                       -> FALSE
    /\ root_planning_failure_fence(e)

-----------------------------------------------------------------------------

(* append_event: validate, insert, project the run state; one transaction. *)
append_event(e) ==
    /\ validate_generic_event(e)
    /\ log' = Append(log, e)
    /\ state' = IF e.kind \in StateChanges THEN e.kind ELSE state
    /\ leaseLive' = IF e.kind = "Claimed" THEN TRUE ELSE leaseLive

(* Time passes the lease_expires_at of the latest claim.                   *)
ExpireLease ==
    /\ leaseLive
    /\ leaseLive' = FALSE
    /\ UNCHANGED <<log, state>>

Entry(k, a, p, s, c, g) ==
    [kind |-> k, actor |-> a, parent |-> p, stage |-> s, ref |-> c, cgen |-> g]

(* What each payload carries besides its kind, actor and causal parent: a  *)
(* claim, a preparation and an unknown outcome name the cancellation       *)
(* generation they were made under, a stage failure its stage.             *)
Plain(k, a, p) == Entry(k, a, p, "none", 0, 0)
Claim(a, p, g) == Entry("Claimed", a, p, "none", 0, g)
UnknownOutcome(a, p, g) == Entry("Unknown", a, p, "none", 0, g)
StageFailure(a, p, s) == Entry("StageFailed", a, p, s, 0, 0)
Preparation(a, p, s, c, g) == Entry("Prepared", a, p, s, c, g)

create_run(a) == Plain("Created", a, 0)

LogInit ==
    /\ \E a \in Actors : log = <<create_run(a)>>
    /\ state = "Queued"
    /\ leaseLive = FALSE

(* Anyone may append any one event that is admissible.                     *)
Appended == log'[Len(log')]
LogNext == ExpireLease \/ (append_event(Appended) /\ Appended \in Event)

LogSpec == LogInit /\ [][LogNext]_logVars

-----------------------------------------------------------------------------
(* Properties of the log, whoever appends to it.                           *)

(* A stage is prepared at most once, so a run makes at most four model     *)
(* calls, in the order InitialPlan, InitialReview, Repair, FinalReview     *)
(* (previous_kinds = required_prefix, validate_planner_stage_context).     *)
StageOnceInOrder ==
    \A i \in DOMAIN log : log[i].kind = "Prepared" =>
        /\ Prepared(log[i].stage) = {i}
        /\ \A s \in Before[log[i].stage] : \E j \in Prepared(s) : j < i

(* Once a cancellation is durable nothing but claims, outcomes of the call *)
(* already prepared and the Cancelled state follow it: no decision, no new *)
(* call and no other terminal state can overtake the user's request.       *)
CancellationDominates ==
    \A i \in DOMAIN log : log[i].kind = "CancelRequested" =>
        \A j \in i + 1..Len(log) : log[j].kind \in {"Claimed", "Cancelled"} \cup Outcomes

(* At most one attempt is unresolved (neither decided nor unknown), so     *)
(* RunHistory::recovery_action never refuses a log as ambiguous.           *)
Resolved(p) == \/ DecisionsOf(p) # {}
               \/ \E i \in inference_terminal_count(p) : log[i].kind = "Unknown"

OneUnresolvedAttempt ==
    \A p \in DOMAIN log : log[p].kind = "Prepared" /\ ~Resolved(p) =>
        \A q \in DOMAIN log : log[q].kind = "Prepared" /\ ~Resolved(q) => p = q

(* An attempt has one outcome and one decision at most, and a decision     *)
(* only on a success: a late observation never joins an unknown outcome.   *)
OutcomesAreFinal ==
    /\ \A i \in DOMAIN log : log[i].kind \in Outcomes =>
         \A j \in DOMAIN log :
            log[j].kind \in Outcomes /\ log[i].parent = log[j].parent => i = j
    /\ \A i \in DOMAIN log : log[i].kind \in Decisions =>
         \A j \in DOMAIN log :
            log[j].kind \in Decisions /\ log[i].parent = log[j].parent => i = j
    /\ \A i \in DOMAIN log : log[i].kind \in Decisions =>
         /\ log[i].parent \in DOMAIN log
         /\ log[log[i].parent].kind = "Succeeded"

(* A completed run was accepted by a review of the plan that is current:   *)
(* no plan accepted later escapes review.                                  *)
CompletedIsReviewed ==
    state = "Completed" =>
        \E i \in DOMAIN log :
            /\ log[i].kind = "ReviewAccepted"
            /\ log[AttemptOf(i)].stage \in ReviewStages
            /\ log[AttemptOf(i)].ref = current_plan_base
            /\ current_plan_base # 0

(* What the store admits, whoever proposes it, is one orderly history.     *)
LogIsSound ==
    /\ LogTypeOK /\ StageOnceInOrder /\ CancellationDominates
    /\ OneUnresolvedAttempt /\ OutcomesAreFinal /\ CompletedIsReviewed

(* A terminal run's log never grows again.                                 *)
Frozen == log' = log /\ state' = state
TerminalIsFinal == [][(state \in Terminal) => Frozen]_logVars

=============================================================================

