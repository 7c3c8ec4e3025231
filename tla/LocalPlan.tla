----------------------------- MODULE LocalPlan -----------------------------
(***************************************************************************)
(* The local plan a child agent keeps and resubmits with every action: a   *)
(* set of steps with a status each.  One revision replaces another only    *)
(* along the transitions below, and an action is admitted only from a plan *)
(* in the state it needs (validate_plan of the agent workers).             *)
(***************************************************************************)
EXTENDS Naturals, FiniteSets

CONSTANT PlanSteps   \* step identities a model may name

Open == {"Pending", "InProgress"}
StepStatuses == Open \cup {"Completed", "Blocked", "Cancelled"}

\* A plan is a nonempty function from its steps to their statuses.
Plans == UNION {[S -> StepStatuses] : S \in (SUBSET PlanSteps) \ {{}}}
NoPlan == [s \in {} |-> "Pending"]

InProgress(plan) == {s \in DOMAIN plan : plan[s] = "InProgress"}
HasStatus(plan, status) == \E s \in DOMAIN plan : plan[s] = status

\* Mutant of ValidStepTransition: a step is cancelled or blocked only once it was started.
ValidStepTransitionOnceStarted(from, to) ==
    \/ from = to
    \/ from \in {"Pending", "Blocked"} /\ to = "InProgress"
    \/ from = "InProgress" /\ to \in {"Completed", "Blocked", "Cancelled"}
    \/ from = "Blocked" /\ to = "Cancelled"

ValidStepTransition(from, to) ==
    \/ from = to
    \/ from = "Pending" /\ to \in {"InProgress", "Blocked", "Cancelled"}
    \/ from = "InProgress" /\ to \in {"Completed", "Blocked", "Cancelled"}
    \/ from = "Blocked" /\ to \in {"InProgress", "Cancelled"}

\* No step disappears, an earlier step follows the transitions, a new one starts open;
\* at most one step is in progress, and it is the active one.
ValidRevision(prior, plan) ==
    /\ DOMAIN prior \subseteq DOMAIN plan
    /\ \A s \in DOMAIN plan : IF s \in DOMAIN prior THEN ValidStepTransition(prior[s], plan[s])
                                                    ELSE plan[s] \in Open
    /\ Cardinality(InProgress(plan)) <= 1

\* The plan an agent finishes with has nothing left open.
ValidFinishPlanState(plan, status, unknowns) ==
    /\ \A s \in DOMAIN plan : plan[s] \notin Open
    /\ \/ status = "Complete" /\ ~unknowns /\ \A s \in DOMAIN plan : plan[s] = "Completed"
       \/ status = "Partial" /\ (unknowns \/ HasStatus(plan, "Cancelled"))
       \/ status = "Blocked" /\ HasStatus(plan, "Blocked")

\* A tool action needs an active step, Finish a plan that is finished.
ValidPlan(prior, plan, isFinish, status, unknowns) ==
    /\ ValidRevision(prior, plan)
    /\ IF isFinish THEN InProgress(plan) = {} /\ ValidFinishPlanState(plan, status, unknowns)
                   ELSE InProgress(plan) # {}
=============================================================================
