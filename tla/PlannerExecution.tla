-------------------------- MODULE PlannerExecution --------------------------
(***************************************************************************)
(* PlannerExecutor and its journal (crates/orchestrator/src/planner.rs).   *)
(* An execution retains its preparation, calls the backend once, retains   *)
(* what it observed, decides it with the plan transition of PlanPatch and  *)
(* retains the decision.  Several callers share one journal; a caller can  *)
(* stop at any point, and may come back with the identities it used.       *)
(*                                                                         *)
(* retain replays the whole journal with the new record appended, so a     *)
(* record enters exactly when every record of the result is admissible.    *)
(***************************************************************************)
EXTENDS PlanPatch

CONSTANTS
  Callers,          \* tasks that run executions on the shared journal
  PolicyOf,         \* the trusted inference policy each caller's executor holds
  Requests,         \* identities: [execution, attempt, reservation, parented]
  MaxRecords,       \* HARD_MAX_ACTIVE_JOURNAL_RECORDS
  AnswersFor(_)     \* the turns a model may answer in an execution about a plan

ASSUME PlannerExecutionAssumption ==
  /\ DOMAIN PolicyOf = Callers
  /\ MaxRecords \in Nat

VARIABLES
  plannerJournal,  \* the retained records
  plans,           \* the plans callers hold: the empty one and accepted results
  task,            \* what each caller is doing
  calls,           \* backend calls made, by request identity
  returned         \* results that executions returned to their callers

plannerVars == <<plannerJournal, plans, task, calls, returned>>

Idle == [step |-> "Idle"]

PlannerInit ==
  /\ plannerJournal = <<>>
  /\ plans = {EmptyPlan}
  /\ task = [c \in Callers |-> Idle]
  /\ calls = [r \in Requests |-> 0]
  /\ returned = {}

-----------------------------------------------------------------------------
(* The decision about an observed outcome, the same live and on replay.    *)

Reject(reason) == [status |-> "Rejected", reason |-> reason]

\* planner_backend_error_violations, planner_response_violations,
\* planner_prompt_rejection and decode_and_apply_planner_replanner_output.
Decision(prepared, observation) ==
  CASE observation.kind = "Error" ->
         Reject(IF observation.authentic THEN "Backend" ELSE "ResponseContract")
    [] ~observation.authentic -> Reject("ResponseContract")
    [] observation.kind = "Undecodable" -> Reject("PromptContract")
    [] ~TurnValid(prepared.base, observation.turn) -> Reject("PlanValidation")
    [] OTHER -> [status |-> "Accepted", result |-> Apply(prepared.base, observation.turn)]

Observations(base) ==
  {[kind |-> "Error", authentic |-> a] : a \in BOOLEAN}
  \union {[kind |-> "Undecodable", authentic |-> TRUE]}
  \union {[kind |-> "Turn", authentic |-> TRUE, turn |-> turn] : turn \in AnswersFor(base)}
  \union {[kind |-> "Turn", authentic |-> FALSE, turn |-> turn] : turn \in AnswersFor(EmptyPlan)}

-----------------------------------------------------------------------------
(* The prompt bundle of planner_prompt.rs: the request for one plan under  *)
(* one inference policy, rebuilt and compared wherever it is used.         *)

BuildRequest(base, policy) == [plan |-> base, policy |-> policy]

ValidateAgainst(bundle, base, policy) == bundle = BuildRequest(base, policy)

-----------------------------------------------------------------------------
(* The journal. *)

PreparedRecord(request, base, policy, bundle) ==
  [type |-> "Prepared", request |-> request, base |-> base, policy |-> policy,
   bundle |-> bundle]
ObservedRecord(prepared, observation) ==
  [type |-> "Observed", prepared |-> prepared, observation |-> observation]
DecisionRecord(observed, decision) ==
  [type |-> decision.status, observed |-> observed, decision |-> decision]

OfType(records, type) == {records[i] : i \in {k \in 1..Len(records) : records[k].type = type}}
Preparations(records) == OfType(records, "Prepared")
Decided(records) == {r.observed : r \in OfType(records, "Accepted") \union OfType(records, "Rejected")}

\* prepared_is_internally_valid and the Prepared arm of replay.
AdmitsWithoutExecution(records, prepared, policy) ==
  /\ prepared.policy = policy
  /\ ValidateAgainst(prepared.bundle, prepared.base, policy)
  /\ BaseValid(prepared.base)
  /\ ~prepared.request.parented
  /\ \A p \in Preparations(records) : p.request.attempt # prepared.request.attempt
AdmitsPrepared(records, prepared, policy) ==
  /\ prepared.policy = policy
  /\ ValidateAgainst(prepared.bundle, prepared.base, policy)
  /\ BaseValid(prepared.base)
  /\ ~prepared.request.parented
  /\ \A p \in Preparations(records) :
       /\ p.request.reservation # prepared.request.reservation
       /\ p.request.execution # prepared.request.execution
       /\ p.request.attempt # prepared.request.attempt

\* The Observed arm: only an attempt whose outcome is still unknown.
AdmitsObserved(records, observed) ==
  /\ observed.prepared \in Preparations(records)
  /\ \A o \in OfType(records, "Observed") : o.prepared # observed.prepared

\* The Accepted and Rejected arms: an observed attempt without a decision, and
\* exactly the decision that its observation determines.
AdmitsDecision(records, record) ==
  /\ record.observed \in OfType(records, "Observed")
  /\ record.observed \notin Decided(records)
  /\ record.decision = Decision(record.observed.prepared, record.observed.observation)

Admits(records, record, policy) ==
  CASE record.type = "Prepared" -> AdmitsPrepared(records, record, policy)
    [] record.type = "Observed" -> AdmitsObserved(records, record)
    [] OTHER -> AdmitsDecision(records, record)

Replays(records, policy) ==
  /\ Len(records) <= MaxRecords
  /\ \A i \in 1..Len(records) : Admits(SubSeq(records, 1, i - 1), records[i], policy)

Retains(record, policy) == Replays(Append(plannerJournal, record), policy)

-----------------------------------------------------------------------------
(* execute. *)

\* Setup and prompt checks, and the acknowledged preparation.  A refused
\* preparation ends the execution with nothing changed.
Prepare(c) ==
  \E request \in Requests, base \in plans, asked \in plans :
    LET bundle == BuildRequest(asked, PolicyOf[c])
        record == PreparedRecord(request, base, PolicyOf[c], bundle)
    IN  /\ task[c] = Idle
        /\ BaseValid(base)
        /\ ValidateAgainst(bundle, base, PolicyOf[c])
        /\ Retains(record, PolicyOf[c])
        /\ plannerJournal' = Append(plannerJournal, record)
        /\ task' = [task EXCEPT ![c] = [step |-> "Prepared", prepared |-> record]]
        /\ UNCHANGED <<plans, calls, returned>>

\* infer_structured is called strictly after the acknowledgement.
Infer(c) ==
  /\ task[c].step = "Prepared"
  /\ task' = [task EXCEPT ![c].step = "Calling"]
  /\ calls' = [calls EXCEPT ![task[c].prepared.request] = @ + 1]
  /\ UNCHANGED <<plannerJournal, plans, returned>>

Answer(c) ==
  /\ task[c].step = "Calling"
  /\ \E observation \in Observations(task[c].prepared.base) :
       task' = [task EXCEPT ![c] =
                  [step |-> "Answered", observed |-> ObservedRecord(@.prepared, observation)]]
  /\ UNCHANGED <<plannerJournal, plans, calls, returned>>

RetainObserved(c) ==
  /\ task[c].step = "Answered"
  /\ Retains(task[c].observed, PolicyOf[c])
  /\ plannerJournal' = Append(plannerJournal, task[c].observed)
  /\ task' = [task EXCEPT ![c].step = "Observed"]
  /\ UNCHANGED <<plans, calls, returned>>

\* The accepted arm of execute, and rejected_execution.
Decide(c) ==
  LET observed == task[c].observed
      decision == Decision(observed.prepared, observed.observation)
      record == DecisionRecord(observed, decision)
  IN  /\ task[c].step = "Observed"
      /\ Retains(record, PolicyOf[c])
      /\ plannerJournal' = Append(plannerJournal, record)
      /\ task' = [task EXCEPT ![c] = Idle]
      /\ returned' = returned \union {[observed |-> observed, decision |-> decision]}
      /\ plans' = plans \union (IF decision.status = "Accepted" THEN {decision.result.plan} ELSE {})
      /\ UNCHANGED calls

\* The caller's process stops, its future is dropped at the call, or the journal
\* does not acknowledge: ObservationUnacknowledged, DecisionUnacknowledged.
Abandon(c) ==
  /\ task[c] # Idle
  /\ task' = [task EXCEPT ![c] = Idle]
  /\ UNCHANGED <<plannerJournal, plans, calls, returned>>

PlannerNext ==
  \E c \in Callers :
    Prepare(c) \/ Infer(c) \/ Answer(c) \/ RetainObserved(c) \/ Decide(c) \/ Abandon(c)

PlannerSpec == PlannerInit /\ [][PlannerNext]_plannerVars

-----------------------------------------------------------------------------
PlannerTypeOK ==
  /\ \A i \in 1..Len(plannerJournal) : plannerJournal[i].type \in {"Prepared", "Observed", "Accepted", "Rejected"}
  /\ \A c \in Callers : task[c].step \in {"Idle", "Prepared", "Calling", "Answered", "Observed"}
  /\ calls \in [Requests -> Nat]
  /\ Len(plannerJournal) <= MaxRecords

\* A budget reservation, and an execution, pay for at most one backend call, however
\* often callers stop and come back with the same identities, and no call is made
\* that the journal does not show as prepared.
OneCallPerReservation ==
  /\ \A r \in Requests : calls[r] > 0 => \E p \in Preparations(plannerJournal) : p.request = r
  /\ \A r \in Requests : calls[r] <= 1
  /\ \A r, s \in {x \in Requests : calls[x] > 0} :
       r # s => r.reservation # s.reservation /\ r.execution # s.execution

\* What an execution returned survives it: the journal holds the decision, it is the
\* one that the retained observation of the retained preparation determines, and a
\* plan that callers go on from is the outcome of a retained acceptance.
ReturnedIsDurable ==
  /\ \A r \in returned : DecisionRecord(r.observed, r.decision) \in
                           OfType(plannerJournal, "Accepted") \union OfType(plannerJournal, "Rejected")
  /\ \A p \in plans \ {EmptyPlan} :
       \E a \in OfType(plannerJournal, "Accepted") :
         /\ a.decision.result.plan = p
         /\ a.observed.prepared \in Preparations(plannerJournal)
         /\ a.observed.prepared.base \in plans

\* Whoever opens the journal with the policy of its records can rebuild it: no
\* interleaving of callers, also of callers with different policies, leaves records
\* that a later replay refuses.
JournalCanBeRebuilt ==
  plannerJournal # <<>> => Replays(plannerJournal, plannerJournal[1].policy)

\* The invariants of the planner's journal, together.
JournalIsSound ==
  /\ PlannerTypeOK
  /\ OneCallPerReservation
  /\ ReturnedIsDurable
  /\ JournalCanBeRebuilt
=============================================================================

