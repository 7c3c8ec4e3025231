------------------------------ MODULE ChildTurns ------------------------------
(***************************************************************************)
(* What the events of one child attempt say: the input each model call is  *)
(* prepared from, the local plan and the action its answer gives, the      *)
(* repository call or the handoff made of that action, and the results     *)
(* they rest on (crates/store/src/lib.rs).  The order in which an attempt  *)
(* may go through them is ChildAttempt's; claims, restarts and brokers are *)
(* in ChildDispatch, so one runtime holds the run here throughout.         *)
(*                                                                         *)
(* An event is its position in `turns'; a digest is the content it names.  *)
(***************************************************************************)
EXTENDS ChildAttempt, Sequences, FiniteSets, FiniteSetsExt

CONSTANTS Steps,             \* step ids a local plan may use
          Tools,             \* repository tools
          HardMaximum,       \* REPOSITORY_TOOL_HARD_MAX_*, what any bound may be at most
          MaxSize,           \* bound: the largest request an answer makes
          BrokerCalls,       \* max_calls_per_broker
          MinPlanRevisions   \* min_plan_revisions

ChildTurnsAssumption ==
    /\ IsFiniteSet(Steps) /\ Steps # {} /\ IsFiniteSet(Tools) /\ Tools # {}
    /\ {HardMaximum, MaxSize, BrokerCalls} \subseteq Nat
    /\ MinPlanRevisions \in 2..MaxModelCalls     \* validate_child_model_contract

VARIABLES order,             \* the work order as it was issued
          attempt,           \* its attempt as ChildAttempt replays it
          turns              \* the events of the attempt

childTurnVars == <<order, attempt, turns>>

Owner == "owner"

---------------------------------------------------------------------------
\* What is read back from the events.

Positions(kinds) == {i \in DOMAIN turns : turns[i].kind \in kinds}
Latest(S) == IF S = {} THEN 0 ELSE Max(S)
LatestPlan == Latest(Positions({"Observed"}))        \* RetainedChildPlan
Transcript == Positions({"ToolEnded"})               \* model_visible_tool_transcript
ObservedResults == {i \in Transcript : turns[i].outcome = "Succeeded"}
\* supplied_tool_results: the model calls that were given the result of call i
SuppliedOn(i) == {p \in Positions({"ModelPrepared"}) : i \in turns[p].supplied}
Pending == turns[Latest(Positions({"ToolPrepared"}))]

---------------------------------------------------------------------------
\* The work order.

Sources == {"accepted plan", "claim", "snapshot lease"}
NoOrder == [grants |-> [t \in Tools |-> 0], bounds |-> 0, room |-> 0]
Granted(o) == {t \in Tools : o.grants[t] > 0}
LargestGrant(o) == Max({o.grants[t] : t \in Tools})

\* validate_repository_broker_bounds and validate_repository_tool_grant
GrantsAreBounded(o) ==
    /\ o.bounds \in 1..HardMaximum
    /\ Granted(o) # {} /\ \A t \in Granted(o) : o.grants[t] <= o.bounds

\* conservative_child_tool_transcript_bytes: every call may bring its receipt
\* and the largest result any grant allows
TranscriptRoom(o) == MaxToolCalls * (LargestGrant(o) + 1)

\* validate_child_context_manifest: the sources, the evidence of one answer and
\* the transcript have to fit what the model may be shown
ContextFits(o) == Cardinality(Sources) + 1 + TranscriptRoom(o) <= o.room

Orders ==
    [grants : [Tools -> 0..MaxSize], bounds : 0..MaxSize,
     room : 0..Cardinality(Sources) + 1 + MaxToolCalls * (HardMaximum + 1),
     planned : BOOLEAN, lease : {"live", "released", "of another claim"}, context : SUBSET Sources]

\* validate_child_delegation_authorized: what is delegated is in the accepted
\* plan, over a live snapshot of the claim that delegates, and says so
DelegationIsPlanned(o) == o.planned /\ o.lease = "live" /\ o.context = Sources

IssueOrder ==
    /\ order = NoOrder
    /\ \E o \in Orders :
         /\ DelegationIsPlanned(o) /\ GrantsAreBounded(o) /\ ContextFits(o)
         /\ order' = [grants |-> o.grants, bounds |-> o.bounds, room |-> o.room]
    /\ UNCHANGED <<attempt, turns>>

---------------------------------------------------------------------------
\* The input of a model call.

\* The result of a v2 call is given in full on the first model call after it
\* and named by that call from then on.  Nothing else carries a result.
ToolMaterial(i) ==
    LET carried == i \in ObservedResults /\ turns[i].version = 2
    IN  [at |-> i, outcome |-> turns[i].outcome,
         result |-> IF carried THEN turns[i].result ELSE {},
         suppliedOn |-> CASE ~carried -> 0
                          [] carried /\ SuppliedOn(i) # {} -> Max(SuppliedOn(i))
                          [] OTHER -> Len(turns) + 1]

\* Only a v2 model call may follow v2 tool calls.
Resolves(version) == version = 2 \/ \A i \in Transcript : turns[i].version = 1

\* resolve_child_repository_explorer_turn_input
TurnInput == [plan |-> LatestPlan, tools |-> {ToolMaterial(i) : i \in Transcript}]

\* expected_child_model_context_inventory
Inventory == [plan |-> LatestPlan, previousTool |-> Latest(Transcript)]

\* expected_child_model_supplied_tool_results; v1 events have no such list
SuppliedBy(version, input) ==
    IF version = 1 THEN {}
    ELSE {m.at : m \in {n \in input.tools : n.result # {} /\ n.suppliedOn = Len(turns) + 1}}

\* build_child_repository_explorer_prepared_event
ModelPreparedEvent(version) ==
    [kind |-> "ModelPrepared", version |-> version, input |-> TurnInput, inventory |-> Inventory,
     supplied |-> SuppliedBy(version, TurnInput)]

Record(event) == turns' = Append(turns, event) /\ UNCHANGED order

PrepareModel ==
    \E version \in {1, 2} :
        /\ order # NoOrder /\ CanPrepareModel(attempt, Owner) /\ Resolves(version)
        /\ attempt' = ModelPrepared(attempt, Owner)
        /\ Record(ModelPreparedEvent(version))

---------------------------------------------------------------------------
\* Answers and local plans.

Statuses == {"Pending", "InProgress", "Completed", "Blocked", "Cancelled"}
Open == {"Pending", "InProgress"}
InProgress(steps) == {s \in DOMAIN steps : steps[s] = "InProgress"}

\* valid_child_plan_step_transition
StepMayGo(from, to) ==
    \/ from = to
    \/ from = "Pending" /\ to \in {"InProgress", "Blocked", "Cancelled"}
    \/ from = "InProgress" /\ to \in {"Completed", "Blocked", "Cancelled"}
    \/ from = "Blocked" /\ to \in {"InProgress", "Cancelled"}

\* validate_child_finish_plan_state
FinishStateIsValid(steps, handoff) ==
    /\ \A s \in DOMAIN steps : steps[s] \notin Open
    /\ CASE handoff.status = "Complete" ->
              handoff.unknowns = FALSE /\ \A s \in DOMAIN steps : steps[s] = "Completed"
         [] handoff.status = "Partial" ->
              handoff.unknowns = TRUE \/ \E s \in DOMAIN steps : steps[s] = "Cancelled"
         [] handoff.status = "Blocked" -> \E s \in DOMAIN steps : steps[s] = "Blocked"

\* validate_child_local_plan: revisions go up by one, and every step of the
\* plan before is still there and went on as a step may
PlanFollows(revision, steps) ==
    LET before == turns[LatestPlan]
    IN  /\ Cardinality(InProgress(steps)) <= 1
        /\ IF LatestPlan = 0 THEN revision = 1
           ELSE /\ revision = before.revision + 1
                /\ \A s \in DOMAIN before.steps : s \in DOMAIN steps /\ StepMayGo(before.steps[s], steps[s])

\* A tool call is for the step in progress, the end of the work for none.
ActionFollows(revision, steps, action) ==
    IF action.kind = "Tool" THEN InProgress(steps) # {}
    ELSE revision >= MinPlanRevisions /\ FinishStateIsValid(steps, action)

\* An answer may cite any call of the attempt for what it found, or claim of
\* it what it did not.
Operations == [tool : Tools, size : 1..MaxSize]
Citations == {[call |-> i, result |-> op] : i \in Transcript, op \in Operations}
Actions ==
    {[kind |-> "Tool", operation |-> op] : op \in Operations}
    \cup {[kind |-> "Finish", status |-> s, unknowns |-> u, findings |-> f] :
             s \in {"Complete", "Partial", "Blocked"}, u \in BOOLEAN,
             f \in {{}} \cup {{c} : c \in Citations}}          \* bound: one finding
Snapshots == UNION {[D -> Statuses] : D \in (SUBSET Steps) \ {{}}}

\* child_model_response_outcome: what decodes and keeps to the plan succeeds
ObserveAnswer ==
    /\ CanObserveModel(attempt)
    /\ \E steps \in Snapshots, revision \in 1..MaxModelCalls :
         /\ PlanFollows(revision, steps)
         /\ \E action \in Actions :
              /\ ActionFollows(revision, steps, action)
              /\ attempt' = ModelSucceeded(attempt, Owner, IF action.kind = "Tool" THEN "tool" ELSE "finish")
              /\ Record([kind |-> "Observed", revision |-> revision, steps |-> steps, action |-> action])

\* child_model_not_dispatched_error and retry_for_backend_error: only a
\* transport failure, a shutdown or a lost claim leave something to retry.
Failures == {"Transport", "NotDispatched", "InvalidStructuredResponse", "ProtocolViolation", "Cancelled"}
RetryAfter(failure) == IF failure \in {"Transport", "NotDispatched"} THEN "RequiresNewAttempt" ELSE "Never"

\* child_model_unknown_retry
Boundaries == {"Restart", "Shutdown", "ClaimRenewalFailed", "Deadline", "Cancelled"}
RetryAcross(boundary) == IF boundary \in {"Deadline", "Cancelled"} THEN "Never" ELSE "RequiresNewAttempt"

EndModel(kind, retry) ==
    /\ attempt' = ModelFailed(attempt, Owner, retry)
    /\ Record([kind |-> kind, retry |-> retry])

ObserveFailure == CanObserveModel(attempt) /\ \E f \in Failures : EndModel("ModelFailed", RetryAfter(f))
CloseModelUnknown ==
    \E b \in Boundaries :
        CanModelBeUnknown(attempt, Owner, b = "Cancelled") /\ EndModel("ModelUnknown", RetryAcross(b))

---------------------------------------------------------------------------
\* Repository calls.

\* validate_child_action_binding: an effect is of the answer that is still
\* the attempt's last word, under the plan and the step of that answer.
Binding ==
    [source |-> LatestPlan, revision |-> turns[LatestPlan].revision,
     step |-> InProgress(turns[LatestPlan].steps), action |-> turns[LatestPlan].action]

\* validate_child_action_against_authority
ActionIsGranted(action) ==
    action.kind = "Tool" /\ action.operation.size \in 1..order.grants[action.operation.tool]

\* expected_repository_authorization
Authorization(sequence) == IF sequence > BrokerCalls THEN "Denied" ELSE "Authorized"

\* The sequence of a v1 call is the next of its attempt; a v2 call shares the
\* broker with the other children of the run, which may have called it since.
\* Only calls of the daemon's own lane, all authorized, start a dispatch.
PrepareTool ==
    \E version \in {1, 2}, lane \in BOOLEAN, others \in {0, 1} :
        LET call == [broker |-> 1, sequence |-> attempt.lastSequence + 1 + others]
            decision == Authorization(call.sequence)
        IN  /\ CanPrepareTool(attempt, Owner, call)
            /\ ActionIsGranted(Binding.action)
            /\ version = 1 => others = 0
            /\ lane => version = 2 /\ decision = "Authorized"
            /\ attempt' = ToolPrepared(attempt, Owner, call)
            /\ Record([kind |-> "ToolPrepared", version |-> version, lane |-> lane,
                       binding |-> Binding, decision |-> decision])

StartTool ==
    /\ PendingTool(attempt) /\ Pending.lane /\ CanStartDispatch(attempt, Owner, attempt.call)
    /\ attempt' = DispatchStarted(attempt, Owner)
    /\ Record([kind |-> "ToolStarted"])

\* repository_authorized_failure_effect and the effects of the other outcomes
EffectOf(outcome) ==
    CASE outcome \in {"Denied", "Refused"} -> "NoFilesystemAccessAttempted"
      [] outcome \in {"Succeeded", "Failed"} -> "ReadOnlyFilesystemAccessAttempted"
      [] outcome = "Unknown" -> "Indeterminate"

\* validate_and_project_repository_success: a result is of its own operation
Result(binding, outcome) == IF outcome = "Succeeded" THEN {binding.action.operation} ELSE {}

EndTool(outcome) ==
    Record([kind |-> "ToolEnded", version |-> Pending.version, outcome |-> outcome,
            effect |-> EffectOf(outcome), result |-> Result(Pending.binding, outcome)])

\* validate_child_tool_observed_document: what was denied is observed as
\* denied, and only that
MayObserve(decision, outcome) ==
    IF decision = "Denied" THEN outcome = "Denied" ELSE outcome \in {"Succeeded", "Failed", "Refused"}

\* A call outside the lane is observed as it was prepared.
ObserveTool ==
    /\ PendingTool(attempt)
    /\ IF Pending.lane THEN CanObserveTool(attempt, Owner, attempt.call)
       ELSE attempt.outcome = None /\ ~attempt.requiresUnknown /\ attempt.pending = "prepared"
    /\ \E outcome \in {"Succeeded", "Failed", "Refused", "Denied"} :
         /\ MayObserve(Pending.decision, outcome)
         /\ attempt' = ToolObserved(attempt, Owner, outcome # "Succeeded")
         /\ EndTool(outcome)

\* validate_child_tool_unknown_document
CloseToolUnknown ==
    /\ CanToolBeUnknown(attempt, Owner, "BrokerRecorded", 1)
    /\ Pending.decision = "Authorized"
    /\ attempt' = ToolUnknown(attempt, Owner, "BrokerRecorded")
    /\ EndTool("Unknown")

---------------------------------------------------------------------------
\* The handoff and the end of the attempt.

\* validate_child_handoff_document
HandoffIsGrounded(action) ==
    /\ \A c \in action.findings : c.call \in ObservedResults /\ turns[c.call].result = {c.result}
    /\ action.status = "Complete" => action.findings # {} /\ ObservedResults # {}

CommitHandoff ==
    /\ CanCommitHandoff(attempt) /\ HandoffIsGrounded(Binding.action)
    /\ attempt' = HandoffCommitted(attempt)
    /\ Record([kind |-> "Handoff", binding |-> Binding])

\* validate_child_execution_terminal_outcome
FinishAttempt ==
    \E outcome \in Outcomes, cause \in {"Model", "Tool", "Runtime"} :
        /\ outcome \in {"Succeeded", "Cancelled"} => cause = "Runtime"   \* they have none
        /\ CanFinish(attempt, Owner, outcome, cause, TRUE)
        /\ attempt' = Finished(attempt, Owner, outcome)
        /\ Record([kind |-> "Finished", outcome |-> outcome, cause |-> cause])

ChildTurnsInit == order = NoOrder /\ attempt = NewAttempt(Owner) /\ turns = <<>>

ChildTurnsNext ==
    \/ IssueOrder
    \/ PrepareModel \/ ObserveAnswer \/ ObserveFailure \/ CloseModelUnknown
    \/ PrepareTool \/ StartTool \/ ObserveTool \/ CloseToolUnknown
    \/ CommitHandoff \/ FinishAttempt

---------------------------------------------------------------------------
Effects == Positions({"ToolPrepared", "Handoff"})

(* Every effect is the action of an answer no other effect has used, given *)
(* after everything that happened before the effect: no call of the model  *)
(* or of a tool lies between an answer and what is done about it.  No call *)
(* asks for more than the bounds of the work order.                        *)
EffectsRestOnTheLastWord ==
    /\ \A e \in Effects :
         LET source == turns[e].binding.source
         IN  source = e - 1 /\ turns[e].binding.action = turns[source].action
    /\ \A e \in Positions({"ToolPrepared"}) : turns[e].binding.action.operation.size <= order.bounds

(* What a v2 call found is given to the model in full exactly once, on the *)
(* next call it makes, and before anything rests on an answer that could   *)
(* have used it.  A model call is never given what no call found.          *)
ResultsAreSuppliedOnce ==
    /\ \A p \in Positions({"ModelPrepared"}) : turns[p].supplied \subseteq ObservedResults \cap 1..(p - 1)
    /\ \A i \in ObservedResults : turns[i].version = 2 =>
         LET later == {p \in Positions({"ModelPrepared"}) : p > i}
         IN  SuppliedOn(i) = IF later = {} THEN {} ELSE {Min(later)}

(* The plans of the answers are one history: a step is never dropped, and  *)
(* what was completed or cancelled stays so in every later plan.           *)
PlansNeverReopen ==
    \A i, j \in Positions({"Observed"}) : i < j =>
        /\ turns[i].revision < turns[j].revision
        /\ \A s \in DOMAIN turns[i].steps :
             /\ s \in DOMAIN turns[j].steps
             /\ turns[i].steps[s] \in {"Completed", "Cancelled"} => turns[j].steps[s] = turns[i].steps[s]

(* A handoff cites what calls of this attempt found, and the model was     *)
(* told of it if the call was v2; a complete one leaves no step open, has  *)
(* something to cite, and nothing but the end of the attempt follows it.   *)
HandoffsAreGrounded ==
    \A h \in Positions({"Handoff"}) :
        LET action == turns[h].binding.action
            steps == turns[turns[h].binding.source].steps
        IN  /\ \A c \in action.findings :
                 /\ turns[c.call].kind = "ToolEnded" /\ turns[c.call].outcome = "Succeeded"
                 /\ turns[c.call].result = {c.result}
                 /\ turns[c.call].version = 2 => \E p \in SuppliedOn(c.call) : p < h
            /\ action.status = "Complete" =>
                 action.findings # {} /\ \A s \in DOMAIN steps : steps[s] = "Completed"
            /\ \A i \in DOMAIN turns : i > h => turns[i].kind = "Finished"

(* The end of an attempt is explained by its history: a success by its     *)
(* handoff, a failure of the model by the call that failed last and of a   *)
(* tool by the last one that ended.                                        *)
EndsAreExplained ==
    \A f \in Positions({"Finished"}) :
        /\ f = Len(turns)
        /\ turns[f].outcome = "Succeeded" <=> Positions({"Handoff"}) # {}
        /\ turns[f].cause = "Model" => turns[f - 1].kind \in {"ModelFailed", "ModelUnknown"}
        /\ turns[f].cause = "Tool" => turns[Latest(Transcript)].outcome # "Succeeded"

ChildTurnsAreSound ==
    /\ EffectsRestOnTheLastWord /\ ResultsAreSuppliedOnce /\ PlansNeverReopen
    /\ HandoffsAreGrounded /\ EndsAreExplained
=============================================================================
