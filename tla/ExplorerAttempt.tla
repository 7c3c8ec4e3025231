-------------------------- MODULE ExplorerAttempt --------------------------
(***************************************************************************)
(* The read-only repository agent (apps/daemon/src/                        *)
(* repository_agent_worker.rs): attempts that ask a model, let it revise   *)
(* its local plan and choose a tool, run the tool through the broker lane  *)
(* that all attempts of a broker epoch share, and finish with a handoff.   *)
(*                                                                         *)
(* An attempt is stepped between its awaits and its uses of the lane.      *)
(* retain either acknowledges a boundary or ends the attempt.  The n-th    *)
(* tool call of attempt a is <<a, n>>.  Texts, digests and bindings of an  *)
(* answer are the Boolean `sound'.                                         *)
(***************************************************************************)
EXTENDS LocalPlan, Integers, FiniteSetsExt

CONSTANTS
    Attempts,
    MaxModelCalls, MaxActionRejections, TokensPerCall, MinimumPlanRevisions,  \* RepositoryAgentPolicy
    MaxOutputTokens, MaxToolCalls,                                            \* WorkOrder.budget
    ReadBudget,       \* REPOSITORY_AGENT_V1_MAX_MODEL_VISIBLE_READ_BYTES
    ReadSizes,        \* the max_bytes a model may ask for
    Usages            \* the output tokens a backend may report

VARIABLES
    lane,             \* RepositoryAgentBrokerLane: its flag, and what its broker prepared and ran
    attempt,          \* AttemptState of each attempt, and where it is
    retained          \* the agent journal

explorerVars == <<lane, attempt, retained>>

\* RepositoryAgentPolicy::validate, without the hard ceilings.
PolicyValid ==
    /\ MaxModelCalls > 0
    /\ MaxActionRejections < MaxModelCalls
    /\ TokensPerCall > 0
    /\ MinimumPlanRevisions \in 1..MaxModelCalls

\* The limits are the naturals of the policy and of the work order's budget.
ASSUME AgentLimits ==
    /\ PolicyValid
    /\ {MaxModelCalls, MaxActionRejections, TokensPerCall, MaxOutputTokens, MaxToolCalls, ReadBudget} \subseteq Nat
    /\ ReadSizes \subseteq Nat /\ Usages \subseteq Nat

NotReported == -1     \* reported_output_tokens = None

NewAttempt ==
    [pc |-> "new", plan |-> NoPlan, revision |-> 0, calls |-> 0, rejections |-> 0, tools |-> 0,
     read |-> 0, tokens |-> MaxOutputTokens, reported |-> 0, seen |-> {}, asked |-> 0,
     handoff |-> [status |-> "none", cited |-> {}]]

ExplorerInit ==
    /\ lane = [healthy |-> TRUE, prepared |-> {}, ran |-> {}]
    /\ attempt = [a \in Attempts |-> NewAttempt]
    /\ retained = {}

---------------------------------------------------------------------------
AgentAt(a, pc) == attempt[a].pc = pc
Call(a) == <<a, attempt[a].tools>>
\* RepositoryAgentJournalRecord: what the properties need of a record is its type and its call.
Records(type) == {r \in retained : r.type = type}
CallsOf(type) == {r.call : r \in Records(type)}
Boundary(type, call) == [type |-> type, call |-> call]
Retain(type, call) == retained' = retained \cup {Boundary(type, call)}

Becomes(a, s) == attempt' = [attempt EXCEPT ![a] = s]
End(a, s, pc) == Becomes(a, [s EXCEPT !.pc = pc])
JournalFails(a, s) == End(a, s, "failed") /\ UNCHANGED <<lane, retained>>

\* run_attempt, first part: the dispatch is the one the worker was configured for.
StartAgent(a) ==
    /\ AgentAt(a, "new")
    /\ UNCHANGED lane
    /\ \/ End(a, attempt[a], "denied") /\ UNCHANGED retained
       \/ End(a, attempt[a], "loop") /\ Retain("ExecutionStarted", <<a, 0>>)
       \/ JournalFails(a, attempt[a])

\* The head of the loop: budgets, the turn and the request with their size ceilings.
Ceiling(s) == Min({TokensPerCall, s.tokens})
PrepareCall(a) ==
    LET s == [attempt[a] EXCEPT !.calls = @ + 1] IN
    /\ AgentAt(a, "loop")
    /\ UNCHANGED lane
    /\ IF attempt[a].calls >= MaxModelCalls \/ attempt[a].tokens = 0
       THEN End(a, attempt[a], "failed") /\ UNCHANGED retained
       ELSE \/ End(a, s, "failed") /\ UNCHANGED retained            \* a ceiling, or retain fails
            \/ End(a, s, "calling") /\ Retain("ModelPrepared", <<a, s.calls>>)

\* What the answer costs: its reported usage, or the ceiling of the request.
Charged(s, usage) ==
    [s EXCEPT !.tokens = Max({0, @ - (IF usage = NotReported THEN Ceiling(s) ELSE usage)}),
              !.reported = IF NotReported \in {@, usage} THEN NotReported ELSE @ + usage]

\* infer_structured fails, or its answer is too large to be evidence: ModelFailed is retained.
ModelFails(a) ==
    /\ AgentAt(a, "calling")
    /\ \E usage \in {NotReported} \cup Usages, large \in BOOLEAN :
          End(a, IF large THEN Charged(attempt[a], usage) ELSE attempt[a], "failed")
    /\ Retain("ModelFailed", <<a, attempt[a].calls>>) \/ UNCHANGED retained
    /\ UNCHANGED lane

\* The answer is retained, then held against the request: reported usage, model, endpoint,
\* raw text and structure.  A breach is retained and ends the attempt.
ModelAnswers(a) ==
    /\ AgentAt(a, "calling")
    /\ UNCHANGED lane
    /\ \E usage \in {NotReported} \cup Usages, bound \in BOOLEAN :
          LET s == Charged(attempt[a], usage)
              breach == usage > Ceiling(attempt[a]) \/ ~bound
          IN  /\ End(a, s, IF breach THEN "failed" ELSE "judging")
              /\ retained' = retained \cup {Boundary("ModelObserved", <<a, s.calls>>)}
                               \cup {b \in {Boundary("ModelContractRejected", <<a, s.calls>>)} : breach}
       \/ JournalFails(a, attempt[a])

---------------------------------------------------------------------------
\* validate_plan and its rejections; unlike in the writing agent a new step may have any status.
ValidPlanRevision(prior, plan) ==
    /\ DOMAIN prior \subseteq DOMAIN plan
    /\ \A s \in DOMAIN prior : ValidStepTransition(prior[s], plan[s])
    /\ Cardinality(InProgress(plan)) <= 1
PlanAccepted(s, answer) ==
    /\ answer.sound
    /\ ValidPlanRevision(s.plan, answer.plan)
    /\ IF answer.kind = "Finish"
       THEN InProgress(answer.plan) = {} /\ ValidFinishPlanState(answer.plan, answer.status, answer.unknowns)
       ELSE InProgress(answer.plan) # {}

\* Mutant of FinishEvidenced: any retained observation will do.
FinishEvidencedByAny(s, answer) ==
    answer.cited \subseteq CallsOf("ToolObserved")
\* validate_finish_evidence: findings cite this attempt's own successful observations.
FinishEvidenced(s, answer) ==
    /\ answer.cited \subseteq s.seen
    /\ answer.status = "Complete" => answer.cited # {}

\* model_visible_read_reservation
ReadReserved(s, answer) == s.read + answer.bytes <= ReadBudget

\* The whole of a schema-valid answer: a plan and an action.
Answers ==
    [kind : {"Finish"}, plan : Plans, sound : {TRUE}, status : {"Complete", "Partial", "Blocked"},
     unknowns : BOOLEAN, cited : SUBSET (CallsOf("ToolObserved") \cup {<<"nobody", 0>>})]
    \cup [kind : {"Tool"}, plan : Plans, sound : BOOLEAN, granted : BOOLEAN, bytes : ReadSizes]

\* reject: retained, counted, and repaired by the next call while the budget lasts.
Reject(a, s) ==
    LET t == [s EXCEPT !.rejections = @ + 1] IN
    \/ /\ Retain("ActionRejected", <<a, s.calls>>)
       /\ End(a, t, IF t.rejections > MaxActionRejections THEN "failed" ELSE "loop")
       /\ UNCHANGED lane
    \/ JournalFails(a, s)

Finish(a, s, answer) ==
    IF s.revision < MinimumPlanRevisions \/ ~FinishEvidenced(s, answer) THEN Reject(a, s)
    ELSE \/ /\ retained' = retained \cup {Boundary("ActionValidated", <<a, s.calls>>), Boundary("FinishAccepted", <<a, s.calls>>)}
            /\ Becomes(a, [s EXCEPT !.pc = "finished", !.handoff = [status |-> answer.status, cited |-> answer.cited]])
            /\ UNCHANGED lane
         \/ /\ Retain("ActionValidated", <<a, s.calls>>) /\ End(a, s, "failed")      \* FinishAccepted refused
            /\ UNCHANGED lane
         \/ JournalFails(a, s)

ChooseTool(a, s, answer) ==
    IF s.tools >= MaxToolCalls \/ ~answer.granted \/ ~ReadReserved(s, answer) THEN Reject(a, s)
    ELSE \/ /\ Retain("ActionValidated", <<a, s.calls>>)
            /\ Becomes(a, [s EXCEPT !.pc = "preparing", !.asked = answer.bytes])
            /\ UNCHANGED lane
         \/ JournalFails(a, s)

\* A plan that passes becomes the prior plan even if the action is then rejected.
Judge(a) ==
    /\ AgentAt(a, "judging")
    /\ \E answer \in Answers :
          LET s == [attempt[a] EXCEPT !.plan = answer.plan, !.revision = @ + 1] IN
          IF ~PlanAccepted(attempt[a], answer) THEN Reject(a, attempt[a])
          ELSE IF answer.kind = "Finish" THEN Finish(a, s, answer) ELSE ChooseTool(a, s, answer)

---------------------------------------------------------------------------
\* coordinator.healthy
LaneReady == lane.healthy

\* Under the lane's lock: the broker prepares, the lane is unhealthy from here on, ToolPrepared is retained.
PrepareTool(a) ==
    LET s == [attempt[a] EXCEPT !.tools = @ + 1]
        call == <<a, s.tools>> IN
    /\ AgentAt(a, "preparing")
    /\ IF ~LaneReady THEN End(a, attempt[a], "failed") /\ UNCHANGED <<lane, retained>>
       ELSE \/ End(a, attempt[a], "failed") /\ UNCHANGED <<lane, retained>>     \* broker.prepare refuses
            \/ /\ lane' = [lane EXCEPT !.healthy = FALSE, !.prepared = @ \cup {call}]
               /\ \/ End(a, s, "failed") /\ UNCHANGED retained
                  \/ End(a, s, "executing") /\ Retain("ToolPrepared", call)

\* The blocking task runs the broker; it does so too when the attempt that spawned it is gone.
ExecuteTool(a) ==
    /\ attempt[a].pc \in {"executing", "orphaned"}
    /\ lane' = [lane EXCEPT !.ran = @ \cup {Call(a)}]
    /\ End(a, attempt[a], IF AgentAt(a, "orphaned") THEN "dropped" ELSE "executed")
    /\ UNCHANGED retained

\* The task did not join, the broker failed, or its terminal fails verification or projection.
ToolFails(a) ==
    /\ AgentAt(a, "executed")
    /\ lane' = [lane EXCEPT !.healthy = FALSE]
    /\ End(a, attempt[a], "failed")
    /\ UNCHANGED retained \/ Retain("ToolOutcomeUnknown", Call(a))

\* mark_ready after, mark_reconciliation_required without, the retained ToolObserved.
MarkReady(durable) == lane' = [lane EXCEPT !.healthy = durable]

\* successful_result and the aggregate check on what was read.
ReadObserved(s, call, bytes) ==
    IF s.read + bytes > ReadBudget THEN [s EXCEPT !.pc = "overrun"]
    ELSE [s EXCEPT !.pc = "loop", !.read = @ + bytes, !.seen = @ \cup {call}, !.asked = 0]
ToolObserved(a) ==
    /\ AgentAt(a, "executed")
    /\ \/ /\ Retain("ToolObserved", Call(a)) /\ MarkReady(TRUE)
          /\ \/ \E bytes \in 0..attempt[a].asked : Becomes(a, ReadObserved(attempt[a], Call(a), bytes))
             \/ Becomes(a, [attempt[a] EXCEPT !.pc = "loop", !.asked = 0])     \* the tool reports a failure
             \/ End(a, attempt[a], "failed")                                   \* its result does not decode
       \/ UNCHANGED retained /\ MarkReady(FALSE) /\ End(a, attempt[a], "failed")

\* The executor drops the future at an await.
Drop(a) ==
    /\ attempt[a].pc \in {"calling", "executing", "executed"}
    /\ End(a, attempt[a], IF AgentAt(a, "executing") THEN "orphaned" ELSE "dropped")
    /\ UNCHANGED <<lane, retained>>

ExplorerStep(a) ==
    \/ StartAgent(a) \/ PrepareCall(a) \/ ModelFails(a) \/ ModelAnswers(a) \/ Judge(a)
    \/ PrepareTool(a) \/ ExecuteTool(a) \/ ToolFails(a) \/ ToolObserved(a)
ExplorerNext == \E a \in Attempts : ExplorerStep(a) \/ Drop(a)
ExplorerSpec == ExplorerInit /\ [][ExplorerNext]_explorerVars

---------------------------------------------------------------------------
AgentEnded == {"denied", "failed", "overrun", "finished", "dropped"}

ExplorerTypeOK ==
    /\ lane.healthy \in BOOLEAN
    /\ \A a \in Attempts :
          /\ attempt[a].pc \in AgentEnded \cup {"new", "loop", "calling", "judging", "preparing", "executing", "executed", "orphaned"}
          /\ attempt[a].calls \in 0..MaxModelCalls /\ attempt[a].tools \in 0..MaxToolCalls
          /\ attempt[a].tokens \in 0..MaxOutputTokens

\* The lane is free only when every call its broker ever prepared has a durable observation: whichever
\* attempt failed, was dropped or lost its journal in between, no other one prepares over its call.
FreeLaneIsSettled == lane.healthy => lane.prepared \subseteq CallsOf("ToolObserved")

\* The broker touches the repository only for a call whose preparation is durable, and one call at a time.
EffectsAreRetainedFirst ==
    /\ lane.ran \subseteq CallsOf("ToolPrepared")
    /\ Cardinality(lane.prepared \ CallsOf("ToolObserved")) <= 1

\* A handoff rests on what its own attempt durably observed, after the revisions the policy asks for.
HandoffIsEvidenced ==
    \A a \in Attempts : AgentAt(a, "finished") =>
        /\ \A c \in attempt[a].handoff.cited : c[1] = a /\ c \in CallsOf("ToolObserved")
        /\ attempt[a].handoff.status = "Complete" =>
              /\ attempt[a].handoff.cited # {}
              /\ \A s \in DOMAIN attempt[a].plan : attempt[a].plan[s] = "Completed"
        /\ attempt[a].revision >= MinimumPlanRevisions

\* The reservation before a read makes the check after it redundant: no verified result is thrown away.
ReadsAreReserved == \A a \in Attempts : ~AgentAt(a, "overrun") /\ attempt[a].read <= ReadBudget

\* An attempt that goes on is charged for everything it may have used: what it reports, and what is
\* left, never exceed the work order's budget.
TokensAreCharged ==
    \A a \in Attempts : attempt[a].pc \in {"loop", "judging", "preparing", "executing", "executed", "finished"} =>
        attempt[a].reported + attempt[a].tokens <= MaxOutputTokens

ExplorerIsSound ==
    /\ ExplorerTypeOK
    /\ FreeLaneIsSettled
    /\ EffectsAreRetainedFirst
    /\ HandoffIsEvidenced
    /\ ReadsAreReserved
    /\ TokensAreCharged
=============================================================================

