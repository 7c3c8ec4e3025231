----------------------- MODULE ImplementationAttempt -----------------------
(***************************************************************************)
(* One attempt of the implementation agent                                 *)
(* (apps/daemon/src/repository_implementation_worker.rs) over the write    *)
(* lane and the candidate store (apps/daemon/src/repository_candidate.rs): *)
(* materialize a worktree, let the model read, replace and finish within   *)
(* its budgets, publish the candidate, release the worktree and mark the   *)
(* candidate ready.  Every boundary is journaled, any of them may fail,    *)
(* and the scheduler may drop the attempt while the model is called.       *)
(***************************************************************************)
EXTENDS WorktreeWriteLane, LocalPlan

CONSTANTS MaxModelCalls, MaxActionRejections, FinishCallReserve,
          TokensPerCall, MaxOutputTokens,   \* per call, and of the whole work order
          MinimumPlanRevisions              \* before Finish; 3 in the code

\* RepositoryImplementationPolicy::validate and RepositoryImplementationAgentWorker::new.
ASSUME PolicyAssumption ==
    /\ {MaxModelCalls, MaxActionRejections, TokensPerCall, MaxOutputTokens} \subseteq Nat
    /\ MinimumPlanRevisions = 3
    /\ MaxModelCalls >= 3 /\ MaxActionRejections < MaxModelCalls
    /\ TokensPerCall > 0
    /\ FinishCallReserve \in 1..(MaxModelCalls - 2)
    /\ MaxOutputTokens >= MaxModelCalls * TokensPerCall

VARIABLES attempt,     \* AttemptState and where run_attempt stands
          candidate    \* the store's record for this producer attempt

worker == <<attempt, candidate>>
all == <<vars, worker>>

\* The tool action of an answer.  "unfit" is one that is never admitted: a tree, a search,
\* a path or a preimage other than the grant's, a replacement by the same content.
Tools == {"unfit", "read", "replace"}
Finishes == {"Complete", "Partial", "Blocked"}
Ended == {"completed", "failed", "dropped"}

NoCandidate == [published |-> FALSE, change |-> {}, ready |-> FALSE]

\* What the candidate store keeps of a sealed bundle, and of the publication once the
\* release of its worktree is observed.
Published(change) == [NoCandidate EXCEPT !.published = TRUE, !.change = change]
ReadyAfterCleanup == [candidate EXCEPT !.ready = TRUE]

\* The type of the attempt's and the candidate's state.
AttemptTypeOK ==
    /\ attempt.pc \in Ended \cup {"dispatch", "materializing", "baseline", "head", "calling", "validate",
                                  "reading", "writing", "publish", "release", "releasing", "ready"}
    /\ attempt.plan \in Plans \cup {NoPlan} /\ attempt.revision \in 0..MaxModelCalls
    /\ attempt.calls \in 0..MaxModelCalls /\ attempt.rejections \in 0..(MaxActionRejections + 1)
    /\ attempt.toolCalls \in 0..2 /\ attempt.tokens \in 0..MaxOutputTokens
    /\ attempt.read \in BOOLEAN /\ attempt.written \in BOOLEAN
    /\ attempt.finishCalls \in 0..MaxModelCalls
    /\ attempt.effect \in {"none", "worktree", "diff", "published", "cleanup"}
    /\ attempt.outcome \in {"none", "error", "slots", "rejections"} \cup Finishes
    /\ candidate \in [published : BOOLEAN, change : SUBSET {"target", "other"}, ready : BOOLEAN]

AttemptInit ==
    /\ Init
    /\ attempt = [pc |-> "dispatch", plan |-> NoPlan, revision |-> 0, calls |-> 0, rejections |-> 0,
                  toolCalls |-> 0, tokens |-> MaxOutputTokens, read |-> FALSE, written |-> FALSE,
                  finishCalls |-> 0, effect |-> "none", outcome |-> "none"]
    /\ candidate = NoCandidate

-----------------------------------------------------------------------------
(* Endings                                                                 *)

Doing(step) == attempt.pc = step
EffectReceipt == IF attempt.written THEN "diff" ELSE "none"

FailWith(state, reason, effect) ==
    attempt' = [state EXCEPT !.pc = "failed", !.outcome = reason, !.effect = effect]

Fail == FailWith(attempt, "error", EffectReceipt)

\* A boundary that is journaled, or read from the disk: passed, or the attempt fails.
Boundary(passed) ==
    \/ NoFault /\ passed
    \/ Fault /\ Fail

\* A rejected answer costs one repair; the one beyond the limit ends the attempt.
Reject(state) ==
    LET rejected == [state EXCEPT !.rejections = @ + 1]
    IN  IF rejected.rejections > MaxActionRejections
          THEN FailWith(rejected, "rejections", EffectReceipt)
          ELSE attempt' = [rejected EXCEPT !.pc = "head"]

-----------------------------------------------------------------------------
(* run_attempt up to its loop                                              *)

\* ExecutionStarted is journaled, then the worktree is acquired.
StartAttempt ==
    /\ Doing("dispatch")
    /\ Boundary(attempt' = [attempt EXCEPT !.pc = "materializing"])
    /\ UNCHANGED <<source, disk, tree, lane, journal, edits, candidate>>

Materialized ==
    /\ Doing("materializing")
    /\ \/ lane.phase = "Ready" /\ At("idle") /\ attempt' = [attempt EXCEPT !.pc = "baseline"]
       \/ lane.pc \in {"failed", "dropped"} /\ Fail
    /\ UNCHANGED <<vars, candidate>>

\* The baseline must be the dispatched one and the target its staged preimage;
\* GitBaselineMaterialized is journaled.
CheckBaseline ==
    /\ Doing("baseline")
    /\ Boundary(IF lane.base = 0 /\ disk.content = "base" THEN attempt' = [attempt EXCEPT !.pc = "head"]
                                                           ELSE Fail)
    /\ UNCHANGED <<source, disk, tree, lane, journal, edits, candidate>>

-----------------------------------------------------------------------------
(* The loop                                                                *)

LoopHead ==
    /\ Doing("head")
    /\ IF attempt.calls >= MaxModelCalls \/ attempt.tokens < TokensPerCall
         THEN FailWith(attempt, "slots", EffectReceipt)
         ELSE attempt' = [attempt EXCEPT !.pc = "calling", !.calls = @ + 1,
                                         !.finishCalls = IF attempt.written THEN @ + 1 ELSE @]
    /\ UNCHANGED <<vars, candidate>>

\* Mutant of Charge: an answer without a usage report is charged twice.
ChargeTwice(reported) == IF reported = 0 THEN 2 * TokensPerCall ELSE reported

\* What an answer costs: its reported tokens, or a full call when it reports none.
Charge(reported) == IF reported = 0 THEN TokensPerCall ELSE reported

Spend(reported) ==
    [attempt EXCEPT !.tokens = IF @ > Charge(reported) THEN @ - Charge(reported) ELSE 0]

\* ModelPrepared, the inference, ModelObserved and the response contract; 0 stands for no
\* report.  A report above the ceiling, like any other breach, fails the attempt.
CallModel ==
    /\ Doing("calling")
    /\ \E reported \in 0..TokensPerCall + 1 :
          \/ NoFault /\ reported <= TokensPerCall /\ attempt' = [Spend(reported) EXCEPT !.pc = "validate"]
          \/ NoFault /\ reported > TokensPerCall /\ FailWith(Spend(reported), "error", EffectReceipt)
          \/ Fault /\ FailWith(Spend(reported), "error", EffectReceipt)
    /\ UNCHANGED <<source, disk, tree, lane, journal, edits, candidate>>

Revised(plan) == [attempt EXCEPT !.plan = plan, !.revision = @ + 1]

\* ToolBudgetExhausted cannot be reached: the worker demands two tool calls, and each
\* tool action is admitted once.
ReadAdmitted == ~attempt.read /\ ~attempt.written

ReplaceAdmitted ==
    attempt.read /\ ~attempt.written /\ MaxModelCalls - attempt.calls >= FinishCallReserve

\* Complete needs a write and findings; every finding cites the exact observations, and
\* a write that exists must be cited.
FinishAdmitted(state, status, cited) ==
    /\ state.revision >= MinimumPlanRevisions
    /\ status = "Complete" => attempt.written
    /\ attempt.written => cited

\* The model's answer is validated: first its plan, then its action.  The plan of an
\* answer whose action is rejected still becomes the prior plan.
Answer ==
    /\ Doing("validate")
    /\ \/ /\ NoFault
          /\ \/ Reject(attempt)                                   \* an invalid plan, or none
             \/ \E plan \in Plans, action \in Tools :
                   /\ ValidPlan(attempt.plan, plan, FALSE, action, FALSE)
                   /\ CASE action = "read" /\ ReadAdmitted ->
                               attempt' = [Revised(plan) EXCEPT !.pc = "reading"]
                        [] action = "replace" /\ ReplaceAdmitted ->
                               attempt' = [Revised(plan) EXCEPT !.pc = "writing"]
                        [] OTHER -> Reject(Revised(plan))
             \/ \E plan \in Plans, status \in Finishes, unknowns, cited \in BOOLEAN :
                   /\ ValidPlan(attempt.plan, plan, TRUE, status, unknowns)
                   /\ IF FinishAdmitted(Revised(plan), status, cited)
                        THEN attempt' = [Revised(plan) EXCEPT !.pc = "publish", !.outcome = status]
                        ELSE Reject(Revised(plan))
       \/ Fault /\ Fail
    /\ UNCHANGED <<source, disk, tree, lane, journal, edits, candidate>>

\* ReadPrepared, the descriptor-confined read, ReadObserved.
Read ==
    /\ Doing("reading")
    /\ LET used == [attempt EXCEPT !.toolCalls = @ + 1]
       IN  \/ NoFault /\ disk.content = "base" /\ attempt' = [used EXCEPT !.read = TRUE, !.pc = "head"]
           \/ NoFault /\ disk.content # "base" /\ FailWith(used, "error", EffectReceipt)
           \/ Fault /\ FailWith(used, "error", EffectReceipt)
    /\ UNCHANGED <<source, disk, tree, lane, journal, edits, candidate>>

\* ActionValidated is journaled; the lane takes the worktree over and executes.
BeginWrite ==
    /\ Doing("writing") /\ attempt.toolCalls = 1
    /\ \/ ExecuteOnce /\ attempt' = [attempt EXCEPT !.toolCalls = 2]
       \/ Fault /\ Fail /\ UNCHANGED <<source, disk, tree, lane, journal, edits>>
    /\ UNCHANGED candidate

Wrote ==
    /\ Doing("writing") /\ attempt.toolCalls = 2 /\ At("idle")
    /\ IF lane.phase = "Written" THEN attempt' = [attempt EXCEPT !.written = TRUE, !.pc = "head"]
                                 ELSE FailWith(attempt, "error", "worktree")
    /\ UNCHANGED <<vars, candidate>>

-----------------------------------------------------------------------------
(* Finish: the candidate is published, the worktree released, the candidate ready *)

\* FinishAccepted is journaled before the candidate is sealed; without an observed write
\* there is nothing to seal.
Publish ==
    /\ Doing("publish")
    /\ \/ /\ NoFault /\ attempt.written
          /\ candidate' = Published(lane.diff)
          /\ attempt' = [attempt EXCEPT !.pc = "release"]
       \/ NoFault /\ ~attempt.written /\ Fail /\ UNCHANGED candidate
       \/ Fault /\ Fail /\ UNCHANGED candidate
    /\ UNCHANGED <<source, disk, tree, lane, journal, edits>>

BeginRelease ==
    /\ Doing("release")
    /\ ReleaseAfterCandidatePublished
    /\ attempt' = [attempt EXCEPT !.pc = "releasing"]
    /\ UNCHANGED candidate

Released ==
    /\ Doing("releasing") /\ At("idle")
    /\ IF lane.phase = "Released" THEN attempt' = [attempt EXCEPT !.pc = "ready"]
                                  ELSE FailWith(attempt, "error", "published")
    /\ UNCHANGED <<vars, candidate>>

MarkCleanupObserved ==
    /\ Doing("ready")
    /\ \/ /\ NoFault /\ candidate' = ReadyAfterCleanup
          /\ attempt' = [attempt EXCEPT !.pc = "completed"]
       \/ Fault /\ FailWith(attempt, "error", "cleanup") /\ UNCHANGED candidate
    /\ UNCHANGED <<source, disk, tree, lane, journal, edits>>

\* The scheduler drops the attempt's future where it waits: at the acquisition, whose
\* blocking task goes on by itself, or at the model.
DropAttempt ==
    /\ attempt.pc \in {"materializing", "calling"}
    /\ attempt' = [attempt EXCEPT !.pc = "dropped"]
    /\ UNCHANGED <<vars, candidate>>

\* The worktree, or the lane that owns it, is dropped with the attempt's state.
DropWorktree == attempt.pc \in Ended /\ Drop /\ UNCHANGED worker

-----------------------------------------------------------------------------
AttemptStep ==
    \/ StartAttempt \/ Materialized \/ CheckBaseline \/ LoopHead \/ CallModel \/ Answer \/ Read
    \/ BeginWrite \/ Wrote \/ Publish \/ BeginRelease \/ Released \/ MarkCleanupObserved

LaneStep ==
    /\ At("head_before") => attempt.pc \in {"materializing", "dropped"}
    /\ CallStep /\ UNCHANGED worker

AttemptNext ==
    \/ At("crashed") = FALSE /\ (AttemptStep \/ LaneStep \/ DropAttempt \/ DropWorktree)
    \/ World /\ UNCHANGED worker

AttemptSpec == AttemptInit /\ [][AttemptNext]_all

\* The daemon's tasks run while they can, the backend answers or times out, and the
\* worktree of an ended attempt is dropped with it.
AttemptFairness == WF_all(AttemptStep) /\ WF_all(LaneStep) /\ WF_all(DropWorktree)

LiveAttemptSpec == AttemptSpec /\ AttemptFairness

-----------------------------------------------------------------------------
(* Properties                                                              *)

\* A candidate is ready, and an attempt complete, only once its exact write is published
\* and its worktree is gone (publish, release and mark_cleanup_observed, in this order).
ReadyIsReleased ==
    /\ candidate.ready => candidate.published /\ candidate.change = {"target"}
                          /\ lane.phase = "Released" /\ ~disk.present
    /\ attempt.pc = "completed" => candidate.ready /\ attempt.revision >= MinimumPlanRevisions

\* A failure that leaves a write behind says so: the failure of an attempt whose rename
\* happened names the worktree, the diff, the publication or the cleanup
\* (effect_receipt_id, from which the scheduler decides about a retry).
FailureNamesEffect ==
    attempt.pc = "failed" /\ lane.renames = 1 => attempt.effect # "none"

\* The output tokens never run out before the model calls do: whatever each call reports,
\* the remaining tokens cover every remaining call in full (new's required_tokens).
TokensCoverCalls ==
    attempt.pc = "head" => attempt.tokens >= (MaxModelCalls - attempt.calls) * TokensPerCall

\* A write is made only with the reserve in hand: an attempt that runs out of calls after
\* its write was offered the reserved number of Finish calls.
WriteLeavesFinishCalls ==
    attempt.outcome = "slots" /\ attempt.written => attempt.finishCalls >= FinishCallReserve

\* What an attempt leaves on disk can be found: when it has ended and been dropped, a
\* worktree that is still there is in the write journal, or Git failed to remove it.
LeftoverIsJournaled ==
    attempt.pc \in Ended /\ At("dropped") /\ disk.present =>
        Retained("FileReplacePrepared") \/ (tree.cleanup_on_drop /\ faults > 0)

\* Whatever plans the model has submitted, rejected actions included, the calls kept back
\* for Finish are of use: every answer an attempt waits for after its write can be a Finish
\* that validate_plan and validate_finish_evidence accept.  It is not always "Complete":
\* a step still pending cannot be completed at once, and a cancelled one never is.
FinishStaysInReach ==
    Doing("validate") /\ attempt.written =>
        \E plan \in Plans, status \in Finishes, unknowns \in BOOLEAN :
            /\ ValidPlan(attempt.plan, plan, TRUE, status, unknowns)
            /\ FinishAdmitted(Revised(plan), status, TRUE)

\* Every attempt ends, and its worktree is either removed or deliberately kept.
AttemptOver ==
    At("crashed") \/ (attempt.pc \in Ended /\ lane.pc \in {"head_before", "failed", "dropped"})
AttemptEnds == <>AttemptOver

\* Whatever fails, an attempt's outcome, its candidate and what is left on disk agree,
\* and neither the tokens nor the calls of a correct agent run out before it may finish.
AttemptIsSound ==
    /\ AttemptTypeOK
    /\ ReadyIsReleased
    /\ FailureNamesEffect
    /\ LeftoverIsJournaled
    /\ TokensCoverCalls
    /\ WriteLeavesFinishCalls
=============================================================================

