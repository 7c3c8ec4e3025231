---------------------------- MODULE ChildAttempt ----------------------------
(***************************************************************************)
(* The attempt of one work order as the Store replays it: for each child   *)
(* event, when replay_child_event accepts it and what it leaves behind     *)
(* (crates/store/src/lib.rs, store_child_dispatch/replay.rs).  Documents,  *)
(* digests and prompts are left out; a clock reading is the runtime that   *)
(* took it, since readings of one runtime never go back.                   *)
(***************************************************************************)
EXTENDS Naturals

CONSTANTS Runtimes,             \* runtime instances, one per daemon start
          MaxModelCalls,        \* max_model_calls_per_attempt
          MaxToolCalls          \* max_tool_calls_per_attempt

ASSUME CallLimitAssumption == MaxModelCalls \in Nat /\ MaxToolCalls \in Nat

None == "none"
Retries == {"RequiresNewAttempt", "Never"}
Outcomes == {"Succeeded", "FailedRequiresNewAttempt", "FailedNever", "Cancelled"}
NoCall == [broker |-> 0, sequence |-> 0]

\* ReplayedChildAttempt as ChildExecutionStarted by runtime r creates it.
NewAttempt(r) ==
    [outcome |-> None, tail |-> r, incomparable |-> FALSE, contiguous |-> TRUE,
     pending |-> None, call |-> NoCall, preparedBy |-> r, requiresUnknown |-> FALSE,
     broker |-> 0, lastSequence |-> 0, terminalClock |-> 0, resetFrom |-> 0,
     models |-> 0, tools |-> 0, action |-> None, turnRequired |-> TRUE,
     retryRequired |-> None, modelFailure |-> None, toolFailed |-> FALSE, handoff |-> FALSE]

\* child_attempt_clock_accepts
ClockAccepts(a, r) == a.tail = r \/ a.incomparable

Idle(a) == a.outcome = None /\ a.pending = None
PendingTool(a) == a.pending \in {"prepared", "started"}

\* An authority gap makes the clocks incomparable and takes the right to
\* observe away from whatever is in flight.
Adopted(a, contiguous) ==
    IF contiguous THEN a
    ELSE [a EXCEPT !.incomparable = TRUE, !.contiguous = FALSE,
                   !.requiresUnknown = @ \/ a.pending # None]

CanPrepareModel(a, r) ==
    /\ Idle(a) /\ ~a.handoff
    /\ a.turnRequired /\ a.retryRequired = None
    /\ a.models < MaxModelCalls
    /\ ClockAccepts(a, r)
ModelPrepared(a, r) ==
    [a EXCEPT !.pending = "model", !.preparedBy = r, !.action = None, !.tail = r]

CanObserveModel(a) == a.outcome = None /\ a.pending = "model" /\ ~a.requiresUnknown
ModelEnded(a, r) ==
    [a EXCEPT !.pending = None, !.requiresUnknown = FALSE, !.models = @ + 1,
              !.tail = r, !.turnRequired = FALSE]
ModelSucceeded(a, r, action) ==
    [ModelEnded(a, r) EXCEPT !.action = action, !.modelFailure = None, !.retryRequired = None]
ModelFailed(a, r, retry) ==
    [ModelEnded(a, r) EXCEPT !.action = None, !.modelFailure = retry, !.retryRequired = retry]

\* Mutant: only the runtime that prepared a call may give it up.
CanModelBeUnknownByOwner(a, r, cancelled) ==
    a.outcome = None /\ a.pending = "model" /\ a.preparedBy = r

\* Across runtimes only a restart, a shutdown or a failed renewal explains the
\* silence, and none of those is a cancellation.
CanModelBeUnknown(a, r, cancelled) ==
    /\ a.outcome = None /\ a.pending = "model"
    /\ a.preparedBy = r \/ ~cancelled
ModelUnknown(a, r, retry) ==
    LET gap == a.preparedBy # r IN
    [ModelFailed(a, r, retry) EXCEPT !.incomparable = @ \/ gap, !.contiguous = @ /\ ~gap]

\* validate_child_broker_sequence_v2 and the terminal-clock check after it
BrokerSequenceValid(a, call) ==
    /\ \/ a.broker = 0 /\ a.terminalClock = 0 /\ a.resetFrom = 0
       \/ a.broker = call.broker /\ call.sequence > a.lastSequence /\ a.resetFrom = 0
       \/ a.broker \notin {0, call.broker} /\ a.resetFrom = a.broker /\ a.terminalClock = 0
    /\ a.terminalClock \in {0, call.broker}

CanPrepareTool(a, r, call) ==
    /\ Idle(a) /\ ~a.handoff
    /\ ~a.turnRequired /\ a.retryRequired = None /\ a.action = "tool"
    /\ a.tools < MaxToolCalls
    /\ ClockAccepts(a, r)
    /\ BrokerSequenceValid(a, call)
ToolPrepared(a, r, call) ==
    [a EXCEPT !.pending = "prepared", !.call = call, !.preparedBy = r, !.tail = r,
              !.broker = call.broker, !.lastSequence = call.sequence, !.resetFrom = 0]

CanStartDispatch(a, r, call) ==
    /\ a.outcome = None /\ ~a.requiresUnknown
    /\ a.pending = "prepared" /\ a.call = call
    /\ ClockAccepts(a, r)
DispatchStarted(a, r) == [a EXCEPT !.pending = "started", !.tail = r]

\* Mutant: the end of a call does not ask for the next model turn.
ToolEndedNoTurn(a, r, failed) ==
    [a EXCEPT !.pending = None, !.call = NoCall, !.requiresUnknown = FALSE, !.tools = @ + 1,
              !.toolFailed = failed, !.action = None, !.tail = r]

ToolEnded(a, r, failed) ==
    [a EXCEPT !.pending = None, !.call = NoCall, !.requiresUnknown = FALSE, !.tools = @ + 1,
              !.toolFailed = failed, !.action = None, !.tail = r, !.turnRequired = TRUE]

CanObserveTool(a, r, call) ==
    /\ a.outcome = None /\ ~a.requiresUnknown
    /\ a.pending = "started" /\ a.call = call
    /\ ClockAccepts(a, r)
ToolObserved(a, r, failed) ==
    [ToolEnded(a, r, failed) EXCEPT !.terminalClock = a.call.broker]

\* The broker that prepared the call recorded its end, or a later epoch has
\* closed that broker and another runtime reconciles it.
CanToolBeUnknown(a, r, timing, activeBroker) ==
    /\ a.outcome = None /\ PendingTool(a)
    /\ \/ timing = "BrokerRecorded" /\ a.preparedBy = r
       \/ timing = "RuntimeReconciled" /\ a.preparedBy # r /\ a.call.broker < activeBroker
ToolUnknown(a, r, timing) ==
    IF timing = "BrokerRecorded" THEN ToolObserved(a, r, TRUE)
    ELSE [ToolEnded(a, r, TRUE) EXCEPT !.terminalClock = 0, !.resetFrom = a.call.broker,
                                       !.incomparable = TRUE, !.contiguous = FALSE]

CanCommitHandoff(a) ==
    /\ Idle(a) /\ ~a.handoff
    /\ ~a.turnRequired /\ a.retryRequired = None /\ a.action = "finish"
HandoffCommitted(a) == [a EXCEPT !.handoff = TRUE, !.action = None]

\* validate_child_execution_terminal_outcome; a failure is explained by the
\* model, by a tool, or by evidence of the runtime's own.
FailureExplained(a, cause, retry) ==
    \/ cause = "Model" /\ a.modelFailure = retry
    \/ cause = "Tool" /\ a.toolFailed
    \/ cause = "Runtime"

CanFinish(a, r, outcome, cause, cancelled) ==
    /\ Idle(a) /\ ClockAccepts(a, r)
    /\ \/ outcome = "Succeeded" /\ a.handoff /\ ~a.turnRequired
       \/ outcome = "FailedRequiresNewAttempt" /\ ~a.handoff /\ FailureExplained(a, cause, "RequiresNewAttempt")
       \/ outcome = "FailedNever" /\ ~a.handoff /\ FailureExplained(a, cause, "Never")
       \/ outcome = "Cancelled" /\ ~a.handoff /\ cancelled
Finished(a, r, outcome) == [a EXCEPT !.outcome = outcome, !.tail = r]

\* child_recovery_state of an attempt that has not ended: what a runtime that
\* finds it must do next, or "invalid" when the history explains nothing.
RecoveryState(a) ==
    CASE a.pending # None -> "PendingEffect"
      [] a.handoff \/ a.retryRequired # None -> "ReadyToFinishAttempt"
      [] a.turnRequired -> "ReadyForModel"
      [] a.action = "tool" -> "ReadyForTool"
      [] a.action = "finish" -> "ReadyForHandoff"
      [] OTHER -> "invalid"
=============================================================================

