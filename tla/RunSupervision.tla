--------------------------- MODULE RunSupervision ---------------------------
(***************************************************************************)
(* The daemon's side of one plan-only run under the                        *)
(* IndependentSemanticReviewV1 contract (apps/daemon/src/supervisor.rs):   *)
(* the task that drives it from claim to terminal state, the CancelRun     *)
(* handler beside it, shutdown, crashes and restarts of the daemon, the    *)
(* claim's lease and the run's wall deadline.                              *)
(*                                                                         *)
(* Each value of Actors is one daemon process: a process takes a fresh     *)
(* actor id when it starts and never comes back after it died.  The run's  *)
(* file lock lets one process at a time execute the run, so the task is    *)
(* one record; task.pc names the next thing it does.                       *)
(*                                                                         *)
(* A store phase runs in spawn_blocking: it reads the history and appends  *)
(* with the last event as causal parent, so it either appends to exactly   *)
(* the history it read or fails.  It is one step here, and a step that     *)
(* fails (busy database, I/O, an append that lost the race) is StoreError. *)
(* Appends in sequence inside one phase are separate steps.                *)
(***************************************************************************)
EXTENDS PlanningLog

CONSTANTS MaxFaults,           \* store errors, heartbeats and lease losses
          MaxRecoveryEvents,   \* max_recovery_events
          Stoppable,           \* processes that may be shut down gracefully
          Cancellers           \* processes a client may ask to cancel the run

ASSUME FaultsAssumption == MaxFaults \in Nat
ASSUME RecoveryAssumption == MaxRecoveryEvents \in Nat \ {0}
ASSUME ProcessAssumption == Stoppable \subseteq Actors /\ Cancellers \subseteq Actors

VARIABLES proc,        \* life of each daemon process
          task,        \* the task that holds the run's lock
          token,       \* its in-memory cancellation token
          late,        \* the run's wall deadline has elapsed
          calls,       \* provider calls made for each stage
          cancelling,  \* each process's CancelRun handler
          faults       \* faults so far

taskVars == <<proc, task, token, late, calls, cancelling, faults>>
vars == <<logVars, taskVars>>

PCs == {"none", "claim", "toRunning", "loop", "ensure", "compile", "prepare",
        "dispatch", "notDispatched", "cancelledBeforeCall", "slot", "slotBeat",
        "granted", "calling", "beat", "observeSucceeded", "observeFailed",
        "replay", "unknown", "unknownAgain", "decide", "observedFailed",
        "planningFailed", "stageFailed", "reload", "transition"}

Task == [owner : Actors \cup {"none"}, pc : PCs, after : PCs, hist : Nat,
         stage : Stages \cup {"none"}, goal : RunStates \cup {"none"},
         recover : BOOLEAN]

Ended == [owner |-> "none", pc |-> "none", after |-> "none", hist |-> 0,
          stage |-> "none", goal |-> "none", recover |-> FALSE]

TypeOK ==
    /\ LogTypeOK
    /\ proc \in [Actors -> {"new", "up", "stopping", "dead"}]
    /\ task \in Task
    /\ token \in BOOLEAN
    /\ late \in BOOLEAN
    /\ calls \in [Stages -> Nat]
    /\ cancelling \in [Actors -> {"no", "finish", "signal", "done"}]
    /\ faults \in 0..MaxFaults

Init ==
    /\ LogInit
    /\ proc = [a \in Actors |-> "new"]
    /\ task = Ended
    /\ token = FALSE
    /\ late = FALSE
    /\ calls = [s \in Stages |-> 0]
    /\ cancelling = [a \in Actors |-> "no"]
    /\ faults = 0

-----------------------------------------------------------------------------
(* RunHistory: what a replay of the first h events tells the supervisor.   *)

CancelledBy(h) == \E i \in 1..h : log[i].kind = "CancelRequested"

OutcomeIn(h, p) == {i \in 1..h : log[i].kind \in Outcomes /\ log[i].parent = p}
DecisionIn(h, p) == {i \in 1..h : log[i].kind \in Decisions /\ AttemptOf(i) = p}

NextStage(s) == [act |-> "NextStage", stage |-> s, to |-> "none"]
Finish(to) == [act |-> "Terminal", stage |-> "none", to |-> to]

(* What follows the latest decision or unknown outcome of the history.     *)
Following(i) ==
    CASE log[i].kind = "PlanAccepted" ->
           NextStage(IF log[AttemptOf(i)].stage = "InitialPlan" THEN "InitialReview"
                                                            ELSE "FinalReview")
      [] log[i].kind = "RepairOnceAuthorized" -> NextStage("Repair")
      [] log[i].kind = "ReviewAccepted" -> Finish("Completed")
      [] OTHER -> Finish("Failed")

recovery_action(h) ==
    LET attempts == {i \in 1..h : log[i].kind = "Prepared"}
        prepared == {p \in attempts : OutcomeIn(h, p) = {}}
        observed == {p \in attempts : /\ DecisionIn(h, p) = {}
                                      /\ \E i \in OutcomeIn(h, p) : log[i].kind # "Unknown"}
        resolved == {i \in 1..h : log[i].kind \in Decisions \cup {"Unknown"}}
        replay(act, p) == [act |-> act, stage |-> log[p].stage, to |-> "none"]
    IN IF \E i \in 1..h : log[i].kind \in Failures THEN Finish("Failed")
       ELSE IF prepared # {} THEN replay("Prepared", CHOOSE p \in prepared : TRUE)
       ELSE IF observed # {} THEN replay("Observed", CHOOSE p \in observed : TRUE)
       ELSE IF resolved # {}
         THEN Following(CHOOSE i \in resolved : \A j \in resolved : j <= i)
       ELSE NextStage("InitialPlan")

(* The attempt the task works on and its observation.                      *)
prep == CHOOSE p \in Prepared(task.stage) : TRUE
obs == CHOOSE i \in inference_terminal_count(prep) : TRUE

recovery_expects_stage(s) == recovery_action(Len(log)) = NextStage(s)

(* load_run_history refuses a history longer than max_recovery_events.     *)
load_run_history == Len(log) <= MaxRecoveryEvents

-----------------------------------------------------------------------------
(* Steps of the task.                                                      *)

me == task.owner
At(pc) == task.pc = pc
Stopping == proc[me] = "stopping"

Goto(pc) == [task EXCEPT !.pc = pc]
Transition(to) == [task EXCEPT !.pc = "transition", !.goal = to, !.hist = 0]
Renew(after) == [task EXCEPT !.pc = "claim", !.after = after]
Ensure(after, to) == [task EXCEPT !.pc = "ensure", !.after = after, !.goal = to,
                                  !.recover = FALSE]
(* An ambiguous boundary: the call's outcome is recorded as unknown.       *)
Boundary(to, recover) == [task EXCEPT !.pc = "unknown", !.goal = to,
                                      !.recover = recover]

(* fail_before_inference for the first stage, fail_semantic_stage later.   *)
FailStage(s) ==
    CASE s # "InitialPlan" -> [Renew("stageFailed") EXCEPT !.stage = s, !.hist = 0]
      [] s = "InitialPlan" /\ token ->
           [Ensure("transition", "Cancelled") EXCEPT !.stage = s, !.hist = 0]
      [] s = "InitialPlan" /\ ~token ->
           [Renew("planningFailed") EXCEPT !.stage = s, !.hist = 0]

(* Where a failed phase leads: most errors end the task, which the durable *)
(* dispatcher starts again while the run is not terminal.                  *)
PrepareError == {FailStage(task.stage), Transition("Waiting")}

RenewalError ==
    CASE task.after \in {"slotBeat", "beat"} -> {Boundary("Failed", TRUE)}
      [] task.after = "unknown" -> {Boundary("Cancelled", TRUE)}
      [] task.after = "prepare" -> PrepareError
      [] OTHER -> {Ended}

(* decide_or_fail_semantic_observed: a result that cannot be decided on    *)
(* fails its stage, unless the error is one a later replay may not meet.   *)
DecideError == {Renew("observedFailed"), Ended}

OnError ==
    CASE At("claim") \/ At("toRunning") -> RenewalError
      [] At("compile") \/ At("prepare") -> PrepareError
      [] At("unknown") /\ task.recover -> {Renew("unknownAgain")}
      [] At("decide") -> DecideError
      [] OTHER -> {Ended}

TaskOnly == UNCHANGED <<logVars, proc, token, late, calls, cancelling, faults>>

(* One append of a phase: admitted, or refused and handled as an error.    *)
AppendThen(e, next) ==
    /\ \/ append_event(e) /\ task' = next
       \/ /\ ~validate_generic_event(e)
          /\ task' \in OnError
          /\ UNCHANGED logVars
    /\ UNCHANGED <<proc, token, late, calls, cancelling, faults>>

(* A fresh process, the run's lock free: submit or the durable dispatcher. *)
Start(a) ==
    /\ At("none") /\ proc[a] = "up" /\ state \notin Terminal
    /\ task' = [Ended EXCEPT !.owner = a, !.pc = "claim", !.after = "loop"]
    /\ token' = FALSE
    /\ UNCHANGED <<logVars, proc, late, calls, cancelling, faults>>

(* begin_run, also behind renew_claim and reclaim_claim_after_boundary.    *)
Waits == task.after \in {"loop", "unknownAgain"}
AlreadyTerminal == IF Waits THEN Ended ELSE Goto(task.after)
AfterClaim(h) == [Goto(task.after) EXCEPT !.after = "none",
                                        !.hist = IF task.after = "loop" THEN h ELSE 0]
LeaseBlocked == Has({"Claimed"}) /\ leaseLive /\ log[latest_claim_for_run].actor # me

\* mutant: a run cancelled while nobody executed it is only left alone
LeaveInactiveCancelled == task' = Ended /\ TaskOnly

FinishInactiveCancelled == AppendThen(Plain("Cancelled", me, Len(log)), AlreadyTerminal)

begin_run ==
    /\ At("claim")
    /\ \/ /\ state \in Terminal
          /\ task' = AlreadyTerminal
          /\ TaskOnly
       \/ /\ load_run_history /\ state \in Inactive /\ Cancelled
          /\ FinishInactiveCancelled
       \/ /\ load_run_history /\ ~(state \in Inactive /\ Cancelled)
          /\ state \notin Terminal /\ LeaseBlocked
          /\ Waits => Stopping
          /\ task' \in IF Waits THEN {Ended} ELSE OnError
          /\ TaskOnly
       \/ /\ load_run_history /\ ~(state \in Inactive /\ Cancelled)
          /\ state \notin Terminal /\ ~LeaseBlocked
          /\ AppendThen(Claim(me, Len(log), latest_cancellation_generation),
                        IF state \in Inactive
                          THEN [task EXCEPT !.pc = "toRunning", !.hist = Len(log)]
                          ELSE AfterClaim(Len(log)))

(* begin_run's second append, on top of the claim it just made.            *)
begin_running ==
    /\ At("toRunning")
    /\ AppendThen(Plain("Running", me, task.hist + 1), AfterClaim(task.hist))

\* mutant: a recovered attempt is dispatched again
RedispatchPrepared(s, cancelled) ==
    [task EXCEPT !.stage = s, !.hist = 0, !.pc = "slot"]

(* A recovered attempt without outcome is never dispatched again.          *)
ReplayPrepared(s, cancelled) ==
    LET at == [task EXCEPT !.stage = s, !.hist = 0] IN
    IF token /\ ~cancelled
      THEN [at EXCEPT !.pc = "ensure", !.after = "replay", !.goal = "Cancelled"]
      ELSE [at EXCEPT !.pc = "replay",
                      !.goal = IF cancelled THEN "Cancelled" ELSE "Failed"]

(* discover_semantic_models ends by the token, by the shutdown signal, or  *)
(* by a deadline, policy, backend or catalog that refuses the stage.       *)
DiscoveryEnd(at) ==
    \/ /\ token
       /\ task' = [at EXCEPT !.pc = "ensure", !.after = "transition", !.goal = "Cancelled"]
    \/ ~token /\ Stopping /\ task' = Transition("Waiting")
    \/ task' = FailStage(at.stage)

(* The same ends are looked for before the discovery.                      *)
BeginStage(at) ==
    \/ DiscoveryEnd(at)
    \/ ~token /\ ~Stopping /\ ~late /\ task' = [at EXCEPT !.pc = "compile"]

(* A recovered observation is decided on, unless it is a failed one.       *)
ReplayObserved(at) ==
    task' = IF \E p \in Prepared(at.stage), i \in 1..task.hist :
                  log[i].kind \in Observations \ {"Succeeded"} /\ log[i].parent = p
              THEN Transition("Failed")
              ELSE [at EXCEPT !.pc = "decide"]

(* The head of supervise_semantic_run's loop, on the history it holds.     *)
supervise_semantic_run ==
    LET r == recovery_action(task.hist)
        cancelled == CancelledBy(task.hist)
        at == [task EXCEPT !.stage = r.stage, !.hist = 0]
    IN
    /\ At("loop")
    /\ TaskOnly
    /\ \/ /\ cancelled /\ r.act # "Prepared"
          /\ task' = Transition("Cancelled")
       \/ /\ r.act = "Prepared"
          /\ task' = ReplayPrepared(r.stage, cancelled)
       \/ ~cancelled /\ r.act = "Observed" /\ ReplayObserved(at)
       \/ /\ ~cancelled /\ r.act = "Terminal"
          /\ task' = Transition(r.to)
       \/ ~cancelled /\ r.act = "NextStage" /\ BeginStage(at)

(* compile_and_prepare_semantic: two phases around the compilation, the    *)
(* claim renewed in between.                                               *)
Ready(s) == state = "Running" /\ recovery_expects_stage(s)

(* The plan accepted in stage s.                                           *)
load_committed_candidate(s) ==
    CHOOSE i \in DOMAIN log : log[i].kind = "PlanAccepted" /\ log[AttemptOf(i)].stage = s

(* The plan a stage is compiled on: none, the first one or the repaired.   *)
semantic_compile_source(s) ==
    CASE s = "InitialPlan" -> 0
      [] s \in {"InitialReview", "Repair"} -> load_committed_candidate("InitialPlan")
      [] s = "FinalReview" -> load_committed_candidate("Repair")

compile_semantic_stage ==
    /\ At("compile") /\ load_run_history
    /\ TaskOnly
    /\ \/ Cancelled /\ task' = Transition("Cancelled")
       \/ ~Cancelled /\ late /\ task' = FailStage(task.stage)
       \/ ~Cancelled /\ ~late /\ ~Ready(task.stage) /\ task' \in OnError
       \/ ~Cancelled /\ ~late /\ Ready(task.stage) /\ task' = Renew("prepare")

prepare_semantic_stage ==
    /\ At("prepare") /\ load_run_history
    /\ \/ Cancelled /\ task' = Transition("Cancelled") /\ TaskOnly
       \/ ~Cancelled /\ late /\ task' = FailStage(task.stage) /\ TaskOnly
       \/ ~Cancelled /\ ~late /\ ~Ready(task.stage) /\ task' \in OnError /\ TaskOnly
       \/ /\ ~Cancelled /\ ~late /\ Ready(task.stage)
          /\ AppendThen(Preparation(me, Len(log), task.stage,
                                    semantic_compile_source(task.stage), 0),
                        Goto("dispatch"))

(* execute_semantic_prepared up to the lane: the token, then the backend's *)
(* identity against the one prepared.                                      *)
pre_dispatch ==
    /\ At("dispatch")
    /\ TaskOnly
    /\ \/ token /\ task' = Ensure("cancelledBeforeCall", "Cancelled")
       \/ ~token /\ task' = Goto("notDispatched")
       \/ ~token /\ task' = Goto("slot")

append_not_dispatched ==
    /\ At("notDispatched")
    /\ AppendThen(Plain("NotDispatched", me, prep), Transition("Failed"))

append_cancelled_before_call ==
    /\ At("cancelledBeforeCall")
    /\ AppendThen(Plain("NotDispatched", me, prep), Transition("Cancelled"))

(* await_model_call_slot; the lane itself is module ModelCallScheduler.    *)
SlotExit ==
    \/ token /\ task' = Ensure("cancelledBeforeCall", "Cancelled")
    \/ ~token /\ Stopping /\ task' = Ended
    \/ ~token /\ ~Stopping /\ late /\ task' = Boundary("Failed", FALSE)

await_model_call_slot ==
    /\ At("slot")
    /\ TaskOnly
    /\ \/ SlotExit
       \/ /\ ~token /\ ~Stopping /\ ~late /\ load_run_history
          /\ task' = IF Cancelled THEN Ensure("cancelledBeforeCall", "Cancelled")
                                  ELSE Goto("granted")

slot_heartbeat ==
    /\ At("slotBeat") /\ load_run_history
    /\ task' = IF Cancelled THEN Ensure("cancelledBeforeCall", "Cancelled")
                            ELSE Goto("slot")
    /\ TaskOnly

(* The last rechecks, and the provider call itself.                        *)
infer_structured ==
    /\ At("granted")
    /\ \/ SlotExit /\ UNCHANGED calls
       \/ /\ ~token /\ ~Stopping /\ ~late
          /\ task' = Goto("calling")
          /\ calls' = [calls EXCEPT ![task.stage] = @ + 1]
    /\ UNCHANGED <<logVars, proc, token, late, cancelling, faults>>

(* The select around the call, and the recheck of the deadline after it.   *)
inference_ends ==
    /\ At("calling")
    /\ TaskOnly
    /\ \/ task' = IF late THEN Boundary("Failed", FALSE) ELSE Goto("observeSucceeded")
       \/ task' = IF late THEN Boundary("Failed", FALSE) ELSE Goto("observeFailed")
       \/ token /\ task' = Ensure("unknown", "Cancelled")
       \/ Stopping /\ task' = Boundary("Failed", FALSE)

heartbeat ==
    /\ At("slot") \/ At("calling")
    /\ faults < MaxFaults /\ faults' = faults + 1
    /\ task' = Renew(IF At("slot") THEN "slotBeat" ELSE "beat")
    /\ UNCHANGED <<logVars, proc, token, late, calls, cancelling>>

\* mutant: a cancellation ends the call as one that ends the wait for a slot
CancelledCallForgotten ==
    /\ At("beat") /\ load_run_history
    /\ task' = IF Cancelled THEN Ensure("cancelledBeforeCall", "Cancelled")
                            ELSE Goto("calling")
    /\ TaskOnly

(* A cancellation found by a heartbeat during the call leaves the outcome  *)
(* unknown: the provider may have answered.                                *)
call_heartbeat ==
    /\ At("beat") /\ load_run_history
    /\ task' = IF Cancelled THEN Ensure("unknown", "Cancelled") ELSE Goto("calling")
    /\ TaskOnly

\* mutant: the result is decided on from memory, before it is durable
ObserveInMemory ==
    \/ At("observeSucceeded") /\ task' = Goto("decide") /\ TaskOnly
    \/ /\ At("observeFailed")
       /\ AppendThen(Plain("ObservedFailed", me, prep), Transition("Failed"))

(* A result is decided on, a failure ends the run.                         *)
AfterObservation(k) == IF k = "Succeeded" THEN Goto("decide") ELSE Transition("Failed")

append_observation ==
    \/ /\ At("observeSucceeded")
       /\ AppendThen(Plain("Succeeded", me, prep), AfterObservation("Succeeded"))
    \/ /\ At("observeFailed")
       /\ AppendThen(Plain("ObservedFailed", me, prep), AfterObservation("ObservedFailed"))

append_unknown ==
    /\ task.pc \in {"replay", "unknown", "unknownAgain"} /\ load_run_history
    /\ AppendThen(UnknownOutcome(me, prep, latest_cancellation_generation),
                  Transition(task.goal))

(* decide_semantic_review_in_store: only the first review may ask for a    *)
(* repair.                                                                 *)
ReviewKinds(s) == IF s = "InitialReview" THEN ReviewDecisions
                                         ELSE {"ReviewAccepted", "ReviewRejected"}

DecisionKinds(s) == IF s \in PlanStages THEN PlanDecisions ELSE ReviewKinds(s)

(* decide_observed: the cancellation and the deadline are read before the  *)
(* decision, and the deadline again inside the append's transaction.       *)
decide_observed ==
    /\ At("decide") /\ load_run_history
    /\ \/ Cancelled /\ task' = Transition("Cancelled") /\ TaskOnly
       \/ ~Cancelled /\ late /\ task' = Renew("observedFailed") /\ TaskOnly
       \/ /\ ~Cancelled /\ ~late
          /\ \E k \in DecisionKinds(task.stage) :
               AppendThen(Plain(k, me, obs), Goto("reload"))

fail_observed_semantic_stage ==
    /\ At("observedFailed") /\ load_run_history
    /\ \/ /\ Cancelled
          /\ task' = [Renew("transition") EXCEPT !.goal = "Cancelled"]
          /\ TaskOnly
       \/ /\ ~Cancelled
          /\ state # "Running" \/ recovery_action(Len(log)).act # "Observed"
          /\ task' = Ended /\ TaskOnly
       \/ /\ ~Cancelled /\ state = "Running"
          /\ recovery_action(Len(log)).act = "Observed"
          /\ AppendThen(StageFailure(me, Len(log), task.stage),
                        [Renew("transition") EXCEPT !.goal = "Failed"])

append_root_planning_failure ==
    /\ At("planningFailed") /\ load_run_history
    /\ \/ Cancelled /\ task' = [Renew("transition") EXCEPT !.goal = "Cancelled"] /\ TaskOnly
       \/ ~Cancelled /\ ~Ready("InitialPlan") /\ task' = Ended /\ TaskOnly
       \/ /\ ~Cancelled /\ Ready("InitialPlan")
          /\ AppendThen(Plain("PlanningFailed", me, Len(log)),
                        IF token THEN Ensure("transition", "Cancelled")
                                 ELSE [Renew("transition") EXCEPT !.goal = "Failed"])

append_root_planning_stage_failure ==
    /\ At("stageFailed") /\ load_run_history
    /\ \/ Cancelled /\ task' = Transition("Cancelled") /\ TaskOnly
       \/ ~Cancelled /\ ~Ready(task.stage) /\ task' = Ended /\ TaskOnly
       \/ /\ ~Cancelled /\ Ready(task.stage)
          /\ AppendThen(StageFailure(me, Len(log), task.stage), Transition("Failed"))

ensure_durable_cancellation ==
    /\ At("ensure") /\ load_run_history
    /\ \/ (Cancelled \/ state \in Terminal) /\ task' = Renew(task.after) /\ TaskOnly
       \/ /\ ~Cancelled /\ state \notin Terminal
          /\ AppendThen(Plain("CancelRequested", me, Len(log)), Renew(task.after))

reload_run_and_history ==
    /\ At("reload") /\ load_run_history
    /\ task' = [task EXCEPT !.pc = "loop", !.hist = Len(log), !.stage = "none"]
    /\ TaskOnly

(* transition_run: a durable cancellation overrides the target asked for.  *)
transition_run ==
    LET target == IF Cancelled THEN "Cancelled" ELSE task.goal IN
    /\ At("transition")
    /\ \/ (state \in Terminal \/ state = target) /\ task' = Ended /\ TaskOnly
       \/ /\ state \notin Terminal /\ state # target /\ load_run_history
          /\ AppendThen(Plain(target, me, Len(log)), Ended)

(* A store phase fails; a history over the limit fails every time.         *)
ReadsHistory == PCs \ {"none", "toRunning", "loop", "dispatch", "slot", "granted",
                       "calling", "notDispatched", "cancelledBeforeCall",
                       "observeSucceeded", "observeFailed"}
StoreError ==
    /\ task.pc \in PCs \ {"none", "loop", "dispatch", "granted", "calling"}
    /\ task' \in OnError
    /\ \/ /\ faults < MaxFaults /\ faults' = faults + 1
       \/ /\ task.pc \in ReadsHistory \cup {"slot"} /\ ~load_run_history
          /\ UNCHANGED faults
    /\ UNCHANGED <<logVars, proc, token, late, calls, cancelling>>

TaskStep ==
    \/ begin_run \/ begin_running \/ supervise_semantic_run
    \/ compile_semantic_stage \/ prepare_semantic_stage \/ pre_dispatch
    \/ append_not_dispatched \/ append_cancelled_before_call
    \/ await_model_call_slot \/ slot_heartbeat \/ infer_structured
    \/ inference_ends \/ heartbeat \/ call_heartbeat \/ append_observation
    \/ append_unknown \/ decide_observed \/ fail_observed_semantic_stage
    \/ append_root_planning_failure \/ append_root_planning_stage_failure
    \/ ensure_durable_cancellation \/ reload_run_and_history
    \/ transition_run \/ StoreError

-----------------------------------------------------------------------------
(* CancelRun in the server of process a: the durable request, the terminal *)
(* state of a run nobody executes, then the in-memory signal.              *)

Up(a) == proc[a] \in {"up", "stopping"}
CancelOnly == UNCHANGED <<proc, task, late, calls, faults>>

cancel_run(a) ==
    /\ a \in Cancellers /\ Up(a) /\ cancelling[a] = "no"
    /\ state \notin Terminal
    /\ \/ Cancelled /\ UNCHANGED logVars
       \/ ~Cancelled /\ append_event(Plain("CancelRequested", a, Len(log)))
    /\ cancelling' = [cancelling EXCEPT ![a] = "finish"]
    /\ CancelOnly /\ UNCHANGED token

finish_inactive_cancellation(a) ==
    LET e == Plain("Cancelled", a, LastOf({"CancelRequested"})) IN
    /\ cancelling[a] = "finish"
    /\ \/ /\ state \notin Inactive /\ UNCHANGED logVars
          /\ cancelling' = [cancelling EXCEPT ![a] = "signal"]
       \/ /\ state \in Inactive /\ append_event(e)
          /\ cancelling' = [cancelling EXCEPT ![a] = "signal"]
       \/ /\ state \in Inactive /\ ~validate_generic_event(e) /\ UNCHANGED logVars
          /\ cancelling' = [cancelling EXCEPT ![a] = "done"]
    /\ CancelOnly /\ UNCHANGED token

signal(a) ==
    /\ cancelling[a] = "signal"
    /\ token' = (token \/ me = a)
    /\ cancelling' = [cancelling EXCEPT ![a] = "done"]
    /\ UNCHANGED logVars /\ CancelOnly

CancelStep(a) == finish_inactive_cancellation(a) \/ signal(a)

-----------------------------------------------------------------------------
(* Processes and time.                                                     *)

Boot(a) ==
    /\ proc[a] = "new"
    /\ proc' = [proc EXCEPT ![a] = "up"]
    /\ UNCHANGED <<logVars, task, token, late, calls, cancelling, faults>>

(* Whenever a daemon goes away another is, or will be, started.            *)
Replaced(a) == \E b \in Actors \ {a} : proc[b] \in {"new", "up"}

Dies(a) ==
    /\ proc' = [proc EXCEPT ![a] = "dead"]
    /\ cancelling' = [cancelling EXCEPT ![a] = "done"]
    /\ UNCHANGED <<logVars, late, calls, faults>>

(* A crash releases the run's file lock and nothing else.                  *)
Crash(a) ==
    /\ Up(a) /\ Replaced(a)
    /\ Dies(a)
    /\ IF me = a THEN task' = Ended /\ token' = FALSE ELSE UNCHANGED <<task, token>>

Shutdown(a) ==
    /\ a \in Stoppable /\ proc[a] = "up" /\ Replaced(a)
    /\ proc' = [proc EXCEPT ![a] = "stopping"]
    /\ UNCHANGED <<logVars, task, token, late, calls, cancelling, faults>>

(* stop_and_join: the process ends once its task did.                      *)
Exit(a) ==
    /\ proc[a] = "stopping" /\ me # a
    /\ Dies(a)
    /\ UNCHANGED <<task, token>>

PassDeadline ==
    /\ ~late /\ state \notin Terminal
    /\ late' = TRUE
    /\ UNCHANGED <<logVars, proc, task, token, calls, cancelling, faults>>

(* The lease of a task that runs lapses only by a fault: it renews it.     *)
LeaseLapses ==
    /\ ExpireLease /\ state \notin Terminal
    /\ IF log[latest_claim_for_run].actor = me
         THEN faults < MaxFaults /\ faults' = faults + 1
         ELSE UNCHANGED faults
    /\ UNCHANGED <<proc, task, token, late, calls, cancelling>>

Next ==
    \/ TaskStep \/ PassDeadline \/ LeaseLapses
    \/ \E a \in Actors :
         \/ Start(a) \/ cancel_run(a) \/ CancelStep(a)
         \/ Boot(a) \/ Crash(a) \/ Shutdown(a) \/ Exit(a)

(* Tokio runs a task that can run, the lane and the provider answer, the   *)
(* durable dispatcher rescans at most a second apart, leases expire by the *)
(* clock, and a stopped daemon is started again.                           *)
Fairness ==
    /\ WF_vars(TaskStep)
    /\ WF_vars(LeaseLapses)
    /\ \A a \in Actors : /\ WF_vars(Start(a)) /\ WF_vars(Boot(a)) /\ WF_vars(Exit(a))
                         /\ WF_vars(CancelStep(a))

Spec == Init /\ [][Next]_vars /\ Fairness

-----------------------------------------------------------------------------
(* The provider is called at most once for a stage, and only for a stage   *)
(* whose preparation is durable: no crash, takeover, lost lease or retry   *)
(* repeats a call that may already have been made.                         *)
NoDuplicateCall ==
    \A s \in Stages : calls[s] <= 1 /\ (calls[s] = 1 => Prepared(s) # {})

(* "A direct semantic acceptance takes exactly two model calls", and a     *)
(* repaired one "exactly four" (README.md).                                *)
CompletedCallCount ==
    state = "Completed" =>
        {s \in Stages : calls[s] = 1} \in {{"InitialPlan", "InitialReview"}, Stages}

(* The retained evidence tells the truth about the provider: a stage with  *)
(* an answer or an error was called, one recorded as never dispatched or   *)
(* as cancelled before its call was not and is never called later, however *)
(* a cancellation, a heartbeat, the deadline, a crash or a takeover falls  *)
(* between the wait for the slot, the call and its record                  *)
(* (execute_semantic_prepared).                                            *)
Driven == \E a \in Actors : proc[a] # "new"
CallsOf(i) == calls[log[log[i].parent].stage]
EvidenceIsTrue ==
    Driven => \A i \in DOMAIN log :
        /\ log[i].kind \in {"Succeeded", "ObservedFailed"} => CallsOf(i) = 1
        /\ log[i].kind = "NotDispatched" => CallsOf(i) = 0

(* While the task drives an attempt the durable log agrees with what it    *)
(* holds in memory, through heartbeats, lost leases and cancellations: the *)
(* run is Running, this attempt is the open one, this process prepared it  *)
(* and made the latest claim.                                              *)
TaskMatchesLog ==
    /\ task.pc \in {"dispatch", "notDispatched", "slot", "slotBeat", "granted",
                    "calling", "beat", "observeSucceeded", "observeFailed"} =>
         /\ state = "Running"
         /\ recovery_action(Len(log)).act = "Prepared"
         /\ recovery_action(Len(log)).stage = task.stage
         /\ log[prep].actor = me
         /\ log[latest_claim_for_run].actor = me
    /\ task.pc = "decide" =>
         /\ state = "Running"
         /\ recovery_action(Len(log)).act = "Observed"
         /\ recovery_action(Len(log)).stage = task.stage

(* The supervisor spends the advertised number of calls on a run it drove, *)
(* and its task is always where the durable log says it is.                *)
SupervisorIsSound == TypeOK /\ (Driven => CompletedCallCount) /\ TaskMatchesLog

(* The protocol IndependentSemanticReviewV1 promises, told without events, *)
(* claims, tasks or retries.  A run is in one phase at a time; its stage   *)
(* may be called once, a verdict moves it to the next stage or ends the    *)
(* planning, and the run ends as the verdicts say or, once a cancellation  *)
(* was asked for, as Cancelled and in no other way.                        *)
Phase ==
    IF ~Has(Decisions) THEN "InitialPlan"
    ELSE LET d == LastOf(Decisions) IN
         CASE log[d].kind = "PlanAccepted" ->
                IF log[AttemptOf(d)].stage = "InitialPlan" THEN "InitialReview"
                                                           ELSE "FinalReview"
           [] log[d].kind = "RepairOnceAuthorized" -> "Repair"
           [] log[d].kind = "ReviewAccepted" -> "accepted"
           [] OTHER -> "refused"

Called == {s \in Stages : calls[s] # 0}
End == IF state \in Terminal THEN state ELSE "open"

Verdicts == {<<"InitialPlan", "InitialReview">>, <<"InitialReview", "accepted">>,
             <<"InitialReview", "Repair">>, <<"Repair", "FinalReview">>,
             <<"FinalReview", "accepted">>} \cup (Stages \X {"refused"})

ReviewInit == Phase = "InitialPlan" /\ Called = {} /\ ~Cancelled /\ End = "open"

CallStage ==
    /\ Phase \in Stages \ Called
    /\ Called' = Called \cup {Phase}
    /\ UNCHANGED <<Phase, Cancelled, End>>

ReachVerdict ==
    /\ ~Cancelled
    /\ <<Phase, Phase'>> \in Verdicts
    /\ UNCHANGED <<Called, Cancelled, End>>

AskToCancel ==
    /\ ~Cancelled /\ Cancelled'
    /\ UNCHANGED <<Phase, Called, End>>

EndReview ==
    /\ End' = IF Cancelled THEN "Cancelled"
              ELSE IF Phase = "accepted" THEN "Completed" ELSE "Failed"
    /\ UNCHANGED <<Phase, Called, Cancelled>>

ReviewNext == End = "open" /\ (CallStage \/ ReachVerdict \/ AskToCancel \/ EndReview)

(* The supervised run implements that protocol, whatever its daemons do.   *)
ImplementsReview == ReviewInit /\ [][ReviewNext]_<<Phase, Called, Cancelled, End>>

(* Every run reaches a terminal state once faults cease, and a run whose   *)
(* cancellation is durable ends as Cancelled.                              *)
RunsEnd == []<>(state \in Terminal /\ (Cancelled => state = "Cancelled"))

(* An elapsed deadline ends the run: "acquire ownership only to durably    *)
(* fail the run" (supervise_plan_only_run).                                *)
DeadlineEndsRun == late ~> state \in Terminal
=============================================================================

