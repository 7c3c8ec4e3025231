--------------------------- MODULE ChildDispatch ---------------------------
(***************************************************************************)
(* The work orders of one running reconnaissance run: the run's claim and  *)
(* its refresh, broker epochs, the child events the Store admits, and the  *)
(* tool dispatch lane whose affine handoffs carry the right to run a       *)
(* repository call (crates/store/src/store_child_dispatch,                 *)
(* store_parallel_recon_api.rs, event_admission.rs).                       *)
(* A runtime that loses its lease is not stopped: it goes on until the     *)
(* Store refuses it.  A runtime that dies takes its lane and its handoffs  *)
(* with it.  Brokers are numbered by epoch, so the closed ones are those   *)
(* below the active one.                                                   *)
(***************************************************************************)
EXTENDS ChildAttempt, FiniteSets

CONSTANTS Children,         \* work orders of the run
          MaxAttempts,      \* max_attempts of every work order
          MaxAdoptions,     \* PARALLEL_RECONNAISSANCE_V1_MAX_CLAIM_ADOPTIONS_PER_CHILD
          MaxTakeovers,     \* PARALLEL_RECONNAISSANCE_V1_MAX_CLAIM_TAKEOVERS_PER_CHILD
          MaxCallsPerBroker,\* broker_bounds.max_calls_per_broker
          MaxReservations,  \* model calls that fit max_output_tokens of the run
          MaxClaims,        \* bound: claims of the run; the last one does not expire
          SpareEpochs       \* bound: broker epochs beyond one for every claim

ASSUME LimitAssumption ==
    {MaxAttempts, MaxAdoptions, MaxTakeovers, MaxCallsPerBroker, MaxReservations, MaxClaims, SpareEpochs}
        \subseteq Nat
\* validate_child_model_contract refuses an order without attempts; the run has a claim.
ASSUME SomeAssumption == Runtimes # {} /\ MaxAttempts # 0 /\ MaxClaims # 0

VARIABLES claim,      \* latest RunClaimed and whether its lease is unexpired
          cancelled,  \* a cancellation has been requested
          late,       \* the run's deadline has passed
          epoch,      \* active broker, the runtime that activated it, its calls
          order,      \* per work order: issued, active claim, adoptions, attempts
          reserved,   \* model calls the run has reserved tokens for
          up,         \* runtimes still running
          tainted,    \* brokers whose lane needs reconciliation
          hand,       \* affine handoff a runtime holds for a work order
          ran,        \* calls whose repository read has happened
          repeated,   \* a call was run again
          observed,   \* calls with a committed observation
          writers     \* runtimes that wrote the current attempt

vars == <<claim, cancelled, late, epoch, order, reserved, up, tainted, hand, ran, repeated, observed, writers>>
process == <<up, tainted, hand, ran, repeated>>
authority == <<claim, cancelled, late, epoch>>
history == <<observed, writers>>

MaxEpochs == MaxClaims + SpareEpochs
Calls == [broker : 1..MaxEpochs, sequence : 1..MaxCallsPerBroker]
NoHand == [kind |-> None, call |-> NoCall]
Hands == {NoHand} \cup [kind : {"dispatch", "execution", "cleared", "observed"}, call : Calls]
AnyRuntime == CHOOSE r \in Runtimes : TRUE
Unissued == [issued |-> FALSE, bound |-> 0, runtime |-> AnyRuntime, adoptions |-> 0, takeovers |-> 0,
             attempts |-> 0, last |-> NewAttempt(AnyRuntime)]

TypeOK ==
    /\ claim \in [generation : 0..MaxClaims, runtime : Runtimes, live : BOOLEAN, cancellation : BOOLEAN]
    /\ cancelled \in BOOLEAN /\ late \in BOOLEAN /\ repeated \in BOOLEAN
    /\ epoch \in [broker : 0..MaxEpochs, runtime : Runtimes, calls : 0..MaxCallsPerBroker]
    /\ \A c \in Children :
          /\ order[c].bound \in 0..MaxClaims /\ order[c].runtime \in Runtimes
          /\ order[c].adoptions \in 0..MaxAdoptions /\ order[c].takeovers \in 0..MaxTakeovers
          /\ order[c].attempts \in 0..MaxAttempts
          /\ order[c].last.pending \in {None, "model", "prepared", "started"}
          /\ order[c].last.models \in 0..MaxModelCalls /\ order[c].last.tools \in 0..MaxToolCalls
    /\ reserved \in 0..MaxReservations
    /\ up \subseteq Runtimes /\ tainted \subseteq 1..MaxEpochs
    /\ \A r \in Runtimes, c \in Children : hand[<<r, c>>] \in Hands
    /\ ran \subseteq Calls /\ observed \subseteq Calls
    /\ \A c \in Children : writers[c] \subseteq Runtimes

Init ==
    /\ claim = [generation |-> 1, runtime |-> AnyRuntime, live |-> TRUE, cancellation |-> FALSE]
    /\ cancelled = FALSE /\ late = FALSE
    /\ epoch = [broker |-> 0, runtime |-> AnyRuntime, calls |-> 0]
    /\ order = [c \in Children |-> Unissued]
    /\ reserved = 0 /\ up = Runtimes /\ tainted = {}
    /\ hand = [rc \in Runtimes \X Children |-> NoHand]
    /\ ran = {} /\ repeated = FALSE /\ observed = {}
    /\ writers = [c \in Children |-> {}]

-----------------------------------------------------------------------------
Last(c) == order[c].last
Active(c) == order[c].attempts > 0 /\ Last(c).outcome = None
Status(c) ==
    IF ~order[c].issued THEN "Unissued"
    ELSE IF order[c].attempts = 0 THEN "Issued"
    ELSE CASE Last(c).outcome = None -> "Running"
           [] Last(c).outcome = "FailedRequiresNewAttempt" ->
                IF order[c].attempts < MaxAttempts THEN "Retryable" ELSE "Failed"
           [] Last(c).outcome = "FailedNever" -> "Failed"
           [] OTHER -> Last(c).outcome
Nonterminal(c) == Status(c) \in {"Issued", "Running", "Retryable"}
NonterminalOrders == {c \in Children : Nonterminal(c)}

Owner(r) == claim.runtime = r /\ claim.live
\* require_live_claim_for_child
LiveFor(c) == order[c].bound = claim.generation /\ claim.live
\* Mutant: a cancellation does not withdraw the live claim's right to write.
AdmittedByClaim(r, c, reconciles) ==
    /\ r \in up /\ order[c].issued /\ order[c].runtime = r
    /\ LiveFor(c) \/ (cancelled /\ reconciles)

\* A child event other than an adoption: under the live claim the child is
\* bound to, or after a cancellation as the end of what was in flight.
Admitted(r, c, reconciles) ==
    /\ r \in up /\ order[c].issued /\ order[c].runtime = r
    /\ IF cancelled THEN reconciles ELSE LiveFor(c)

Put(c, attempt) == order' = [order EXCEPT ![c].last = attempt]
WrittenBy(c, r) == writers' = [writers EXCEPT ![c] = @ \cup {r}]

-----------------------------------------------------------------------------
\* The run's claim.

ExpireLease ==
    /\ claim.live /\ claim.generation < MaxClaims
    /\ claim' = [claim EXCEPT !.live = FALSE]
    /\ UNCHANGED <<cancelled, late, epoch, order, reserved, process, history>>

\* RunClaimed by public append: an owner with work orders under way refreshes instead.
ClaimRun(r) ==
    /\ r \in up /\ claim.generation + 1 < MaxClaims   \* a refresh can still follow
    /\ claim.live => claim.runtime = r
    /\ claim.runtime = r => NonterminalOrders = {}
    /\ claim' = [generation |-> claim.generation + 1, runtime |-> r, live |-> TRUE, cancellation |-> cancelled]
    /\ UNCHANGED <<cancelled, late, epoch, order, reserved, process, history>>

\* replay of ChildExecutionClaimAdopted
Adoptable(c) ==
    /\ ~Last(c).handoff \/ order[c].attempts = 0
    /\ order[c].attempts = 0 \/ Last(c).outcome \in {None, "FailedRequiresNewAttempt"}
Adopt(c, r) ==
    LET renewal == order[c].runtime = r
        contiguous == renewal /\ LiveFor(c)
    IN [order[c] EXCEPT !.bound = claim.generation + 1, !.runtime = r, !.adoptions = @ + 1,
                        !.takeovers = IF renewal THEN @ ELSE @ + 1,
                        !.last = IF order[c].attempts = 0 THEN @ ELSE Adopted(@, contiguous)]
AdoptionFits(c, r) ==
    /\ order[c].adoptions < MaxAdoptions
    /\ order[c].runtime # r => order[c].takeovers < MaxTakeovers

\* A refresh never takes an unexpired claim from another owner, and answers
\* a cancelled run with its cancellation.
RefreshAllowed(r) ==
    /\ r \in up /\ ~cancelled /\ claim.generation < MaxClaims
    /\ claim.live => claim.runtime = r
    /\ \A c \in NonterminalOrders : AdoptionFits(c, r)

\* refresh_parallel_recon_claim: the new claim and the adoption of every
\* nonterminal work order commit together or not at all.
RefreshClaim(r) ==
    /\ RefreshAllowed(r)
    /\ \A c \in NonterminalOrders : Adoptable(c)
    /\ claim' = [generation |-> claim.generation + 1, runtime |-> r, live |-> TRUE, cancellation |-> FALSE]
    /\ order' = [c \in Children |-> IF Nonterminal(c) THEN Adopt(c, r) ELSE order[c]]
    /\ UNCHANGED <<cancelled, late, epoch, reserved, process, history>>

RequestCancellation ==
    /\ ~cancelled
    /\ cancelled' = TRUE
    /\ UNCHANGED <<claim, late, epoch, order, reserved, process, history>>

PassDeadline ==
    /\ ~late
    /\ late' = TRUE
    /\ UNCHANGED <<claim, cancelled, epoch, order, reserved, process, history>>

\* validate_repository_broker_epoch_activated_v1: a fresh broker replaces the active one.
ActivateEpoch(r) ==
    /\ r \in up /\ Owner(r) /\ claim.cancellation = cancelled
    /\ epoch.broker < claim.generation + SpareEpochs
    /\ epoch' = [broker |-> epoch.broker + 1, runtime |-> r, calls |-> 0]
    /\ UNCHANGED <<claim, cancelled, late, order, reserved, process, history>>

\* The process dies with its lane and its handoffs; another one goes on.
Crash(r) ==
    /\ r \in up /\ up # {r}
    /\ claim.runtime = r => claim.generation < MaxClaims   \* bound: another can still take over
    /\ up' = up \ {r}
    /\ hand' = [rc \in Runtimes \X Children |-> IF rc[1] = r THEN NoHand ELSE hand[rc]]
    /\ UNCHANGED <<authority, order, reserved, tainted, ran, repeated, history>>

-----------------------------------------------------------------------------
\* Work orders and attempts.

IssueOrders(r) ==
    /\ r \in up /\ Owner(r) /\ ~cancelled
    /\ \A c \in Children : ~order[c].issued
    /\ order' = [c \in Children |->
                   [Unissued EXCEPT !.issued = TRUE, !.bound = claim.generation, !.runtime = r]]
    /\ UNCHANGED <<authority, reserved, process, history>>

\* Mutant: an attempt may follow any failure.
StartAttemptAfterFailure(r, c) ==
    /\ Admitted(r, c, FALSE) /\ ~late
    /\ Status(c) \in {"Issued", "Retryable", "Failed"}
    /\ order' = [order EXCEPT ![c].attempts = @ + 1, ![c].last = NewAttempt(r)]
    /\ writers' = [writers EXCEPT ![c] = {r}]
    /\ UNCHANGED <<authority, reserved, process, observed>>

StartAttempt(r, c) ==
    /\ Admitted(r, c, FALSE) /\ ~late
    /\ Status(c) \in {"Issued", "Retryable"}
    /\ order' = [order EXCEPT ![c].attempts = @ + 1, ![c].last = NewAttempt(r)]
    /\ writers' = [writers EXCEPT ![c] = {r}]
    /\ UNCHANGED <<authority, reserved, process, observed>>

PrepareModel(r, c) ==
    /\ Admitted(r, c, FALSE) /\ ~late /\ Active(c)
    /\ CanPrepareModel(Last(c), r) /\ reserved < MaxReservations
    /\ Put(c, ModelPrepared(Last(c), r)) /\ reserved' = reserved + 1
    /\ WrittenBy(c, r)
    /\ UNCHANGED <<authority, process, observed>>

ObserveModel(r, c) ==
    /\ Active(c) /\ CanObserveModel(Last(c))
    /\ \/ /\ Admitted(r, c, FALSE)
          /\ \E action \in {"tool", "finish"} : Put(c, ModelSucceeded(Last(c), r, action))
       \/ /\ Admitted(r, c, TRUE)
          /\ \E retry \in Retries : Put(c, ModelFailed(Last(c), r, retry))
    /\ WrittenBy(c, r)
    /\ UNCHANGED <<authority, reserved, process, observed>>

ReconcileModel(r, c) ==
    /\ Admitted(r, c, TRUE) /\ Active(c)
    /\ CanModelBeUnknown(Last(c), r, cancelled)
    /\ \E retry \in Retries : Put(c, ModelUnknown(Last(c), r, retry))
    /\ WrittenBy(c, r)
    /\ UNCHANGED <<authority, reserved, process, observed>>

CommitHandoff(r, c) ==
    /\ Admitted(r, c, FALSE) /\ Active(c)
    /\ CanCommitHandoff(Last(c))
    /\ Put(c, HandoffCommitted(Last(c)))
    /\ WrittenBy(c, r)
    /\ UNCHANGED <<authority, reserved, process, observed>>

FinishAttempt(r, c) ==
    /\ Active(c)
    /\ \E outcome \in Outcomes, cause \in {"Model", "Tool", "Runtime"} :
          /\ Admitted(r, c, outcome = "Cancelled")
          /\ CanFinish(Last(c), r, outcome, cause, cancelled)
          /\ Put(c, Finished(Last(c), r, outcome))
    /\ WrittenBy(c, r)
    /\ UNCHANGED <<authority, reserved, process, observed>>

-----------------------------------------------------------------------------
\* The tool dispatch lane.

Hold(r, c, kind, call) == hand' = [hand EXCEPT ![<<r, c>>] = [kind |-> kind, call |-> call]]
Release(r, c) == hand' = [hand EXCEPT ![<<r, c>>] = NoHand]
Taint(call) == tainted' = tainted \cup {call.broker}

NextCall == [broker |-> epoch.broker, sequence |-> epoch.calls + 1]

\* prepare_child_repository_explorer_tool_dispatch under the lane's lock.  A
\* publication that fails after the broker has prepared taints the lane.
PrepareTool(r, c) ==
    /\ Admitted(r, c, FALSE) /\ ~late /\ Active(c)
    /\ hand[<<r, c>>] = NoHand                      \* one worker per work order
    /\ epoch.broker > 0 /\ epoch.runtime = r /\ epoch.broker \notin tainted
    /\ epoch.calls < MaxCallsPerBroker
    /\ CanPrepareTool(Last(c), r, NextCall)
    /\ \/ /\ Put(c, ToolPrepared(Last(c), r, NextCall))
          /\ epoch' = [epoch EXCEPT !.calls = @ + 1]
          /\ \/ Hold(r, c, "dispatch", NextCall) /\ UNCHANGED tainted
             \/ Taint(NextCall) /\ UNCHANGED hand   \* committed, but the answer was an error
          /\ WrittenBy(c, r)
       \/ /\ Taint(NextCall)
          /\ UNCHANGED <<order, epoch, hand, writers>>
    /\ UNCHANGED <<claim, cancelled, late, reserved, up, ran, repeated, observed>>

StartAdmitted(r, c) ==
    /\ Admitted(r, c, FALSE) /\ ~late
    /\ Active(c) /\ CanStartDispatch(Last(c), r, hand[<<r, c>>].call)
    /\ epoch.broker = hand[<<r, c>>].call.broker /\ epoch.runtime = r
    /\ epoch.broker \notin tainted

\* start_child_repository_explorer_tool_dispatch: only an acknowledged commit
\* turns the dispatch handoff into the right to execute.
StartDispatch(r, c) ==
    /\ r \in up /\ hand[<<r, c>>].kind = "dispatch"
    /\ StartAdmitted(r, c)
    /\ Put(c, DispatchStarted(Last(c), r))
    /\ \/ Hold(r, c, "execution", hand[<<r, c>>].call)
       \/ Release(r, c)                              \* CommitUncertain
    /\ WrittenBy(c, r)
    /\ UNCHANGED <<authority, reserved, up, tainted, ran, repeated, observed>>

\* NoLongerStartable, a lost commit, or a worker that gives up: the handoff goes, the lane does not care.
DropDispatch(r, c) ==
    /\ r \in up /\ hand[<<r, c>>].kind = "dispatch"
    /\ Release(r, c)
    /\ UNCHANGED <<authority, order, reserved, up, tainted, ran, repeated, history>>

\* preflight_execution reads the Store in a transaction of its own.
PreflightPasses(r, c) ==
    LET call == hand[<<r, c>>].call IN
    /\ ~cancelled /\ ~late /\ LiveFor(c) /\ claim.runtime = r
    /\ Active(c) /\ Last(c).pending = "started" /\ Last(c).call = call /\ ~Last(c).requiresUnknown
    /\ epoch.broker = call.broker

Preflight(r, c) ==
    /\ r \in up /\ hand[<<r, c>>].kind = "execution"
    /\ IF PreflightPasses(r, c)
       THEN Hold(r, c, "cleared", hand[<<r, c>>].call) /\ UNCHANGED tainted
       ELSE Release(r, c) /\ Taint(hand[<<r, c>>].call)
    /\ UNCHANGED <<authority, order, reserved, up, ran, repeated, history>>

Run(call) == ran' = ran \cup {call} /\ repeated' = (repeated \/ call \in ran)

\* Mutant: the right to execute survives a broker answer that is not understood.
ExecuteCallRetains(r, c) ==
    LET call == hand[<<r, c>>].call IN
    /\ r \in up /\ hand[<<r, c>>].kind = "cleared" /\ call.broker \notin tainted
    /\ Run(call)
    /\ Hold(r, c, "observed", call) \/ UNCHANGED hand
    /\ UNCHANGED <<authority, order, reserved, up, tainted, history>>

\* The broker call: no lock is held across the read.  What it did is unknown
\* when it panics or answers with anything but a valid observation.
ExecuteCall(r, c) ==
    LET call == hand[<<r, c>>].call IN
    /\ r \in up /\ hand[<<r, c>>].kind = "cleared"
    /\ \/ /\ call.broker \notin tainted
          /\ Run(call)
          /\ \/ Hold(r, c, "observed", call) /\ UNCHANGED tainted
             \/ Release(r, c) /\ Taint(call)
       \/ Release(r, c) /\ Taint(call) /\ UNCHANGED <<ran, repeated>>
    /\ UNCHANGED <<authority, order, reserved, up, history>>

\* commit_child_repository_explorer_tool_observation.  When the commit is
\* uncertain the event may or may not be there, and the lane is tainted.
CommitObservation(r, c) ==
    LET call == hand[<<r, c>>].call IN
    /\ hand[<<r, c>>].kind = "observed"
    /\ Admitted(r, c, TRUE)
    /\ Active(c) /\ CanObserveTool(Last(c), r, call)
    /\ \E failed \in BOOLEAN : Put(c, ToolObserved(Last(c), r, failed))
    /\ observed' = observed \cup {call}
    /\ Release(r, c) /\ (UNCHANGED tainted \/ Taint(call))
    /\ WrittenBy(c, r)
    /\ UNCHANGED <<authority, reserved, up, ran, repeated>>

\* Dropping the right to execute, or a result, taints the lane.
DropEffect(r, c) ==
    /\ r \in up /\ hand[<<r, c>>].kind \in {"execution", "cleared", "observed"}
    /\ Release(r, c) /\ Taint(hand[<<r, c>>].call)
    /\ UNCHANGED <<authority, order, reserved, up, ran, repeated, history>>

ReconcileTool(r, c) ==
    /\ Admitted(r, c, TRUE) /\ Active(c)
    /\ \E timing \in {"BrokerRecorded", "RuntimeReconciled"} :
          /\ CanToolBeUnknown(Last(c), r, timing, epoch.broker)
          /\ Put(c, ToolUnknown(Last(c), r, timing))
    /\ WrittenBy(c, r)
    /\ UNCHANGED <<authority, reserved, process, observed>>

-----------------------------------------------------------------------------
Next ==
    \/ ExpireLease \/ RequestCancellation \/ PassDeadline
    \/ \E r \in Runtimes :
          \/ ClaimRun(r) \/ RefreshClaim(r) \/ ActivateEpoch(r) \/ Crash(r) \/ IssueOrders(r)
          \/ \E c \in Children :
                \/ StartAttempt(r, c) \/ PrepareModel(r, c) \/ ObserveModel(r, c) \/ ReconcileModel(r, c)
                \/ CommitHandoff(r, c) \/ FinishAttempt(r, c)
                \/ PrepareTool(r, c) \/ StartDispatch(r, c) \/ DropDispatch(r, c) \/ Preflight(r, c)
                \/ ExecuteCall(r, c) \/ CommitObservation(r, c) \/ DropEffect(r, c) \/ ReconcileTool(r, c)

Spec == Init /\ [][Next]_vars

\* What a runtime that drives recovery keeps doing: it settles the effect it
\* finds pending, ends an attempt once the run is cancelled, renews or takes
\* over the claim, and opens a broker epoch of its own.
Settle(r, c) == ObserveModel(r, c) \/ ReconcileModel(r, c) \/ CommitObservation(r, c) \/ ReconcileTool(r, c)
OpenOwnEpoch(r) == epoch.runtime # r /\ ActivateEpoch(r)
EndCancelled(r, c) == cancelled /\ FinishAttempt(r, c)

FairSpec ==
    /\ Spec
    /\ WF_vars(ExpireLease)
    /\ \A r \in Runtimes :
          /\ WF_vars(RefreshClaim(r)) /\ WF_vars(OpenOwnEpoch(r))
          /\ \A c \in Children : WF_vars(Settle(r, c)) /\ WF_vars(EndCancelled(r, c))

-----------------------------------------------------------------------------
\* Properties.

\* No repository call is run twice, whatever crashes, uncertain commits,
\* takeovers and zombie runtimes do: the lane's handoffs are affine and an
\* idempotent retry returns evidence only.
NoCallRunsTwice == ~repeated

\* A committed observation is of a call that was really run: recovery never
\* invents a result for a call whose execution right was lost.
ObservedCallRan == observed \subseteq ran

\* Evidence whose clock the completion gate will trust as contiguous was
\* written by one runtime throughout.
ContiguousAttemptHasOneWriter ==
    \A c \in Children :
        order[c].attempts > 0 /\ Last(c).contiguous => Cardinality(writers[c]) = 1

\* The runtime an open attempt is bound to can always write to it: a takeover
\* never leaves the attempt behind a clock its new owner cannot continue.
BoundRuntimeClockAccepted ==
    \A c \in Children : Active(c) => ClockAccepts(Last(c), order[c].runtime)

\* Replay of an open attempt always finds one thing to do next.
RecoveryDefined == \A c \in Children : Active(c) => RecoveryState(Last(c)) # "invalid"

\* The orders as the rest of the system sees them.
Orders == INSTANCE WorkOrder WITH status <- [c \in Children |-> Status(c)],
                                  attempts <- [c \in Children |-> order[c].attempts]
\* The dispatch machinery implements the work-order life cycle: issued once,
\* attempts one after another and never more than allowed, one verdict.
ImplementsWorkOrder == Orders!OrderSpec

\* What a cancellation leaves behind for good.  After it no attempt may start
\* and no claim may be adopted, so a work order that waits for an attempt, has
\* handed off without finishing, or is bound to a dead runtime stays open; so
\* does a model call that was prepared by another runtime.
Unreconcilable(c) ==
    /\ cancelled
    /\ \/ Status(c) \in {"Issued", "Retryable"}
       \/ /\ Active(c)
          /\ \/ Last(c).handoff
             \/ order[c].runtime \notin up
             \/ Last(c).pending = "model" /\ Last(c).preparedBy # order[c].runtime

\* A work order the cancellation has stranded is never ended by any event.
StrandedForever == [][\A c \in Children : Unreconcilable(c) => Unreconcilable(c)']_vars

\* The Store's own limits on adoption, or a handoff under way, forbid a refresh.
RefreshExhausted ==
    \A r \in up : \E c \in NonterminalOrders : ~Adoptable(c) \/ ~AdoptionFits(c, r)

\* An effect in flight when its runtime dies or loses its lease is settled by
\* whoever holds the claim next, as long as the claim can still be refreshed.
PendingEffectIsSettled ==
    \A c \in Children :
        Active(c) /\ Last(c).pending # None ~>
            Last(c).pending = None \/ cancelled \/ (~LiveFor(c) /\ RefreshExhausted)

\* A cancelled run's work orders are all ended, but for those it strands and
\* for a tool call whose broker nobody can close any more.
CancellationReconciles ==
    \A c \in Children :
        cancelled ~> \/ ~Nonterminal(c) \/ Unreconcilable(c)
                     \/ PendingTool(Last(c)) /\ Last(c).preparedBy # order[c].runtime

\* refresh_parallel_recon_claim's contract: it "rebinds every non-terminal
\* issued child work order" to the new claim, so none may be unable to follow.
RefreshRebindsEveryOrder == \A c \in NonterminalOrders : order[c].issued => Adoptable(c)

\* No call is run twice and none is observed that was not run, whoever crashes,
\* is taken over or goes on too long, and every limit of the run is kept.
CallsAreAccounted ==
    TypeOK /\ NoCallRunsTwice /\ ObservedCallRan

\* The runtime an attempt is bound to can always go on with it, and knows how.
AttemptsCanContinue ==
    ContiguousAttemptHasOneWriter /\ BoundRuntimeClockAccepted /\ RecoveryDefined
=============================================================================

