------------------------------ MODULE ReconRun ------------------------------
(***************************************************************************)
(* One parallel reconnaissance run after its root plan is accepted: the    *)
(* planner-v2 turns the Store admits and the daemon drives, the snapshot,  *)
(* the bootstrap of the child pair, the completion gate and the run's      *)
(* terminal states (crates/store/src/planner_v2_*.rs, lib.rs,              *)
(* parallel_recon_bootstrap.rs; apps/daemon/src/recon.rs).                 *)
(*                                                                         *)
(* Work orders appear as WorkOrder abstracts them.  Claims are numbered by *)
(* generation; `breaks' holds the generations whose claim did not continue *)
(* the one before it.  A driver reads the claim it acts under back from    *)
(* the Store, so a superseded driver that goes on acts under the new       *)
(* owner's name.                                                           *)
(***************************************************************************)
EXTENDS WorkOrder

CONSTANTS Runtimes,
          AttemptsPerStage,  \* PARALLEL_RECONNAISSANCE_V1_PLANNER_ATTEMPTS_PER_STAGE
          MaxClaims          \* bound: claims of the run; the last one does not expire

ASSUME BoundAssumption ==
    /\ {AttemptsPerStage, MaxClaims} \subseteq Nat \ {0}
    /\ Runtimes # {} /\ MaxAttempts \in Nat \ {0}

VARIABLES runState,   \* Running, Completed, Failed or Cancelled
          cancelled,  \* a CancellationRequested is durable
          claim,      \* latest RunClaimed and whether its lease is unexpired
          breaks,     \* claim generations that did not continue the previous claim
          tail,       \* kind of the latest event that is not a claim
          turn,       \* latest planner turn
          spent,      \* turns prepared so far for each purpose
          snapshot,   \* repository snapshot of the run and the claim it is bound to
          pair,       \* claim the child pair is bound to, and what its attempts prove
          driver      \* per runtime: where its drive_planner_turn is

orders == <<status, attempts, pair>>
authority == <<cancelled, claim, breaks>>
planner == <<turn, spent>>
vars == <<runState, authority, tail, planner, snapshot, orders, driver>>

None == "none"
Terminal == {"Completed", "Failed", "Cancelled"}
Purposes == {"InitialDelegation", "EvidenceReplan"}
Directives == {"Delegate", "Finish", "Other"}   \* Other: Execute, Clarify, Escalate, a changed plan
Closed == {"Succeeded", "Failed", "Retryable", "Unknown", "Interrupted"}
TurnStates == {"Prepared", "Accepted", "Rejected"} \cup Closed
AnyRuntime == CHOOSE r \in Runtimes : TRUE
NoTurn == [purpose |-> "InitialDelegation", state |-> None]
Idle == [at |-> "idle", turn |-> 0]
Unbound == [runtime |-> AnyRuntime, bound |-> 0, whole |-> [c \in Children |-> FALSE], met |-> FALSE]

Turn == [purpose : Purposes, runtime : Runtimes, prepared : 1..MaxClaims, evidence : SUBSET Children,
         state : TurnStates, directive : Directives \cup {None}, observer : Runtimes,
         observed : 0..MaxClaims, calls : 0..2]

Snapshots == [state : {None, "Open", "Active", "Closed"}, bound : 0..MaxClaims]

TypeOK ==
    /\ runState \in Terminal \cup {"Running"} /\ cancelled \in BOOLEAN
    /\ claim \in [runtime : Runtimes, generation : 1..MaxClaims, live : BOOLEAN, cancellation : BOOLEAN]
    /\ breaks \subseteq 1..MaxClaims
    /\ tail \in {"RootPlan", "Planner", "Failure", "Cancellation", "Snapshot", "Child", "Released", "Gate", "State"}
    /\ turn \in Turn \cup {NoTurn} /\ spent \in [Purposes -> 0..AttemptsPerStage]
    /\ snapshot \in Snapshots
    /\ OrderTypeOK
    /\ pair \in [runtime : Runtimes, bound : 0..MaxClaims, whole : [Children -> BOOLEAN], met : BOOLEAN]
    /\ driver \in [Runtimes -> [at : {"idle", "loop", "slot", "calling"}, turn : Nat]]

Init ==
    /\ runState = "Running" /\ cancelled = FALSE
    /\ claim = [runtime |-> AnyRuntime, generation |-> 1, live |-> TRUE, cancellation |-> FALSE]
    /\ breaks = {} /\ tail = "RootPlan"
    /\ turn = NoTurn /\ spent = [p \in Purposes |-> 0]
    /\ snapshot = [state |-> None, bound |-> 0]
    /\ OrderInit /\ pair = Unbound
    /\ driver = [r \in Runtimes |-> Idle]

-----------------------------------------------------------------------------
\* What the Store reads back.

Owner(r) == claim.runtime = r /\ claim.live
\* require_current_claim_owner with cancellation generation 0
CurrentOwner(r) == Owner(r) /\ ~cancelled
Nonterminal == {c \in Children : status[c] \in {"Issued", "Running", "Retryable"}}
HasTurn(states) == turn.state \in states
Number == spent["InitialDelegation"] + spent["EvidenceReplan"]

\* planner_v2_retry_has_capacity; the run's token limit is sized for every turn.
RetryCapacity == spent[turn.purpose] < AttemptsPerStage
\* accepted_delegate_children_are_terminal
ChildrenTerminal == \A c \in Children : status[c] \in Ended

\* planner_next_action after Accepted: the only children of a run are those
\* of its initial delegation.
ReplanReady ==
    /\ HasTurn({"Accepted"}) /\ turn.purpose = "InitialDelegation" /\ turn.directive = "Delegate"
    /\ ChildrenTerminal

\* planner_next_action for the latest turn.
TurnAction ==
    CASE HasTurn({None}) -> "ReadyToPrepare"
      [] HasTurn({"Prepared"}) -> "RecoverPrepared"
      [] HasTurn({"Retryable", "Interrupted"}) -> IF RetryCapacity THEN "RetryPrepared" ELSE "FinalizeFailure"
      [] HasTurn({"Succeeded"}) -> "ValidateObserved"
      [] HasTurn({"Failed", "Unknown"}) -> "FinalizeFailure"
      [] ReplanReady -> "ReadyToPrepare"
      [] OTHER -> "Settled"    \* ApplyAcceptedDirective or ResolveRejectedTurn

\* The next_action of project_recon_run, for a planner driver.
NextAction ==
    IF runState \in Terminal THEN "Terminal"
    ELSE IF cancelled THEN "CancellationRequested"
    ELSE IF claim.cancellation # cancelled THEN "AwaitRunClaim"
    ELSE IF tail = "Gate" THEN "FinalizeCompletionGate"
    ELSE TurnAction

\* planner_terminal_claim_continuity from the claim of a Prepared event to now.
\* A cancellation since then is a discontinuity too.
Contiguous == breaks \cap (turn.prepared + 1)..claim.generation = {} /\ ~cancelled

-----------------------------------------------------------------------------
\* Claims, cancellation and crashes.

ExpireLease ==
    /\ claim.live /\ claim.generation < MaxClaims /\ runState = "Running"
    /\ claim' = [claim EXCEPT !.live = FALSE]
    /\ UNCHANGED <<runState, cancelled, breaks, tail, planner, snapshot, orders, driver>>

Reclaimed(r) ==
    /\ runState = "Running" /\ claim.generation < MaxClaims
    /\ claim.live => claim.runtime = r
    /\ claim' = [runtime |-> r, generation |-> claim.generation + 1, live |-> TRUE, cancellation |-> cancelled]
    /\ breaks' = IF claim.live /\ claim.cancellation = cancelled THEN breaks
                 ELSE breaks \cup {claim.generation + 1}

\* RunClaimed by public append (begin_run, renew_claim): an owner with an open
\* capture or work orders under way has to refresh instead.
ClaimRun(r) ==
    /\ Reclaimed(r)
    /\ claim.runtime = r => snapshot.state # "Open" /\ Nonterminal = {}
    /\ Nonterminal # {} => claim.generation + 1 < MaxClaims   \* bound: a refresh can still follow
    /\ UNCHANGED <<runState, cancelled, tail, planner, snapshot, orders, driver>>

\* The pair is bound to the current, unexpired claim of r.
PairLive(r) == Owner(r) /\ pair.runtime = r /\ pair.bound = claim.generation

\* validate_snapshot_capture_adoption_transition
CaptureAdoptable(r) == Owner(r) /\ snapshot.bound = claim.generation

\* refresh_parallel_recon_claim: the claim, the open capture and every
\* nonterminal work order move to the new generation together.
RefreshClaim(r) ==
    /\ Reclaimed(r) /\ ~cancelled
    /\ snapshot.state = "Open" \/ Nonterminal # {}
    /\ snapshot.state = "Open" => CaptureAdoptable(r)
    /\ snapshot' = IF snapshot.state = "Open" THEN [snapshot EXCEPT !.bound = claim.generation + 1] ELSE snapshot
    /\ pair' = IF Nonterminal = {} THEN pair
               ELSE [pair EXCEPT !.runtime = r, !.bound = claim.generation + 1,
                                 !.whole = [c \in Children |->
                                               @[c] /\ (c \in Nonterminal => PairLive(r))]]
    /\ tail' = IF Nonterminal = {} THEN tail ELSE "Child"
    /\ UNCHANGED <<runState, cancelled, planner, status, attempts, driver>>

RequestCancellation ==
    /\ runState = "Running" /\ ~cancelled
    /\ cancelled' = TRUE /\ tail' = "Cancellation"
    /\ UNCHANGED <<runState, claim, breaks, planner, snapshot, orders, driver>>

-----------------------------------------------------------------------------
\* Planner turns: drive_planner_turn and the events it has admitted.

Loop == [at |-> "loop", turn |-> 0]
At(r, place) == driver[r].at = place
Mine(r) == driver[r].turn = Number
Send(r, next) == driver' = [driver EXCEPT ![r] = next]
\* resolve_planner_terminal_boundary: a deferred retry is left to a later drive.
Resolve(r, deferred) == Send(r, IF deferred /\ NextAction' = "RetryPrepared" THEN Idle ELSE Loop)

\* The supervisor drives a run it has claimed.
StartDrive(r) ==
    /\ At(r, "idle") /\ Owner(r) /\ runState = "Running"
    /\ Send(r, Loop)
    /\ UNCHANGED <<runState, authority, tail, planner, snapshot, orders>>

\* It returns: with what the turn came to, or with the error of a Store call.
Return(r) ==
    /\ driver[r].at # "idle"
    /\ Send(r, Idle)
    /\ UNCHANGED <<runState, authority, tail, planner, snapshot, orders>>

\* build_planner_evidence: every terminal child so far.
FinishedChildren == {c \in Children : status[c] \in Ended}

\* validate_planner_turn_prepared_v1: a retry repeats purpose and evidence.
NewTurn ==
    LET retry == NextAction = "RetryPrepared"
    IN [purpose |-> IF retry THEN turn.purpose
                    ELSE IF HasTurn({None}) THEN "InitialDelegation" ELSE "EvidenceReplan",
        runtime |-> claim.runtime, prepared |-> claim.generation,
        evidence |-> IF retry THEN turn.evidence ELSE FinishedChildren,
        state |-> "Prepared", directive |-> None, observer |-> claim.runtime, observed |-> 0, calls |-> 0]

\* Prepared is committed before anything may be sent to the model.
PrepareTurn(r) ==
    /\ At(r, "loop") /\ NextAction \in {"ReadyToPrepare", "RetryPrepared"}
    /\ claim.live
    /\ turn' = NewTurn /\ spent' = [spent EXCEPT ![NewTurn.purpose] = @ + 1]
    /\ tail' = "Planner"
    /\ Send(r, [at |-> "slot", turn |-> Number + 1])
    /\ UNCHANGED <<runState, authority, snapshot, orders>>

\* planner_prepared_for_terminal and the claim the terminal event needs.
Closable(r) ==
    /\ runState = "Running" /\ Mine(r) /\ HasTurn({"Prepared"})
    /\ claim.live /\ turn.runtime = claim.runtime

Close(r, state) ==
    /\ turn' = [turn EXCEPT !.state = state, !.observed = claim.generation]
    /\ tail' = IF state = "Succeeded" THEN "Planner" ELSE "Failure"
    /\ UNCHANGED <<spent, runState, authority, snapshot, orders>>

\* Mutant: an observation across a takeover is admitted.
ObserveAcrossClaims(r, state) == runState = "Running" /\ claim.live /\ Mine(r)
                                 /\ HasTurn({"Prepared"}) /\ ~cancelled /\ Close(r, state)
\* observe_planner_v2_turn
Observe(r, state) == Closable(r) /\ Contiguous /\ Close(r, state)

\* reconcile_planner_v2_turn_unknown: on shutdown or a failed renewal another
\* turn may follow, at the deadline or on a cancellation none may.
CloseUnknown(r, state) == Closable(r) /\ Close(r, state)
\* planner_v2_observation_from_evidence
Outcomes == {"Succeeded", "Failed", "Retryable"}

\* The turn is not sent: a drifted profile, a request that does not fit or an
\* elapsed deadline end it, a shutdown, lost claim or closed scheduler defer it.
NotDispatched(r) ==
    /\ At(r, "slot")
    /\ \E state \in {"Failed", "Retryable"} : Observe(r, state) /\ Resolve(r, state = "Retryable")

\* The slot is acquired and the request is sent.
Dispatch(r) ==
    /\ At(r, "slot")
    /\ turn' = IF Mine(r) THEN [turn EXCEPT !.calls = @ + 1] ELSE turn
    /\ Send(r, [driver[r] EXCEPT !.at = "calling"])
    /\ UNCHANGED <<spent, runState, authority, tail, snapshot, orders>>

\* The backend answers.
Answer(r) ==
    /\ At(r, "calling")
    /\ \E state \in Outcomes : Observe(r, state) /\ Resolve(r, FALSE)

\* The call is given up.
GiveUp(r) ==
    /\ At(r, "calling")
    /\ \E state \in {"Interrupted", "Unknown"} : CloseUnknown(r, state) /\ Resolve(r, state = "Interrupted")

\* A Prepared turn this drive did not prepare: whether it was sent is not
\* known, so it ends as restart-unknown and is never sent again.
RecoverPrepared(r) ==
    /\ At(r, "loop") /\ NextAction = "RecoverPrepared" /\ claim.live
    /\ turn' = [turn EXCEPT !.state = "Interrupted", !.observed = claim.generation]
    /\ tail' = "Failure"
    /\ UNCHANGED <<spent, runState, authority, snapshot, orders, driver>>

\* validate_planner_prompt_directive_shape, for what the two purposes may ask
DirectivesFor(purpose) == IF purpose = "InitialDelegation" THEN {"Delegate", "Other"} ELSE {"Finish", "Other"}
\* The two decisions of finalize_planner_v2_turn; the decision's clock has to
\* follow the observation's in one runtime.
AcceptTurn ==
    \E d \in DirectivesFor(turn.purpose) : turn' = [turn EXCEPT !.state = "Accepted", !.directive = d]
RejectTurn == turn' = [turn EXCEPT !.state = "Rejected"]
Decide(r) ==
    /\ At(r, "loop") /\ NextAction = "ValidateObserved"
    /\ turn.observer = claim.runtime
    /\ AcceptTurn \/ RejectTurn
    /\ tail' = "Planner"
    /\ UNCHANGED <<spent, runState, authority, snapshot, orders, driver>>

\* validate_parallel_recon_snapshot_terminal_fence
TerminalFence == snapshot.state \in {None, "Closed"}

\* finalize_planner_v2_turn on a failure: the run fails with it, as long as
\* nothing but claims came after it.
FailRun(r) ==
    /\ At(r, "loop") /\ NextAction = "FinalizeFailure"
    /\ TerminalFence /\ tail = "Failure" /\ claim.live
    /\ runState' = "Failed" /\ tail' = "State"
    /\ Send(r, Idle)
    /\ UNCHANGED <<authority, planner, snapshot, orders>>

\* resolve_planner_cancellation.  A Prepared turn is closed as not dispatched
\* and a success is finalized, and the Store admits neither.
CancelRun(r) ==
    /\ At(r, "loop") /\ NextAction = "CancellationRequested"
    /\ ~HasTurn({"Prepared", "Succeeded"})
    /\ TerminalFence /\ claim.live
    /\ (HasTurn({None}) \/ HasTurn({"Accepted", "Rejected"})) => claim.runtime = r
    /\ runState' = "Cancelled" /\ tail' = "State"
    /\ Send(r, Idle)
    /\ UNCHANGED <<authority, planner, snapshot, orders>>

-----------------------------------------------------------------------------
\* Snapshot, child pair and completion.

OpenCapture(r) ==
    /\ CurrentOwner(r) /\ runState = "Running" /\ snapshot.state = None
    /\ snapshot' = [state |-> "Open", bound |-> claim.generation] /\ tail' = "Snapshot"
    /\ UNCHANGED <<runState, authority, planner, orders, driver>>

IssueLease(r) ==
    /\ CurrentOwner(r) /\ runState = "Running"
    /\ snapshot.state = "Open" /\ snapshot.bound = claim.generation
    /\ snapshot' = [snapshot EXCEPT !.state = "Active"] /\ tail' = "Snapshot"
    /\ UNCHANGED <<runState, authority, planner, orders, driver>>

\* validate_child_delegation_authorized_v2
DelegationAccepted == HasTurn({"Accepted"}) /\ turn.directive = "Delegate"
\* parallel_recon_exact_pair_history_counts
PairUnissued == \A c \in Children : status[c] = "Unissued"
\* derive_parallel_recon_exact_pair_material
PairAuthority(r) == CurrentOwner(r) /\ runState = "Running" /\ snapshot.state = "Active"
\* Both attempts start in the one transaction, so they overlap.
FirstAttempts(r) == [runtime |-> r, bound |-> claim.generation, whole |-> [c \in Children |-> TRUE], met |-> TRUE]

\* bootstrap_parallel_recon_exact_pair: authorizations, work orders and first
\* attempts of both children in one transaction.
Bootstrap(r) ==
    /\ PairAuthority(r) /\ DelegationAccepted /\ PairUnissued
    /\ status' = [c \in Children |-> "Running"] /\ attempts' = [c \in Children |-> 1]
    /\ pair' = FirstAttempts(r)
    /\ tail' = "Child"
    /\ UNCHANGED <<runState, authority, planner, snapshot, driver>>

\* Another attempt of one child; it meets the other's if that one is under way.
RetryChild(r, c) ==
    /\ ~cancelled /\ PairLive(r) /\ status[c] = "Retryable"
    /\ Begin(c)
    /\ pair' = [pair EXCEPT !.whole[c] = TRUE,
                            !.met = \A d \in Children \ {c} : status[d] = "Running" /\ pair.whole[d]]
    /\ tail' = "Child"
    /\ UNCHANGED <<runState, authority, planner, snapshot, driver>>

\* ChildExecutionFinished; after a cancellation the bound runtime may still
\* end what was in flight.
EndChild(r, c) ==
    /\ IF cancelled THEN pair.runtime = r /\ End(c, "Cancelled")
       ELSE PairLive(r) /\ \E v \in {"Succeeded", "Failed", "Retryable"} : End(c, v)
    /\ tail' = "Child"
    /\ UNCHANGED <<runState, authority, planner, snapshot, pair, driver>>

\* validate_repository_snapshot_lease_released
ReleaseSnapshot(r) ==
    /\ Owner(r) /\ claim.cancellation = cancelled
    /\ runState = "Running" /\ snapshot.state = "Active" /\ Nonterminal = {}
    /\ snapshot' = [snapshot EXCEPT !.state = "Closed"] /\ tail' = "Released"
    /\ UNCHANGED <<runState, authority, planner, orders, driver>>

\* derive_recon_completion_gate_material: the last decision, on the last turn,
\* finishes the run.
FinishDecided == HasTurn({"Accepted"}) /\ turn.purpose = "EvidenceReplan" /\ turn.directive = "Finish"
\* recon_completion_children: succeeded, in one monotonic run of claims.
ChildProven(c) == status[c] = "Succeeded" /\ pair.whole[c]
\* recon_completion_packet_has_terminal
InPacket(c) == c \in turn.evidence
\* derive_child_overlap
Overlapped == pair.met
\* recon_completion_snapshot_boundary: only claims came after the release
\* that followed the decision.
ReleasedLast == snapshot.state = "Closed" /\ tail = "Released"

GateReady ==
    /\ FinishDecided /\ ReleasedLast /\ Overlapped
    /\ \A c \in Children : ChildProven(c) /\ InPacket(c)

AcceptGate(r) ==
    /\ CurrentOwner(r) /\ runState = "Running" /\ GateReady
    /\ tail' = "Gate"
    /\ UNCHANGED <<runState, authority, planner, snapshot, orders, driver>>

CompleteRun(r) ==
    /\ CurrentOwner(r) /\ runState = "Running" /\ tail = "Gate"
    /\ TerminalFence
    /\ runState' = "Completed" /\ tail' = "State"
    /\ UNCHANGED <<authority, planner, snapshot, orders, driver>>

-----------------------------------------------------------------------------
Drive(r) ==
    \/ PrepareTurn(r) \/ NotDispatched(r) \/ Dispatch(r) \/ Answer(r)
    \/ GiveUp(r) \/ RecoverPrepared(r) \/ Decide(r) \/ FailRun(r) \/ CancelRun(r)
Recon(r) ==
    \/ OpenCapture(r) \/ IssueLease(r) \/ Bootstrap(r) \/ ReleaseSnapshot(r)
    \/ AcceptGate(r) \/ CompleteRun(r)
    \/ \E c \in Children : RetryChild(r, c) \/ EndChild(r, c)

Next ==
    \/ ExpireLease \/ RequestCancellation
    \/ \E r \in Runtimes : ClaimRun(r) \/ RefreshClaim(r) \/ StartDrive(r) \/ Return(r) \/ Drive(r) \/ Recon(r)

Spec == Init /\ [][Next]_vars

\* The current claimant goes on, and a lease that nobody renews runs out.  A
\* runtime without the claim owes nothing.  A drive does not fail for ever
\* where it could go on, and returns once the Store refuses its turn.
Refused(r) == claim.runtime = r /\ At(r, "calling") /\ ~Closable(r) /\ Return(r)
FairSpec ==
    /\ Spec /\ WF_vars(ExpireLease)
    /\ \A r \in Runtimes :
          /\ WF_vars(StartDrive(r)) /\ SF_vars(claim.runtime = r /\ Drive(r)) /\ WF_vars(Refused(r))
          /\ WF_vars(claim.runtime = r /\ Recon(r))
          /\ WF_vars(~claim.live /\ ClaimRun(r)) /\ WF_vars(RefreshClaim(r))

-----------------------------------------------------------------------------
\* Properties.

\* A run is over only when nothing of it is left: no capture or lease holds
\* the repository and no child is under way.  The fence of the terminal
\* states looks at the snapshot alone; it is the release that waits for the
\* children.
TerminalRunHasNoLiveWork ==
    runState \in Terminal => snapshot.state \notin {"Open", "Active"} /\ Nonterminal = {}

\* A completed run was never cancelled, and rests on two successful children
\* whose last attempts each ran under one unbroken line of claims and did
\* overlap, and on a decision that had the evidence of both.
CompletionIsEarned ==
    runState = "Completed" =>
        /\ ~cancelled /\ turn.directive = "Finish" /\ turn.evidence = Children
        /\ pair.met /\ \A c \in Children : status[c] = "Succeeded" /\ pair.whole[c]

\* What an answer says of a turn is only believed while one runtime has held
\* the run since the turn was prepared: no takeover, lapse or change of
\* cancellation lies between Prepared and Observed, however late a superseded
\* driver comes back.
AnswersUnderOneOwner ==
    HasTurn({"Succeeded", "Accepted", "Rejected"}) => breaks \cap (turn.prepared + 1)..turn.observed = {}

\* One Prepared event sends at most one request, through restarts, takeovers
\* and drivers that recover each other's turns.
OneRequestPerTurn == ~HasTurn({None}) => turn.calls <= 1

\* No replan is prepared before every child it replaces work for has ended,
\* so no child result is left out of the decision it is for.
ReplanSeesEveryChild ==
    ~HasTurn({None}) /\ turn.purpose = "EvidenceReplan" => turn.evidence = Children /\ Nonterminal = {}

\* A turn costs one request, is believed under one owner and sees every child; a run
\* that is over has left nothing behind.
TurnsAreSound ==
    TypeOK /\ TerminalRunHasNoLiveWork /\ AnswersUnderOneOwner /\ OneRequestPerTurn
    /\ ReplanSeesEveryChild

\* All of it, for a run under any number of claims and attempts.
RunIsSound == TurnsAreSound /\ CompletionIsEarned

\* Where a run that nobody cancels may rest without a terminal state.
Undirected == HasTurn({"Rejected"}) \/ (HasTurn({"Accepted"}) /\ turn.directive = "Other")
ForeignSuccess == HasTurn({"Succeeded"}) /\ turn.observer # claim.runtime
FencedFailure == NextAction = "FinalizeFailure" /\ (~TerminalFence \/ tail # "Failure")
LostCapture == snapshot.state = "Open" /\ snapshot.bound # claim.generation
UnprovenFinish ==
    /\ FinishDecided
    /\ (\E c \in Children : ~ChildProven(c)) \/ ~Overlapped \/ (snapshot.state = "Closed" /\ ~ReleasedLast)
LostSnapshot == DelegationAccepted /\ snapshot.state = "Closed" /\ ~ChildrenTerminal
Resting == Undirected \/ ForeignSuccess \/ FencedFailure \/ LostCapture \/ UnprovenFinish \/ LostSnapshot

\* Left alone, a run ends, or rests in one of the places above for want of
\* any event the Store would admit: nothing else can hold it up.  A turn that
\* was prepared does not stay open, whatever became of the driver that did it.
RunSettled == runState \in Terminal \/ cancelled \/ (Resting /\ ~HasTurn({"Prepared"}))
RunEndsOrRests == []<>RunSettled

\* "failed/unknown observations end the run, with a durable cancellation
\* taking precedence" (store_planner_v2_api.rs): a run whose planner turn is
\* in whatever state when the cancellation comes, and that holds no snapshot,
\* is cancelled.
CancellationEndsPlanning == cancelled /\ snapshot.state = None ~> runState \in Terminal
=============================================================================

