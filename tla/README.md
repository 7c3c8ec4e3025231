# BirdCode verification project

BirdCode is a local agent runtime. A daemon (`apps/daemon`) executes runs that
clients create; what it decides is an event appended to a SQLite store
(`crates/store`), so that a crash, a restart or a second daemon can pick a run
up where the log says it is. This project models that core in TLA+, checks it
with TLC on small instances, and proves the most important results for every
instance with TLAPS.

## Inventory

| Part | State | Operations | Hard because |
| --- | --- | --- | --- |
| Model-call lane (`apps/daemon/src/model_call_scheduler.rs`, `await_model_call_slot`) | semaphore permits, FIFO waiters | acquire, heartbeat while waiting, rechecks, release by drop | many reasons to leave race with the grant; the claim is renewed while a permit may be assigned |
| Planning event admission (`crates/store`: `validate_generic_event`, `root_planning_v1_*`, `validate_run_*`) | the run's events, the projected run state, claim leases | append one event of each kind in one immediate transaction | any process may append at any time; the log alone must exclude double calls, decisions after a cancellation and unreviewed plans |
| Run supervisor and cancellation (`supervisor.rs`, `crates/runtime`, `server.rs`) | the task's position, the history it read, the durable request and the in-memory signal | claim, prepare, dispatch, observe, decide, fail, transition, cancel | acts on a history read before several awaits; crash at any await; lease, deadline, shutdown and cancellation all race with the provider |
| Durable run dispatch (`supervisor/runtime_dispatch.rs`) | pending queue, active map, scan cursor, backoff | submit, scan, enqueue, spawn, join, shut down | check-then-act around a bounded queue |
| Parallel reconnaissance and planner v2 (`parallel_recon_*`, `planner_v2_*`) | turns, claims, a snapshot, an exact pair of children, the completion gate | bootstrap, prepare, observe, decide, finalize, cancel | several actors per run, every event fenced by claim, cancellation generation and predecessor |
| Child dispatch lane (`store_child_dispatch/`, `child_*`) | work orders, attempts, broker epochs, affine handoffs | claim, adopt, prepare, execute, observe, finish, reconcile | effects of a dead or deposed runtime must be run at most once and still be accounted for |
| Snapshots and cleanup (`crates/workspace`, `repository_snapshot*.rs`) | journal, image, mount, lease | acquire, bind, release, recover | file system and store must agree after a crash at any system call |
| Write lane and workers (`repository_*_worker.rs`, `crates/workspace/src/worktree.rs`) | journaled replacement, local plan, budgets, evidence, claims of reviews | acquire, write, verify, release; model turns, tool calls, review | another program edits the same tree; one step of several fails |
| Candidate head (`repository_candidate_head.rs`) | chains of selections | open a track, read, compare and swap | concurrent controllers, replayed requests |
| Orchestrator (`crates/orchestrator`) | actor graphs, plans, the planner's journal, the router's repair | validate, dispatch, retry, clean up; patch; reserve, observe, decide | overflow of reservations, cycles, dispatch after unproven cleanup, a full journal |
| Store files (`crates/store` opening, migration, upgrade) | schema version, marker, rows, temporary files | open, migrate, upgrade in batches, validate | two openers and a stop between any two transactions |
| Tool broker (`crates/tooling`) | epochs, prepared calls, terminals, the walk of a tree | open, prepare, execute, interrupt, reconcile; tree, read, search | exactly one terminal per call; the disk changes under the walk |
| Planner and reviewer prompts (`crates/prompting/src/planner_replanner*.rs`, `repository_reviewer.rs`) | packet, delta, bindings | render, bind, validate an output | an output must belong to the packet it answers |
| Client, CLI, desktop, backends, other prompts, JSON validation | see `PROJECT.json` | | not modelled |

What makes each part correct: the lane never loses a permit and serves every
waiter; the log admits at most one call per stage, nothing that overtakes a
cancellation, and completion only of a reviewed plan; the supervisor makes no
call twice, records truthfully whether a call was made, follows the review
protocol, and ends every run; the dispatcher executes
every live run, each by one task at a time, and always shuts down; a child's
repository call is run at most once and always accounted for; a completed
reconnaissance run has earned its completion; a lane or a snapshot destroys
nothing it has not seen; a candidate chain has no gap; a broker's terminals
are true; a Store file that is served is whole.

## Modules

One module per component; a definition keeps the name of the function it
models, and `PROJECT.json` maps it to its lines.

* `ModelCallScheduler` - the lane. `pc[c]` is where call `c` stands between
  `acquire` and the provider future; every exit goes through `Leave`, which is
  what dropping the future or the permit does. The tokio semaphore is external
  code, modelled from its use: first in, first out, a free permit is assigned
  to the oldest waiter even while that waiter is not polled.
* `PlanningLog` - the store's view of one plan-only run under independent
  semantic review. `log` is the event table of the run, an event's identity its
  position; `state` is the `run_state_projection` row; `leaseLive` says whether
  the latest claim's lease has not expired. One operator per validator;
  `append_event` is the transaction: validate, insert, project. `LogSpec` lets
  anyone append any admissible event: it is the abstract specification of the
  planning log. A validator's checks that one payload is the exact image of
  another are represented by the position it refers to. The cancellation
  generation is 0 or 1, as in the code.
* `RunSupervision` - the daemon's view of the same run, on top of
  `PlanningLog`. `task.pc` names the next store phase or await of
  `supervise_semantic_run` and what it calls; `task.after` and `task.goal` are
  where a claim renewal or a cancellation returns to and the state asked for;
  `task.hist` is the length of the history the task read. A store phase is one
  action because it runs in `spawn_blocking` and appends with the last event it
  read as causal parent; a phase that makes two appends is two actions.
  `proc` holds the life of each daemon process, `cancelling` the three steps of
  a `CancelRun` request. Provider calls are counted in `calls`. An observation
  is an answer, an error, or evidence that no call was made (`NotDispatched`
  stands for the evidence written before the call: not dispatched, and cancelled
  before it); subject `log` of the run does not propose the last kind, since to
  the Store an observed failure is one whatever its evidence says. The end of the
  module is the review protocol told without events, claims or retries: the
  `Phase` the retained decisions have led to, the stages `Called`, the request
  to cancel and the `End` (`ReviewNext`). The deadline is read again inside
  the transaction of a decision, so there is no step between the reading and
  the append, and no property is about it.
* `RunDispatch` - one daemon process from the outside of its runs: the server
  thread (`submit` in its three steps: register, send, roll back; discovery),
  the durable dispatcher (load a page, visit its runs, reserve a slot, register
  and send, wait) and the supervisor's loop with its biased select and its
  teardown. `active` is `active_cancellations`; `channel` and `permit` the
  tokio channel with a reserved slot; `durable` the run states in the store. A
  wait has any length, so `dispatch_wake` and the backoff, which only shorten
  or lengthen it, are not state.
* `ReconRun` - a reconnaissance run in the Store: its claims, the planner v2
  turns, the driver that fences each turn, the snapshot and the exact pair of
  children as the run sees them, the completion gate and the terminal states.
  A dead runtime is one that never acts again.
* `PlannerTurnLog` - what the events of those planner turns say: the evidence a
  turn is prepared from, the packet and the retained request that shows it to
  the model, the answer, the reasons that refuse it, and the plan an accepted
  answer makes. With `Importing`, a Prepared event may come prebuilt from
  outside, and only the Store's checks stand between it and the log.
* `WorkOrder`, `ChildAttempt`, `ChildDispatch` - the child lane. `WorkOrder` is
  the abstract life cycle of a work order; `ChildAttempt` what an attempt's
  evidence says to do next (replay); `ChildDispatch` the claim, its adoptions,
  broker epochs and the affine dispatch, execution and observation handoffs.
* `ChildTurns` - what the events of one such attempt, v1 or v2, say: the room a
  work order grants, the plan and the results each model call is given, the
  answer and what may be done about it, the handoff and the end. The order of
  the events is `ChildAttempt`'s; one runtime holds the run throughout.
* `SnapshotLifecycle` - a repository snapshot: journal, image, mount and lease,
  one action per system call that a crash can separate, and its recovery.
* `WorktreeWriteLane` - the journaled single replacement in a worktree, one
  action per system call; contents are base, post or foreign, and a replaced
  file is a new node.
* `LocalPlan`, `ImplementationAttempt` - the implementation worker's turns, its
  budgets, its plan and its write through the lane, the repair and the outcome.
  The plans TLC offers have up to two steps. The valid plan of an answer whose
  action is rejected still becomes the prior plan, as in the code.
* `ExplorerAttempt`, `Utf8Projection` - the read-only worker: turns, tool calls
  through a lane its attempts share, evidence, and the window of bytes the
  model is shown.
* `ReviewContract`, `RepositoryReview` - the reviewer: what a packet and an
  answer must satisfy, and the attempt on the shared journal (claim, start,
  model turn, repair, decision). An answer is a verdict and the citations of
  each requirement; the candidate is the producer's attempt it came from.
* `SelectionChain`, `CandidateHead` - the registry of candidate heads and its
  abstract specification, a chain per track that only grows at its end.
* `ActorGraphExecutor` - validation of a graph of work orders and
  its execution with retries, timeouts, cleanup and reservations.
* `PlanPatch`, `PlanEvolution` - a plan, the patch a turn makes (and the turns
  TLC offers), the plan over several turns.
* `PlannerExecution` - the planner executor on its shared journal;
  `RouterExecution` - the intent router's call and its evidence repair.
* `PlannerPrompt` - the planner contracts, first and second version: packets,
  deltas, authorities, bindings and the checks of an output. A digest is the
  content it digests (the code treats it as injective), `formed` stands for the
  checks of a field's shape, and a refused output changes nothing. The limits
  on a packet as a whole, 256 entries and 1 MiB in the code, are `MaxEntries` and
  `MaxBytes`; an entry has a size of its own. A packet holds all the evidence of
  its run and never shrinks, so a run whose evidence outgrows a limit compiles
  no further turn: the checks of the next invocation accept it exactly when its
  evidence fits (`EvidenceFits`), which is what `NextTurnCompiles` states.
* `StoreUpgrade`, `StoreOpening` - a Store file and its migrations,
  and its opening by concurrent processes; `StoreOpening` also lists the files
  TLC starts from.
* `RepositoryWalk` - the tree, read and search operations, one action per
  system call on a disk that changes; `ToolBroker` - the broker's epochs and
  calls.
* `..._proofs` - the theorems about a module and, for the supervisor and the
  attempt, about the log and the lane it drives.
* `MC...` - benches for TLC. A bench holds several components that share no
  state; the variable `subject` is chosen in the initial state and never
  changes, the chosen component moves and the others stay where they started.
  A property of the bench is the property of the component by the same name,
  and a bench with `INSTANCE ... WITH` checks the same module at other bounds.

Definitions marked `mutant` are deliberate mistakes; they are used by nothing
and show that each property can fail.

## Runs

| Run | Instance | Shows |
| --- | --- | --- |
| `supervision` | subjects: the log alone with 2 proposers and 1 claim; 2 stoppable daemons that may both cancel, history limit 16; 2 daemons with 1 fault of the store, a heartbeat or the lease, history limit 7 | what the store admits is sound against any proposer, no call is repeated, the retained evidence tells whether the provider was called, the supervisor's picture agrees with the log, and the run implements the review protocol (`ImplementsReview`): a stage is called only in its phase and once, a phase is left only by that stage's verdict, and the end is the one the phase and the client's request allow |
| `supervision_liveness` | 2 daemons, crashes, no faults, no graceful stop, limit 40 (out of reach) | a run ends, and a cancelled one ends as cancelled |
| `dispatch` | 3 runs, channel, queue and task limit 1, pages of 2; lane: 3 calls, 2 permits | three runs fill task, queue and channel at once, so that a submission is refused and the dispatcher has to wait; with fewer permits than calls one always waits while others leave |
| `dispatch_liveness` | 2 runs, pages of 1, all executable or only the last; lane: 2 calls, 1 permit | every executable run is dispatched, also behind pages of runs that stay quiescent; shutdown completes; a waiter is served |
| `workers` | an attempt of 4 model calls with 1 edit and 1 fault, on plans of up to 2 steps; the lane with 2 edits and 3 faults; 2 controllers, 2 tracks, 3 selection ids, generation 2; one reviewer with every shape of answer to two requirements, a replayed dispatch with a failing journal, two reviewers of two producer attempts | an effect on disk is journaled, a reported write is the one asked for, foreign bytes survive; an attempt's report rests on what it did, and an attempt that has written can still finish, if only as Partial or Blocked, whatever plans it has submitted; the chain has no gap and a repeated request is answered as the first time; a review is claimed once, and a decision rests on the answer that was retained |
| `child` | 2 runtimes; one order tried twice; one with two calls of each kind; two orders | a call is run at most once and accounted for, an open attempt can continue, stranded orders stay stranded, pending effects settle. The pair is symmetric, so its properties are read off the first order |
| `recon` | 3 claims and 1 attempt, or 2 claims and 2 attempts, two children; turns of two work orders as the Store builds them; turns imported prebuilt, with one work order, 3 turns and 4 model calls; one retry of a work order; a child's attempt of 3 model and 2 tool calls on a plan of one step, or of 2 and 1 on two steps, with one finding | turns are bound to the claim and generation they were prepared under; completion rests on both children; evidence is real and new once, accepted plans form a chain, and what the Store builds it also admits; an effect rests on the attempt's last word, a result is supplied once, plans never reopen a step, and a handoff cites what was found |
| `progress` | small instances of five components | what was begun ends, or rests where its module says it must |
| `orchestration` | graphs of 3 orders over every dependency relation, two orders with budgets at the edge of a 4-bit width, plans of 2 obligations over 3 revisions, 3 planner callers, all citations up to length 3, both prompt contracts with packets of at most 2 entries in 3 bytes (three children) and 3 entries in 4 bytes, so that evidence reaches and exceeds both limits | a run of a graph dispatches nothing it may not and never stalls, reservations do not wrap, plans keep their history, the journal is sound, a repaired route is a route the rules accept, an accepted output belongs to its packet, and the next turn compiles exactly while the evidence fits |
| `resources` | 2 brokers, 2 threads; a tree of 8 nodes with 2 changes; 2 openers and 1 stop; a snapshot with 2 edits and 3 faults; 1 or 2 explorer attempts; windows of 7 bytes | terminals are true and unique, an observation was true of some moment of the walk, a served file is whole, an image outlives its lease, a report rests on calls that were made |
| `deadline_after_resume`, `recon_cancellation` | violations, below | |

Deadlock checking is off: a run that reached a terminal state, calls that have
all ended and a process that has shut down have nothing left to do.

Bounds: `MaxClaims`, `MaxFaults`, `MaxEdits`, `MaxTakeovers`, `MaxAdoptions`,
`MaxGeneration`, `SpareEpochs` and the like bound what may happen without end;
`MaxRecoveryEvents`, `MaxModelCalls`, `MaxToolCalls`, `MaxReservations` and the
other limits are the code's own, made small enough to be reached. Two of each
actor give every race of a pair; one takeover after one takeover is reached
with three claims in `recon`. In the child lane the last claim does not expire
and a runtime crashes only if another can take over, so that the liveness
properties are not about a system with nobody left. Symmetry is used only where
no liveness property is checked.

Fairness: the task's steps, `Start`, `Boot`, `Exit`, the steps of a CancelRun
handler and the expiry of a dead process's lease are weakly fair. Tokio polls a
woken task; the durable dispatcher rescans at most one second apart; leases
expire by the clock; provider calls end because the backend bounds each
request. Nothing makes a crash, a cancellation or the deadline happen.
In `RunDispatch` the three threads and the end of a task are weakly fair. Two
actions are strongly fair: reading a page, because the dispatcher retries for
ever and a store error is not permanent, and `reserve`, because tokio's
semaphore hands a freed slot to the oldest waiter before any later `try_send`.
`RunsAreDispatched` excepts a run that a client resubmits without end: each
such request registers it for a moment, and a scan that always passes just then
would always skip it.
In `ReconRun` only the runtime that holds the claim is fair; its driver is
strongly fair because a turn that another writer's event fences is driven
again. In `ChildDispatch` the claim's refresh, the opening of the claimant's own epoch,
settling and ending cancelled orders are weakly fair for each live runtime. In
`SnapshotLifecycle`, `Recover` is strongly fair: each start of the daemon runs
it, and a fault that interrupts it is transient. An open call keeps running
unless the process is stopped.

## What the runs found

1. `deadline_after_resume`. A daemon stopped gracefully between two stages
   leaves the run `Waiting`; the next daemon claims it and moves it to
   `Running`. If the next stage then fails before its preparation (deadline,
   policy drift, models unavailable), `append_root_planning_stage_failure`
   binds the failure to the previous stage's decision, but the store wants the
   latest event that is not a claim, which is now the `Running` transition. The
   append is refused, the task ends with an error, the dispatcher starts it
   again, and the run never ends. Each restart appends two claims, so that the
   log outgrows `max_recovery_events` and even a cancellation
   (`supervisor.rs:1195`) is never carried out.
2. `recon_cancellation`. `planner_terminal_claim_continuity` calls a turn
   discontinuous as soon as the cancellation generation differs from the one it
   was prepared under, so the Store refuses every observation after a durable
   cancellation, and a turn observed as succeeded before it is finalized into a
   run event that demands a failure. Both leave the run `Running`.

Without a graceful stop between stages and without store faults, and without a
cancellation around a planner turn, the liveness properties hold.

Seen while modelling, and kept in the models as the code has them:

* `ReconRun`. A run may rest where nothing can end it: `Undirected`,
  `ForeignSuccess`, `FencedFailure`, `LostCapture`, `UnprovenFinish` and
  `LostSnapshot` name the places. `drive_planner_turn` is not called anywhere
  yet. A chain of claims has at most 256 transitions (`lib.rs:4514`, `4519`).
* `PlannerTurnLog`. The replay of a finalization demands the terminal event of
  the turn as causal parent (`validate_existing_planner_v2_finalization`), and
  the builder takes the last event: after a renewal of the claim the two differ,
  and a repeated finalization is answered as a conflict. The durable entry of
  an imported Prepared event is not tied to what its prompt shows.
* `ChildDispatch`. After a takeover with no tool in flight, an attempt that
  used the old broker can prepare no further tool. A cancelled run with an open
  capture, with a child that never started, is to be retried or has handed off,
  with a dead bound runtime, or with a model call prepared by another runtime
  can never reach a terminal state (`Unreconcilable`; proved final as
  `StrandedForever`). The cancellation `docs/orchestration.md` describes is
  future design. A handoff refresh (`lib.rs:8819`) does not do what
  `store_parallel_recon_api.rs:44` says of it.
* `ActorGraphExecutor`. Retries inside futures already started still dispatch
  after an unproven cleanup; a journal failure drops the futures. The
  `CandidateDependency` check is implied by equal contracts and acyclicity.
* `PlanPatch`. A patch can revise the order it adds, under the identity derived
  for it (mutations are applied after additions, `planner.rs:1738`), so an order
  may be revised once more than the plan was since; a bound that excluded it did
  not survive its proof. The parent link keeps only the parent's revision; an order that a
  cancelled order depends on can never be cancelled; finishing ignores the
  states of the work orders.
* `PlannerExecution`. No journal room is reserved for the observation and the
  decision; nothing recovers attempts that were observed and not decided; a
  journal with records of one inference policy refuses executors of another.
* `RouterExecution`. `RepairedOutputContract` is unreachable.
* `StoreOpening`. A refused batch leaves the marker, so a defective old file
  refuses every later open, by design. The upgrade to version 7 checks only
  creation events and counts.
* `RepositoryWalk`. The intermediate directories of a request's path are not
  checked again; a search says `truncated` conservatively, and a cut at the
  depth limit is not reported as truncation.
* `ToolBroker`. A reconciled call whose terminal does not encode is marked first
  and never reconciled again. A second execution of a consumed call is answered
  with `NotStarted` (`broker.rs:322`), which `tooling/model.rs:192` reads
  otherwise. A superseded broker may still run; the Store admits one terminal.
  `reconcile` has no look-up of issued digests (`broker.rs:426`): a well-formed
  bundle the broker never issued would be reconciled too. The module offers it
  bundles that were issued by some broker only; no property depends on that.
* `ExplorerAttempt`. An attempt that prepares while another executes fails for
  good ("requires reconciliation"); a dropped attempt leaves the lane unhealthy
  for the epoch.
* `ImplementationAttempt`. The repair needs room that the comment at
  `repository_implementation_worker.rs:84` does not mention (line 839).
* `PlannerPrompt`. The first contract neither derives the context manifest again
  nor binds the packet's digest. Evidence is checked against the limits of a
  packet only when the next packet is compiled (`PacketTooLarge`,
  `planner_replanner_v2.rs:2906`): a run may accept results its next turn cannot
  be shown.

## Proofs

The theorems hold for every value of the constants: any number of processes,
runtimes, runs, calls, faults and edits, and any length of the log. The only
assumptions are the named `ASSUME`s of the modules, which the code enforces:
capacities and bounds are natural numbers (positive where a constructor refuses
zero), the sets of runs and of calls are finite, an order allows an attempt,
required obligations are in the catalog, the name of no broker is no broker's,
the numbers of a work order and of a policy are unsigned.
TLC evaluates each of them in a run. Two theorems, `PlanSound` and
`HistoryIsKept`, have a hypothesis instead, that the turns on offer are decoded
ones (their lists have a length, their accesses are of `PlannerAccess`); TLC
checks it of every plan it reaches, as a part of `PlanTypeOK`. Every theorem has the same frame: the
initial states satisfy an inductive invariant, each action preserves it (one
lemma per action or per thread, one step per conjunct it can disturb), and the
property follows.

| Module | Proved | The inductive invariant adds |
| --- | --- | --- |
| `RunSupervision_proofs`, the log | types, `StageOnceInOrder`, `CancellationDominates`, `OutcomesAreFinal`, `OneUnresolvedAttempt`, `CompletedIsReviewed` (together `LogIsSound`), `TerminalIsFinal` | `LogInv`: an outcome points back at a preparation, a preparation was made under generation 0, every attempt but the latest is decided (`EarlierAttemptsDecided`: by the candidate or the repair the next one is bound to), and where a review and the plan it reviews stand. `Admission` extracts from `append_event` the validator of each kind |
| `RunSupervision_proofs`, the supervisor | `NoDuplicateCall`, `EvidenceIsTrue`, `SupervisorIsSound` (types, `TaskMatchesLog`, `CompletedCallCount`), and the refinement `ImplementsReview`. `LogIsSound` of a supervised run follows from the log's proof, since what a daemon appends has passed the same admission (lemma `SupervisorKeepsLog`) | `Held`: what a task may look like at each point. A task between preparation and call has a prepared stage with no call (`BeforeCall`); no renewal of the claim returns to a point where a call is in flight. The task acts on an old history: the append that would be stale is refused, because the history read is a prefix of the log. `PlaceInv` is a second layer over it: a task at a call point has the open attempt of its stage under the owner it claimed for (`Placed`), every attempt has its predecessors succeeded and its repair authorised, and a decided stage was called exactly if its evidence says so (`CallsWereMade`). With the log's `OneUnresolvedAttempt` the replay of the log can then only find that attempt. `ReviewInv` relates the log to the protocol: decisions stand in the order of their attempts, an attempt without a decision is of the present phase, and a planning recorded as failed was not accepted; the latest decision is then the verdict that makes the phase, a call is made in it, and the end follows from it |
| `RunDispatch_proofs` | types, `ActiveMatchesWork`, `QueuesBounded` | a submission and a reservation name a run, and a slot is reserved exactly while the dispatcher is about to use it; without it the channel's bound is not inductive |
| `RunDispatch_proofs`, the lane | `LaneIsSound` | a waiter whose run was cancelled stays revoked, and a waiter that renews its claim is in the queue |
| `ImplementationAttempt_proofs`, the head | `HeadIsSound`, the history of a selection is kept, the refinement `ImplementsSelectionChain` | generations of a track are the numbers up to its head, and each recorded selection is one of them |
| `ImplementationAttempt_proofs`, the lane | `WriteLaneIsSound`, `WriteLaneDestroysNothingUnseen` | where a call stands in each phase (`ControlOK`), how far journal and rename are (`StoryOK`), what is left on disk and how many faults that took (`DiskOK`), what the last comparison established (`ComparisonOK`) |
| `ImplementationAttempt_proofs`, the attempt | `AttemptIsSound`, `FinishStaysInReach`, and the lane's two properties under the attempt that drives it | what the budgets still cover at each point (`BudgetOK`: tokens for every call that may remain), where the lane stands while the attempt is at each point (`LaneFollows`), and why a lane dropped when it is ready leaves nothing behind (`KeptOnDrop`), which the lane's own invariant did not say. For `FinishStaysInReach`, the prior plan of an attempt that has read or written is an accepted one (`RevisionsFollow`); and every such plan can be submitted again with its open steps cancelled, which a Partial Finish that names an unknown accepts (`PlanCanClose`) |
| `ChildDispatch_proofs` | `CallsAreAccounted`, `AttemptsCanContinue`, `StrandedForever`, the refinement `ImplementsWorkOrder` | a call belongs to a broker that gave it out, the right to run it is held in one hand and is gone once it ran (`LaneInv`); an attempt fits the runtime it is bound to (`Bound`) |
| `ReconRun_proofs` | `RunIsSound`: types, `CompletionIsEarned`, `TerminalRunHasNoLiveWork`, `AnswersUnderOneOwner`, `OneRequestPerTurn`, `ReplanSeesEveryChild` | no two drivers are at the slot or in the call of one turn, and whoever waits at the slot has not sent it (`CallInv`); a child is under way only on a leased snapshot, which is why the fence of the terminal states may look at the snapshot alone (`LiveOnSnapshot`); a replan delegates nothing; what the gate was given still holds behind it, because nothing but a claim can follow the gate without ending it (`GateHolds`) |
| `SnapshotLifecycle_proofs` | `SnapshotIsSound`, `ImageOutlivesLease` | the stage of the journal, what is on disk, what the Store has committed and how the gate stands at each point of an operation (`RecordFollows`, `DiskFollows`, `LogFollows`, `GateFollows`), and which version the image is of (`VersionFollows`) |
| `ExplorerAttempt_proofs`, the agent | `ExplorerIsSound` | at most one call is without an observation, and while the lane is occupied it is the holder's (`LaneFollows`); a read in progress has its reservation, and what is left of the tokens has not been reported (`WithinBudget`) |
| `ExplorerAttempt_proofs`, the brokers | `BrokersAreSound` | a broker is opened once and its sequence numbers count its bundles (`SequencesFollow`); what it has issued under a call is the bundle prepared for it (`IssuesFollow`); a call that ran, is running or was reported is consumed, it runs in one thread and before its terminal (`CallsAreSpentOnce`) |
| `Orchestration_proofs`, the executor | `UnprovenStopsDispatch` | once an unproven cleanup is reported the order is in `unproven`, and then the loop only scans or awaits: the places that begin an order or finish a run are not reached (`UnprovenInv`) |
| `Orchestration_proofs`, the run of a graph | `RunIsSound`: types, `DispatchesVerify`, `NeverStalls`, `WriterIsAlone`, `WithinReservations`, `ReviewsAndCandidatesAreBlind`, `FinishIsAccurate`, `ReservationsAreReal` | `GraphInv`: what each order's state has retained (`WorkFollows`: the dispatch of a running attempt, the handoff with its dispatch, the failure that a retry continues); every dispatch rests on handoffs that are complete and earlier, its cause is the root, a handoff or a retried failure, and no two dispatches are of one attempt (`Chained`); and what the scan has established for the rest of its round (`LoopFollows`). No stall: of the orders left, one depends on none of the others, since what its dependency reaches is strictly less than what it reaches itself; and the first of the ready orders has a slot. The reservations: a checked total that did not overflow is the sum, and the dispatches fit into the pairs of an order and one of its attempts |
| `Orchestration_proofs`, the planner | `JournalIsSound` | what a caller holds at each point is the journal's (`CallersStand`), a preparation has its reservation and its execution to itself (`PreparedOnce`), and one caller acts on it, before its call is counted (`CallsAwait`) |
| `Orchestration_proofs`, the plan | `PlanIsSound`, `TurnsKeepHistory`, for turns that decoding yields (`TurnsAreDecoded`) | identities name a revision that exists (`IdsFollow`) and the checks of the last turn still hold however the dispatcher moves the orders (`PlanChecked`). The live orders are closed under what they wait for, so what a live order waits for is alive; the orders from which an order reaches itself would form the ring the cycle check excludes |

The inductive invariants were checked with TLC on the runs' instances too, most before
they were proved. Two were not inductive as first written: the write lane's
account of a failed acquisition counts faults, because a failure that follows
another may leave a registered worktree; and the child lane needs that a call
in flight was given out by an epoch not later than the present one, or a new
epoch could give it out again.

Only model-checked, and why:

* all liveness (`RunsEnd`, `WaiterIsServed`, `RunsAreDispatched`,
  `EffectsAndCancellationsSettle`, `WorkSettles`): fairness is out of the
  prover's reach;
* what the recursive walks, folds and projections compute (`RepositoryWalk`,
  `Utf8Projection`, `StoreUpgrade`): induction over data is too, as far as it
  needs a recursive operator or a theorem about operators. What
  `ActorGraphExecutor` adds up along a graph and verifies along a chain of
  dispatches is a recursive function over positions, and is proved, by the
  first position at which it would fail (`Least`);
* the invariants of `PlannerTurnLog`, `ChildTurns`, `RepositoryReview`,
  `StoreOpening`, `RouterExecution` and `PlannerPrompt`, for which no proof has
  been written yet.

## Not modelled

The parts with status `not_modelled` in `PROJECT.json`, with the reason there.
In the modelled parts: SQL errors other than a failed phase, artifact
corruption, the legacy protocol-v4 path, file permissions,
and the contents of prompts, plans and reviews. In `SnapshotLifecycle` the version
of the source only moves forward: an edit that is reverted while the copy runs,
which the comparison of manifests (`manifest.rs:39`) would not see, is left out.
`LeasedIsOneVersion` is therefore about edits that last; the lease is tied to the
manifest of the mounted image whatever the source went through.

