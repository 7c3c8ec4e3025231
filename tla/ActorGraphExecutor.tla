------------------------- MODULE ActorGraphExecutor -------------------------
(***************************************************************************)
(* ActorGraphExecutor::execute (crates/orchestrator/src/actor_graph.rs):   *)
(* the scheduler loop, the work-order futures it polls, their retries and  *)
(* timeouts, and the journal every boundary is retained in first.          *)
(*                                                                         *)
(* A journal record's id is its position.  An attempt of order o is the    *)
(* number of the attempt; the actor and the execution of o are o itself,   *)
(* within the run whose GraphAccepted record is `root'.                    *)
(*                                                                         *)
(* A graph is a sequence of work orders, as the planner proposes it, and   *)
(* is first validated against a trusted policy; ids are naturals in the    *)
(* order of the code's UUIDs.  Free text, digests and lineages are opaque: *)
(* what two orders must share is their `contract', an ill-formed text or   *)
(* digest is the contract Blank, and a lineage is its independence domain. *)
(***************************************************************************)
EXTENDS Integers, Sequences, SequencesExt, FiniteSetsExt

CONSTANTS
    Blank,            \* an empty, overlong or malformed text or digest
    NoGroup,          \* candidate_group = None
    MaxU64,           \* u64::MAX
    HardMaxOrders,    \* HARD_MAX_WORK_ORDERS
    HardMaxLinks,     \* HARD_MAX_DEPENDENCIES = HARD_MAX_REVIEWS
    Graphs,           \* the planner's proposals
    Policies          \* the trusted policies they are validated against

ASSUME LimitsAreNatural == MaxU64 \in Nat /\ HardMaxOrders \in Nat /\ HardMaxLinks \in Nat
\* the integers of the code are unsigned
ASSUME ProposalsAreUnsigned ==
    /\ \A g \in Graphs : /\ Len(g) \in Nat /\ DOMAIN g = 1..Len(g)
                          /\ \A i \in DOMAIN g : {g[i].id, g[i].priority, g[i].attempts, g[i].tokens,
                                                   g[i].wall, g[i].cleanup} \subseteq Nat
    /\ \A p \in Policies : {p.parallel, p.attempts, p.tokens, p.wall} \subseteq Nat

Accesses == {"ReadOnly", "Write"}
\* WorkspaceSourceBinding: a brokered snapshot or a clean Git commit
Sources == {"Snapshot", "Git"}
SupportsWrite(source) == source = "Git"
Permits(parent, child) == parent = "Write" \/ child = "ReadOnly"

Ids(g) == {g[i].id : i \in DOMAIN g}
\* the BTreeMap `orders': of two orders with one id the later wins
Order(g, id) == g[Max({i \in DOMAIN g : g[i].id = id})]

-----------------------------------------------------------------------------
\* structural_limit_violations: collection sizes, before anything is walked
StructureBounded(g) ==
    /\ Len(g) <= HardMaxOrders
    /\ \A i \in DOMAIN g : /\ Cardinality(g[i].dependencies) <= HardMaxLinks
                           /\ Cardinality(g[i].reviews) <= HardMaxLinks

\* graph_violations, first part: what only the policy and the root decide
PolicyValid(p) ==
    /\ \A l \in DOMAIN p.leases : p.leases[l].access = "Write" => SupportsWrite(p.leases[l].source)
    /\ \A m \in DOMAIN p.profiles : p.profiles[m] # Blank
    /\ p.parallel > 0
RootValid(g, p) ==
    /\ g # <<>> /\ Len(g) <= p.orders
    /\ IsInjective([i \in DOMAIN g |-> g[i].id])

\* one work order: texts, budget, authority and workspace lease
TextsValid(o) == o.contract # Blank
BudgetValid(o) == o.attempts > 0 /\ o.wall > 0 /\ o.cleanup > 0
AssignmentValid(o, p) == o.profile \in DOMAIN p.profiles /\ p.profiles[o.profile] = o.domain
AuthorityValid(o, p) == o.capabilities \subseteq p.root
LeaseValid(o, p) ==
    /\ o.lease \in DOMAIN p.leases
    /\ p.leases[o.lease].source = o.source
    /\ Permits(p.leases[o.lease].access, o.access)
\* an order may be attempted again only if it cannot have written
WriteValid(o) == o.access = "Write" => SupportsWrite(o.source) /\ o.attempts = 1 /\ o.reviews = {}

\* lease_uses: (number of users, whether one of them writes)
LeaseUsers(g, l) == {i \in DOMAIN g : g[i].lease = l}
LeasesExclusive(g) ==
    \A i \in DOMAIN g : Cardinality(LeaseUsers(g, g[i].lease)) > 1
        => \A j \in LeaseUsers(g, g[i].lease) : g[j].access # "Write"

-----------------------------------------------------------------------------
\* The second pass: edges between orders.
Targets(g) == UNION {g[i].reviews : i \in DOMAIN g}      \* reviewed_targets
DependencyValid(g, o, d) ==
    /\ d # o.id /\ d \in Ids(g)
    /\ Order(g, d).reviews = {}
    /\ d \in Targets(g) => d \in o.reviews
ReviewValid(g, o, t) ==
    /\ t \in Ids(g) /\ t \in o.dependencies
    /\ o.domain # Order(g, t).domain
EdgesValid(g) == \A i \in DOMAIN g :
    /\ \A d \in g[i].dependencies : DependencyValid(g, g[i], d)
    /\ \A t \in g[i].reviews : ReviewValid(g, g[i], t)

Known(g, id) == Order(g, id).dependencies \cap Ids(g)
\* dependency_reachable: in whatever holds the dependencies of `from' and of all it holds
Reachable(g, from, target) ==
    \A visited \in SUBSET Ids(g) :
        (\A id \in visited \cup {from} : Known(g, id) \subseteq visited) => target \in visited
\* dependency_cycle
Cyclic(g) == \E id \in Ids(g) : Reachable(g, id, id)

\* candidate groups: peers compete on one contract, blind to one another
Peers(g, o) == {i \in DOMAIN g : g[i].group = o.group}
SameContract(a, b) ==
    /\ a.contract = b.contract /\ a.attempts = b.attempts /\ a.tokens = b.tokens
    /\ a.wall = b.wall /\ a.cleanup = b.cleanup
    /\ a.capabilities = b.capabilities /\ a.access = b.access
    /\ a.dependencies = b.dependencies /\ a.reviews = b.reviews
CandidatesValid(g, o) ==
    /\ Cardinality(Peers(g, o)) >= 2
    /\ \A i \in Peers(g, o) : g[i].id # o.id =>
        /\ ~Reachable(g, o.id, g[i].id)
        /\ g[i].source = o.source
        /\ SameContract(g[i], o)
        /\ g[i].lease # o.lease

-----------------------------------------------------------------------------
\* Totals: checked u64 arithmetic; an overflow saturates and is remembered.
Exactly(n) == [sum |-> n, overflow |-> FALSE]
Saturated(x) == IF x > MaxU64 THEN MaxU64 ELSE x
CheckedAdd(a, b) ==
    [sum |-> Saturated(a.sum + b.sum), overflow |-> a.overflow \/ b.overflow \/ a.sum + b.sum > MaxU64]
CheckedMul(a, n) ==
    [sum |-> Saturated(a.sum * n), overflow |-> a.overflow \/ a.sum * n > MaxU64]
\* what the orders ask for, added one after the other
Total(asked) ==
    LET total[i \in 0..Len(asked)] == IF i = 0 THEN Exactly(0) ELSE CheckedAdd(total[i - 1], asked[i])
    IN  total[Len(asked)]
TotalAttempts(g) == Total([i \in DOMAIN g |-> Exactly(g[i].attempts)])
TotalTokens(g) == Total([i \in DOMAIN g |-> CheckedMul(Exactly(g[i].tokens), g[i].attempts)])
TotalWall(g) ==
    Total([i \in DOMAIN g |-> CheckedMul(CheckedAdd(Exactly(g[i].wall), Exactly(g[i].cleanup)), g[i].attempts)])
Within(t, limit) == ~t.overflow /\ t.sum <= limit
BudgetsFit(g, p) ==
    /\ Within(TotalAttempts(g), p.attempts)
    /\ Within(TotalTokens(g), p.tokens)
    /\ Within(TotalWall(g), p.wall)

\* ActorGraph::validate_against succeeds
Valid(g, p) ==
    /\ StructureBounded(g)
    /\ PolicyValid(p) /\ RootValid(g, p)
    /\ \A i \in DOMAIN g :
        /\ TextsValid(g[i]) /\ BudgetValid(g[i])
        /\ AssignmentValid(g[i], p) /\ AuthorityValid(g[i], p)
        /\ LeaseValid(g[i], p) /\ WriteValid(g[i])
    /\ LeasesExclusive(g)
    /\ EdgesValid(g)
    /\ \A i \in DOMAIN g : g[i].group # NoGroup => CandidatesValid(g, g[i])
    /\ ~Cyclic(g)
    /\ BudgetsFit(g, p)

-----------------------------------------------------------------------------
(* The executor                                                            *)

VARIABLES
    graph, policy,    \* the proposal and its policy
    phase,            \* where the call of execute is
    loop,             \* the place in its loop: "scan", "block", "fill" or "await"
    progress,         \* made_progress
    blocking,         \* orders still to block in this round
    work,             \* per order: its future and its terminal
    unproven,         \* cleanup_unproven
    journal, root

vars == <<graph, policy, phase, loop, progress, blocking, work, unproven, journal, root>>
input == <<graph, policy, root>>

Ended == {"Finished", "Suspended", "JournalError", "Invariant", "Rejected"}
Orders == Ids(graph)
\* WorkOrderFailure: "Attempt" stands for Worker, InvalidWorkerFailure, UsageViolation, InvalidHandoff
\* and DeadlineExceeded, which end the order alike
Failures == {"Attempt", "Incomplete", "Unproven", "Dependency"}
Fresh == [state |-> "pending", attempt |-> 0, parent |-> 0, dispatched |-> 0, terminal |-> 0, failure |-> "none"]

Init ==
    /\ graph \in Graphs /\ policy \in Policies
    /\ phase = "Proposed" /\ loop = "scan" /\ progress = FALSE
    /\ blocking = {} /\ unproven = {} /\ root = 0
    \* a journal that may hold an earlier, interrupted run of the same graph
    /\ journal \in {<<>>, <<[type |-> "GraphAccepted", parent |-> 0]>>}
    /\ work = [id \in Orders |-> Fresh]

-----------------------------------------------------------------------------
In(state) == {o \in Orders : work[o].state = state}
Pending == In("pending")
Active == UNION {In(s) : s \in {"starting", "executing", "cleanup"}}
Handoffs == In("handoff")                           \* incomplete ones included
Failed == {o \in Orders : work[o].failure # "none"}
NextId == Len(journal) + 1                           \* the id of the next record
Retain(record) == journal' = Append(journal, record)
\* journal.retain rejects: execute returns and drops its futures
JournalFails ==
    /\ phase' = "JournalError"
    /\ UNCHANGED <<input, loop, progress, blocking, work, unproven, journal>>

\* the first value of a BTreeMap keyed by work order
FirstTerminal(orders) == work[Min(orders)].terminal

\* validate_against, then GraphAccepted
Accept ==
    /\ phase = "Proposed"
    /\ \/ /\ ~Valid(graph, policy)
          /\ phase' = "Rejected"
          /\ UNCHANGED <<journal, root>>
       \/ /\ Valid(graph, policy)
          /\ phase' = "Running" /\ root' = NextId
          /\ Retain([type |-> "GraphAccepted", parent |-> 0])
    /\ UNCHANGED <<graph, policy, loop, progress, blocking, work, unproven>>

\* Top of the loop.  While a cleanup is unproven nothing new is dispatched: what runs is drained.
Suspend ==
    /\ phase = "Running" /\ loop = "scan" /\ unproven # {} /\ Active = {}
    /\ \/ /\ Retain([type |-> "GraphSuspended", parent |-> FirstTerminal(unproven)])
          /\ phase' = "Suspended"
          /\ UNCHANGED <<input, loop, progress, blocking, work, unproven>>
       \/ JournalFails
Drain ==
    /\ phase = "Running" /\ loop = "scan" /\ unproven # {} /\ Active # {}
    /\ loop' = "await"
    /\ UNCHANGED <<input, phase, progress, blocking, work, unproven, journal>>

FailedDependencies(o) == Order(graph, o).dependencies \cap Failed
Scan ==
    /\ phase = "Running" /\ loop = "scan" /\ unproven = {}
    /\ blocking' = {o \in Pending : FailedDependencies(o) # {}}
    /\ progress' = (blocking' # {})
    /\ loop' = IF blocking' = {} THEN "fill" ELSE "block"
    /\ UNCHANGED <<input, phase, work, unproven, journal>>

Block ==
    /\ phase = "Running" /\ loop = "block"
    /\ \/ LET o == Min(blocking) IN
          /\ Retain([type |-> "WorkOrderBlocked", order |-> o, parent |-> FirstTerminal(FailedDependencies(o))])
          /\ work' = [work EXCEPT ![o].state = "failed", ![o].failure = "Dependency", ![o].terminal = NextId]
          /\ blocking' = blocking \ {o}
          /\ loop' = IF blocking' = {} THEN "fill" ELSE "block"
          /\ UNCHANGED <<input, phase, progress, unproven>>
       \/ JournalFails

Ready == {o \in Pending : Order(graph, o).dependencies \subseteq Handoffs}
Before(a, b) ==
    LET p(o) == Order(graph, o).priority IN p(a) > p(b) \/ (p(a) = p(b) /\ a < b)
Slots == Max({0, policy.parallel - Cardinality(Active)})
\* ready.sort_by(priority descending, id).take(slots)
Started == {o \in Ready : Cardinality({r \in Ready : Before(r, o)}) < Slots}
DependencyEvents(o) == [d \in Order(graph, o).dependencies |-> work[d].terminal]
\* the causal parent of a first attempt
FirstParent(o) ==
    LET deps == Order(graph, o).dependencies IN IF deps = {} THEN root ELSE FirstTerminal(deps)

Fill ==
    /\ phase = "Running" /\ loop = "fill"
    /\ work' = [o \in Orders |-> IF o \in Started
                                 THEN [Fresh EXCEPT !.state = "starting", !.attempt = 1, !.parent = FirstParent(o)]
                                 ELSE work[o]]
    /\ progress' = (progress \/ Started # {})
    /\ IF Active \cup Started # {} THEN loop' = "await" /\ UNCHANGED phase
       ELSE IF Pending = {} THEN loop' = "finish" /\ UNCHANGED phase
       ELSE IF progress' THEN loop' = "scan" /\ UNCHANGED phase
       ELSE phase' = "Invariant" /\ UNCHANGED loop
    /\ UNCHANGED <<input, blocking, unproven, journal>>

Outcome == IF Failed = {} /\ Handoffs = Orders THEN "Completed" ELSE "Failed"
Finish ==
    /\ phase = "Running" /\ loop = "finish"
    /\ \/ /\ Retain([type |-> "GraphFinished", parent |-> FirstTerminal(Orders), outcome |-> Outcome,
                     terminals |-> [o \in Orders |-> work[o].terminal]])
          /\ phase' = "Finished"
          /\ UNCHANGED <<input, loop, progress, blocking, work, unproven>>
       \/ JournalFails

-----------------------------------------------------------------------------
\* run_work_order, polled while the loop awaits.

Polled(o, state) == phase = "Running" /\ loop = "await" /\ o \in In(state)
Calm == UNCHANGED <<input, phase, progress, blocking>>

Dispatch(o) ==
    /\ Polled(o, "starting")
    /\ \/ /\ Retain([type |-> "AttemptDispatched", order |-> o, attempt |-> work[o].attempt,
                     retryOf |-> work[o].attempt - 1, parent |-> work[o].parent,
                     root |-> root, deps |-> DependencyEvents(o)])
          /\ work' = [work EXCEPT ![o].state = "executing", ![o].dispatched = NextId]
          /\ Calm /\ UNCHANGED <<loop, unproven>>
       \/ JournalFails

AttemptFailed(o, failure, retry) ==
    [type |-> "AttemptFailed", order |-> o, attempt |-> work[o].attempt, parent |-> work[o].dispatched,
     failure |-> failure, retry |-> retry]
\* mutant: an unproven cleanup is an ordinary failure
ApplyFailedUnguarded(o, failure) ==
    /\ work' = [work EXCEPT ![o].state = "failed", ![o].failure = failure, ![o].terminal = NextId]
    /\ unproven' = unproven
    /\ loop' = "scan"
\* apply_terminal(WorkOrderTerminal::Failed)
ApplyFailed(o, failure) ==
    /\ work' = [work EXCEPT ![o].state = "failed", ![o].failure = failure, ![o].terminal = NextId]
    /\ unproven' = IF failure = "Unproven" THEN unproven \cup {o} ELSE unproven
    /\ loop' = "scan"
Fail(o, failure) == Retain(AttemptFailed(o, failure, FALSE)) /\ ApplyFailed(o, failure) /\ Calm

\* usage_violation; "None" is a provider that reports no usage
Tokens == {"None", "Within", "Over"}
UsageViolated(tokens, reported) == (reported /\ tokens = "None") \/ tokens = "Over"
Completions == [outcome : {"Completed", "Partial"}, wellFormed : BOOLEAN, evidence : BOOLEAN, tokens : Tokens]
\* handoff_violations
HandoffViolated(c) == ~c.wellFormed \/ (c.outcome = "Completed" /\ ~c.evidence)
\* apply_terminal(WorkOrderTerminal::Handoff): an incomplete one is a handoff and a failure
ApplyHandoff(o, outcome) ==
    /\ work' = [work EXCEPT ![o].state = "handoff", ![o].terminal = NextId,
                            ![o].failure = IF outcome = "Completed" THEN "none" ELSE "Incomplete"]
    /\ loop' = "scan"
    /\ UNCHANGED unproven

Complete(o) ==
    /\ Polled(o, "executing")
    /\ \/ \E c \in Completions :
            IF HandoffViolated(c) \/ UsageViolated(c.tokens, policy.reported) THEN Fail(o, "Attempt")
            ELSE /\ Retain([type |-> "HandoffRetained", order |-> o, attempt |-> work[o].attempt,
                            parent |-> work[o].dispatched, outcome |-> c.outcome])
                 /\ ApplyHandoff(o, c.outcome)
                 /\ Calm
       \/ JournalFails

FailureReports == [kind : {"RetryableNoEffect", "Permanent"}, wellFormed : BOOLEAN, receipt : BOOLEAN, tokens : Tokens]
\* worker_failure_violations: a retryable failure must carry the receipt of its effect
FailureViolated(f) == ~f.wellFormed \/ (f.kind = "RetryableNoEffect" /\ ~f.receipt)
IsRetryable(o, f) ==
    /\ ~UsageViolated(f.tokens, FALSE)
    /\ f.kind = "RetryableNoEffect" /\ f.receipt
    /\ work[o].attempt < Order(graph, o).attempts
\* mutant: the next attempt keeps the causal parent of the first
RetryFrom(o) ==
    work' = [work EXCEPT ![o].state = "starting", ![o].attempt = @ + 1]
Retry(o) ==
    work' = [work EXCEPT ![o].state = "starting", ![o].attempt = @ + 1, ![o].parent = NextId]

WorkerFails(o) ==
    /\ Polled(o, "executing")
    /\ \/ \E f \in FailureReports :
            IF ~FailureViolated(f) /\ IsRetryable(o, f)
            THEN /\ Retain(AttemptFailed(o, "Attempt", TRUE))
                 /\ Retry(o)
                 /\ Calm /\ UNCHANGED <<loop, unproven>>
            ELSE Fail(o, "Attempt")
       \/ JournalFails

\* mutant: a worker that does not answer is waited for
TimeoutDisarmed(o) == Polled(o, "executing") /\ FALSE /\ UNCHANGED vars
\* max_wall_time_ms elapses
Timeout(o) ==
    /\ Polled(o, "executing")
    /\ work' = [work EXCEPT ![o].state = "cleanup"]
    /\ Calm /\ UNCHANGED <<loop, unproven, journal>>
\* cancel_and_cleanup returns a receipt, none or an invalid one, or runs into max_cleanup_time_ms
CleanUp(o) ==
    /\ Polled(o, "cleanup")
    /\ (\E failure \in {"Attempt", "Unproven"} : Fail(o, failure)) \/ JournalFails

-----------------------------------------------------------------------------
Loop == Accept \/ Suspend \/ Drain \/ Scan \/ Block \/ Fill \/ Finish
Poll(o) == Dispatch(o) \/ Complete(o) \/ WorkerFails(o) \/ Timeout(o) \/ CleanUp(o)
Next == Loop \/ \E o \in Orders : Poll(o)
Spec == Init /\ [][Next]_vars
\* The loop and its futures are polled, and timers fire; a worker need never answer.
FairSpec ==
    /\ Spec
    /\ WF_vars(Loop)
    /\ WF_vars(\E o \in Orders : Dispatch(o) \/ Timeout(o) \/ CleanUp(o))

-----------------------------------------------------------------------------
\* verify_dispatch: what a worker asks of the journal before it acts on a dispatch.

Preceding(event, position) == event \in 1..(position - 1)          \* preceding_record
\* verify_graph_root_record
RootRecord(j, r) == r \in DOMAIN j /\ j[r].type = "GraphAccepted"
DispatchRecord(j, r, n, o, attempt) ==
    /\ j[n].type = "AttemptDispatched" /\ j[n].root = r
    /\ j[n].order = o /\ j[n].attempt = attempt
\* record n retries the attempt whose failure is its causal parent
RetryRecord(j, r, n) ==
    LET f == j[n].parent IN
    /\ Preceding(f, n)
    /\ j[f].type = "AttemptFailed" /\ j[f].order = j[n].order /\ j[f].attempt = j[n].retryOf /\ j[f].retry
    /\ Preceding(j[f].parent, f)
    /\ DispatchRecord(j, r, j[f].parent, j[n].order, j[n].retryOf)
    /\ j[j[f].parent].deps = j[n].deps
\* record n consumes the completed handoff of order d, which a dispatch of d produced (verify_dependency_producer)
DependencyRecord(j, r, n, d) ==
    LET h == j[n].deps[d] IN
    /\ Preceding(h, n)
    /\ j[h].type = "HandoffRetained" /\ j[h].order = d /\ j[h].outcome = "Completed"
    /\ Preceding(j[h].parent, h)
    /\ DispatchRecord(j, r, j[h].parent, d, j[h].attempt)
\* verify_full_dispatch_ancestry: record n and every dispatch it descends from
Ancestry(j, r) ==
    LET Ok[n \in DOMAIN j] ==
            /\ j[n].type = "AttemptDispatched" /\ j[n].root = r
            /\ IF j[n].retryOf # 0 THEN RetryRecord(j, r, n) /\ Ok[j[j[n].parent].parent]
               ELSE IF DOMAIN j[n].deps = {} THEN j[n].parent = r /\ Preceding(r, n)
               ELSE /\ j[n].parent = j[n].deps[Min(DOMAIN j[n].deps)]
                    /\ IsInjective(j[n].deps)
                    /\ \A d \in DOMAIN j[n].deps : DependencyRecord(j, r, n, d) /\ Ok[j[j[n].deps[d]].parent]
    IN  Ok
\* the records that dispatch attempt k of order o in this run (unique_dispatch_record_for_attempt)
DispatchRecords(o, k) == {n \in DOMAIN journal :
    journal[n].type = "AttemptDispatched" /\ DispatchRecord(journal, root, n, o, k)}
VerifyDispatch(o) ==
    /\ RootRecord(journal, root)
    /\ \E n \in DOMAIN journal :
        /\ DispatchRecords(o, work[o].attempt) = {n}
        /\ journal[n].retryOf = work[o].attempt - 1
        /\ journal[n].deps = DependencyEvents(o)
        /\ Ancestry(journal, root)[n]

-----------------------------------------------------------------------------
\* Properties

TypeOK ==
    /\ phase \in {"Proposed", "Running"} \cup Ended
    /\ loop \in {"scan", "block", "fill", "await", "finish"}
    /\ progress \in BOOLEAN /\ blocking \subseteq Orders /\ unproven \subseteq Orders
    /\ root \in 0..Len(journal)
    /\ \A o \in Orders :
        /\ work[o].state \in {"pending", "starting", "executing", "cleanup", "handoff", "failed"}
        /\ work[o].failure \in Failures \cup {"none"}
        /\ work[o].attempt \in 0..Order(graph, o).attempts
        /\ {work[o].parent, work[o].dispatched, work[o].terminal} \subseteq 0..Len(journal)

\* Whatever else the journal has come to hold, a worker that is executing an attempt finds its
\* dispatch verifiable: run_work_order chains retries and dependencies the way verify_dispatch walks them.
DispatchesVerify == phase = "Running" => \A o \in In("executing") \cup In("cleanup") : VerifyDispatch(o)

\* A validated graph never stalls: execute cannot return SchedulerInvariant.
NeverStalls == phase # "Invariant"

DispatchedIn(j) == {n \in DOMAIN j : j[n].type = "AttemptDispatched"}
\* A lease that is written is used by one attempt of one order, in the whole run.
WriterIsAlone ==
    \A m, n \in DispatchedIn(journal) :
        LET a == Order(graph, journal[m].order)
            b == Order(graph, journal[n].order)
        IN  (m # n /\ a.lease = b.lease) => "Write" \notin {a.access, b.access}

\* The scheduler keeps within what the policy reserved: orders in flight, and attempts in all.
WithinReservations ==
    /\ Cardinality(Active) <= policy.parallel
    /\ Cardinality(DispatchedIn(journal)) <= policy.attempts

\* dispatches the dispatch n descends from
Ancestors(j, n) == {m \in DispatchedIn(j) : Reachable(graph, j[n].order, j[m].order)}
\* Only its reviewer, of another independence domain, is ever given the work of a reviewed order;
\* and no candidate is dispatched on anything that saw a competing candidate.
ReviewsAndCandidatesAreBlind ==
    \A n \in DispatchedIn(journal) :
        LET o == Order(graph, journal[n].order) IN
        /\ \A t \in DOMAIN journal[n].deps \cap Targets(graph) : t \in o.reviews /\ Order(graph, t).domain # o.domain
        /\ o.group # NoGroup =>
             \A m \in Ancestors(journal, n) : Order(graph, journal[m].order).group # o.group

\* What GraphFinished reports is what the journal holds: the terminal of every order, and Completed
\* only if each of them is a retained completed handoff.
FinishIsAccurate == phase = "Finished" =>
    LET report == Last(journal) IN
    /\ \A o \in Orders : report.terminals[o] # 0 /\ journal[report.terminals[o]].order = o
    /\ report.outcome = "Completed" <=>
         \A o \in Orders : LET t == journal[report.terminals[o]]
                           IN  t.type = "HandoffRetained" /\ t.outcome = "Completed"

\* Once a cleanup is unproven no order is begun, and the run can only be suspended.
UnprovenStopsDispatch ==
    [][(\E n \in DOMAIN journal : journal[n].type = "AttemptFailed" /\ journal[n].failure = "Unproven")
         => Pending' = Pending /\ phase' \in {"Running", "Suspended", "JournalError"}]_vars

\* An accepted graph's run ends, even if no worker ever answers.
RunEnds == phase = "Running" ~> phase \in Ended

\* a sum without a width
SumOf(asked) ==
    LET sum[i \in 0..Len(asked)] == IF i = 0 THEN 0 ELSE sum[i - 1] + asked[i] IN sum[Len(asked)]
\* What an accepted graph can spend, computed without a width, is within the policy.
ReservationsAreReal == phase \notin {"Proposed", "Rejected"} =>
    /\ SumOf([i \in DOMAIN graph |-> graph[i].attempts]) <= policy.attempts
    /\ SumOf([i \in DOMAIN graph |-> graph[i].tokens * graph[i].attempts]) <= policy.tokens
    /\ SumOf([i \in DOMAIN graph |-> (graph[i].wall + graph[i].cleanup) * graph[i].attempts]) <= policy.wall

\* The invariants of a run of execute, together.
RunIsSound ==
    /\ TypeOK
    /\ DispatchesVerify
    /\ NeverStalls
    /\ WriterIsAlone
    /\ WithinReservations
    /\ ReviewsAndCandidatesAreBlind
    /\ FinishIsAccurate
    /\ ReservationsAreReal
=============================================================================

