------------------------ MODULE Orchestration_proofs ------------------------
(***************************************************************************)
(* The orchestrator crate: in ActorGraphExecutor an order whose cleanup    *)
(* was never proved ends dispatch, and a run of a graph is verifiable      *)
(* from its journal, within its reservations and never stalls; the         *)
(* planner's journal in PlannerExecution pays for one call per reservation *)
(* and holds what was returned; and a plan in PlanEvolution keeps its      *)
(* required work reachable and its history unambiguous.                    *)
(***************************************************************************)
EXTENDS ActorGraphExecutor, PlanEvolution, PlannerExecution, FiniteSetTheorems, WellFoundedInduction, TLAPS

-----------------------------------------------------------------------------
(* Sequences that grow at their end.                                       *)

(* A sequence, of whatever.                                                *)
IsSequence(s) == \E S : s \in Seq(S)

(* What appending leaves in place, and where it puts the element.          *)
LEMMA AppendGrows ==
    ASSUME NEW s, IsSequence(s), NEW e
    PROVE  /\ IsSequence(Append(s, e)) /\ Len(s) \in Nat
           /\ DOMAIN s = 1..Len(s) /\ DOMAIN Append(s, e) = 1..(Len(s) + 1)
           /\ Len(Append(s, e)) = Len(s) + 1
           /\ \A i \in 1..Len(s) : Append(s, e)[i] = s[i]
           /\ Append(s, e)[Len(s) + 1] = e
<1>1. PICK S : s \in Seq(S)
  BY DEF IsSequence
<1>2. s \in Seq(S \cup {e}) /\ e \in S \cup {e}
  BY <1>1
<1> QED BY <1>2 DEF IsSequence

-----------------------------------------------------------------------------
(* The actor graph executor.                                               *)

(* The failure of an order whose cleanup was never proved is retained.     *)
Reported == \E n \in DOMAIN journal : journal[n].type = "AttemptFailed" /\ journal[n].failure = "Unproven"
(* Where a run that saw such a failure may be.                             *)
Abated == {"Running", "Suspended", "JournalError"}

(* Nothing new is begun from here: what can begin an order, finish a run   *)
(* or start one over is at another place of the loop.                      *)
UnprovenInv ==
    /\ IsSequence(journal)
    /\ DOMAIN work = Orders /\ \A o \in Orders : "state" \in DOMAIN work[o]
    /\ Reported => unproven # {}
    /\ unproven # {} => phase \in Abated /\ (phase = "Running" => loop \in {"scan", "await"})

(* What a step does to the invariant once an unproven cleanup is known.    *)
Abides == UnprovenInv' /\ (Reported => Pending' = Pending /\ phase' \in Abated)

(* Nothing is retained yet, so nothing was reported.                       *)
LEMMA UnprovenStarts == Init => UnprovenInv
<1> SUFFICES ASSUME Init PROVE UnprovenInv
  OBVIOUS
<1>1. IsSequence(journal) /\ ~Reported
  <2>1. CASE journal = <<>>
    <3>1. journal \in Seq({})
      BY <2>1
    <3> QED BY <2>1, <3>1 DEF IsSequence, Reported
  <2>2. CASE journal = <<[type |-> "GraphAccepted", parent |-> 0]>>
    <3>1. journal \in Seq({[type |-> "GraphAccepted", parent |-> 0]})
      BY <2>2
    <3>2. \A n \in DOMAIN journal : journal[n].type = "GraphAccepted"
      BY <2>2
    <3> QED BY <3>1, <3>2 DEF IsSequence, Reported
  <2> QED BY <2>1, <2>2 DEF Init
<1> QED BY <1>1 DEF Init, UnprovenInv, Fresh

(* A record that is no such failure reports nothing.                       *)
LEMMA RetainReports ==
    ASSUME UnprovenInv, NEW record, Retain(record),
           record.type = "AttemptFailed" => record.failure # "Unproven"
    PROVE  IsSequence(journal)' /\ (Reported' => Reported)
<1>1. /\ journal' = Append(journal, record) /\ IsSequence(journal)
  BY DEF Retain, UnprovenInv
<1>2. IsSequence(journal')
  BY <1>1, AppendGrows
<1>3. \A n \in DOMAIN journal' : \/ n \in DOMAIN journal /\ journal'[n] = journal[n]
                               \/ journal'[n] = record
  BY <1>1, AppendGrows
<1> QED BY <1>2, <1>3 DEF Reported

(* A step of one order that is under way leaves what is pending.           *)
LEMMA WorkMoves ==
    ASSUME UnprovenInv, NEW o \in Orders, work[o].state # "pending", UNCHANGED graph,
           NEW r, work' = [work EXCEPT ![o] = r], "state" \in DOMAIN r, r.state # "pending"
    PROVE  /\ (DOMAIN work = Orders)' /\ (\A p \in Orders : "state" \in DOMAIN work[p])'
           /\ Pending' = Pending
BY DEF UnprovenInv, Pending, In, Orders

(* A step that retains nothing new of the kind, moves at most one order    *)
(* that is under way, and keeps unproven.                                  *)
LEMMA StepAbides ==
    ASSUME UnprovenInv, UNCHANGED <<graph, unproven>>,
           UNCHANGED journal \/ \E record : Retain(record) /\ (record.type = "AttemptFailed" => record.failure # "Unproven"),
           \/ UNCHANGED work
           \/ \E o \in Orders : \E r : /\ work[o].state # "pending" /\ work' = [work EXCEPT ![o] = r]
                                        /\ "state" \in DOMAIN r /\ r.state # "pending",
           unproven # {} => phase' \in Abated /\ (phase' = "Running" => loop' \in {"scan", "await"})
    PROVE  Abides
<1>1. IsSequence(journal)' /\ (Reported' => Reported)
  <2>1. CASE UNCHANGED journal
    BY <2>1 DEF Reported, UnprovenInv
  <2> QED BY <2>1, RetainReports
<1>2. /\ (DOMAIN work = Orders)' /\ (\A p \in Orders : "state" \in DOMAIN work[p])'
      /\ Pending' = Pending
  <2>1. CASE UNCHANGED work
    BY <2>1 DEF Pending, In, Orders, UnprovenInv
  <2> QED BY <2>1, WorkMoves
<1> QED BY <1>1, <1>2 DEF Abides, UnprovenInv

(* A failing journal ends the run.                                         *)
LEMMA JournalFailsAbides == ASSUME UnprovenInv, phase = "Running", JournalFails PROVE Abides
<1>1. UNCHANGED <<graph, unproven, journal, work>> /\ phase' = "JournalError"
  BY DEF JournalFails, input
<1> QED BY <1>1, StepAbides DEF Abated

(* The loop.                                                               *)
LEMMA LoopAbides == ASSUME UnprovenInv, Loop PROVE Abides
<1>1. CASE Accept
  <2>1. unproven = {} /\ UNCHANGED <<graph, work, unproven>>
    BY <1>1 DEF Accept, UnprovenInv, Abated
  <2>2. UNCHANGED journal \/ Retain([type |-> "GraphAccepted", parent |-> 0])
    BY <1>1 DEF Accept
  <2> QED BY <2>1, <2>2, StepAbides
<1>2. CASE Suspend
  <2>1. CASE JournalFails
    BY <1>2, <2>1, JournalFailsAbides DEF Suspend
  <2>2. CASE /\ Retain([type |-> "GraphSuspended", parent |-> FirstTerminal(unproven)])
             /\ phase' = "Suspended"
             /\ UNCHANGED <<input, loop, progress, blocking, work, unproven>>
    BY <2>2, StepAbides DEF input, Abated
  <2> QED BY <1>2, <2>1, <2>2 DEF Suspend
<1>3. CASE Drain
  <2>1. UNCHANGED <<graph, work, unproven, journal, phase>> /\ phase = "Running" /\ loop' = "await"
    BY <1>3 DEF Drain, input
  <2> QED BY <2>1, StepAbides DEF Abated
<1>4. CASE Scan
  BY <1>4, StepAbides DEF Scan, input
<1>5. CASE Block
  <2>1. phase = "Running" /\ unproven = {}
    BY <1>5 DEF Block, UnprovenInv
  <2>2. CASE JournalFails
    BY <2>1, <2>2, JournalFailsAbides
  <2>3. CASE ~JournalFails
    <3> DEFINE o == Min(blocking)
    <3>1. /\ Retain([type |-> "WorkOrderBlocked", order |-> o, parent |-> FirstTerminal(FailedDependencies(o))])
          /\ work' = [work EXCEPT ![o].state = "failed", ![o].failure = "Dependency", ![o].terminal = NextId]
          /\ UNCHANGED <<input, phase, progress, unproven>>
      BY <1>5, <2>3 DEF Block
    <3>2. IsSequence(journal)' /\ (Reported' => Reported)
      BY <3>1, RetainReports
    <3>3. (DOMAIN work = Orders)' /\ (\A p \in Orders : "state" \in DOMAIN work[p])'
      BY <3>1 DEF UnprovenInv, Orders, input
    <3> QED BY <2>1, <3>1, <3>2, <3>3 DEF Abides, UnprovenInv
  <2> QED BY <2>2, <2>3
<1>6. CASE Fill
  <2>1. unproven = {} /\ UNCHANGED <<graph, unproven, journal>>
    BY <1>6 DEF Fill, UnprovenInv, input
  <2>2. (DOMAIN work = Orders)' /\ (\A p \in Orders : "state" \in DOMAIN work[p])'
    BY <1>6 DEF Fill, UnprovenInv, Orders, input, Fresh
  <2> QED BY <2>1, <2>2 DEF Abides, UnprovenInv, Reported
<1>7. CASE Finish
  <2>1. phase = "Running" /\ unproven = {}
    BY <1>7 DEF Finish, UnprovenInv
  <2>2. CASE JournalFails
    BY <2>1, <2>2, JournalFailsAbides
  <2>3. CASE ~JournalFails
    <3>1. /\ Retain([type |-> "GraphFinished", parent |-> FirstTerminal(Orders), outcome |-> Outcome,
                     terminals |-> [o \in Orders |-> work[o].terminal]])
          /\ UNCHANGED <<graph, work, unproven>>
      BY <1>7, <2>3 DEF Finish, input
    <3> QED BY <2>1, <3>1, StepAbides
  <2> QED BY <2>2, <2>3
<1> QED BY <1>1, <1>2, <1>3, <1>4, <1>5, <1>6, <1>7 DEF Loop

(* An order that ends with a failure.                                      *)
LEMMA FailAbides ==
    ASSUME UnprovenInv, NEW o \in Orders, phase = "Running", work[o].state # "pending",
           NEW failure, Fail(o, failure)
    PROVE  Abides
<1> DEFINE record == AttemptFailed(o, failure, FALSE)
           r == [work[o] EXCEPT !.state = "failed", !.failure = failure, !.terminal = NextId]
<1>1. /\ Retain(record) /\ record.type = "AttemptFailed" /\ record.failure = failure
      /\ UNCHANGED <<graph, phase>> /\ loop' = "scan"
      /\ unproven' = IF failure = "Unproven" THEN unproven \cup {o} ELSE unproven
  BY DEF Fail, ApplyFailed, AttemptFailed, Calm, input
<1>2. work' = [work EXCEPT ![o] = r] /\ "state" \in DOMAIN r /\ r.state # "pending"
  BY DEF Fail, ApplyFailed, UnprovenInv
<1>3. /\ (DOMAIN work = Orders)' /\ (\A p \in Orders : "state" \in DOMAIN work[p])'
      /\ Pending' = Pending
  BY <1>1, <1>2, WorkMoves
<1>4. CASE failure = "Unproven"
  <2>1. IsSequence(journal)' /\ unproven' # {}
    BY <1>1, <1>4, AppendGrows DEF Retain, UnprovenInv
  <2> QED BY <1>1, <1>3, <2>1 DEF Abides, UnprovenInv, Abated
<1>5. CASE failure # "Unproven"
  <2>1. IsSequence(journal)' /\ (Reported' => Reported)
    BY <1>1, <1>5, RetainReports
  <2> QED BY <1>1, <1>3, <1>5, <2>1 DEF Abides, UnprovenInv, Abated
<1> QED BY <1>4, <1>5

(* The work-order futures.                                                 *)
LEMMA PollAbides == ASSUME UnprovenInv, NEW o \in Orders, Poll(o) PROVE Abides
<1>1. /\ phase = "Running" /\ loop = "await" /\ work[o].state # "pending"
  BY DEF Poll, Dispatch, Complete, WorkerFails, Timeout, CleanUp, Polled, In
<1>2. CASE JournalFails
  BY <1>1, <1>2, JournalFailsAbides
<1>3. CASE Dispatch(o) /\ ~JournalFails
  <2> DEFINE record == [type |-> "AttemptDispatched", order |-> o, attempt |-> work[o].attempt,
                        retryOf |-> work[o].attempt - 1, parent |-> work[o].parent,
                        root |-> root, deps |-> DependencyEvents(o)]
             r == [work[o] EXCEPT !.state = "executing", !.dispatched = NextId]
  <2>1. /\ Retain(record) /\ UNCHANGED <<graph, phase, loop, unproven>>
        /\ work' = [work EXCEPT ![o] = r] /\ "state" \in DOMAIN r /\ r.state # "pending"
    BY <1>3 DEF Dispatch, Calm, input, UnprovenInv
  <2>2. record.type # "AttemptFailed"
    OBVIOUS
  <2> HIDE DEF record, r
  <2> QED BY <1>1, <2>1, <2>2, StepAbides DEF Abated
<1>4. CASE Complete(o) /\ ~JournalFails
  <2>1. CASE Fail(o, "Attempt")
    BY <1>1, <2>1, FailAbides
  <2>2. CASE \E c \in Completions :
               /\ Retain([type |-> "HandoffRetained", order |-> o, attempt |-> work[o].attempt,
                          parent |-> work[o].dispatched, outcome |-> c.outcome])
               /\ ApplyHandoff(o, c.outcome) /\ Calm
    <3>1. PICK c \in Completions :
               /\ Retain([type |-> "HandoffRetained", order |-> o, attempt |-> work[o].attempt,
                          parent |-> work[o].dispatched, outcome |-> c.outcome])
               /\ ApplyHandoff(o, c.outcome) /\ Calm
      BY <2>2
    <3> DEFINE record == [type |-> "HandoffRetained", order |-> o, attempt |-> work[o].attempt,
                          parent |-> work[o].dispatched, outcome |-> c.outcome]
               r == [work[o] EXCEPT !.state = "handoff", !.terminal = NextId,
                                    !.failure = IF c.outcome = "Completed" THEN "none" ELSE "Incomplete"]
    <3>2. /\ Retain(record) /\ UNCHANGED <<graph, phase, unproven>> /\ loop' = "scan"
          /\ work' = [work EXCEPT ![o] = r] /\ "state" \in DOMAIN r /\ r.state # "pending"
      BY <3>1 DEF ApplyHandoff, Calm, input, UnprovenInv
    <3>3. record.type # "AttemptFailed"
      OBVIOUS
    <3> HIDE DEF record, r
    <3> QED BY <1>1, <3>2, <3>3, StepAbides DEF Abated
  <2> QED BY <1>4, <2>1, <2>2 DEF Complete
<1>5. CASE WorkerFails(o) /\ ~JournalFails
  <2>1. CASE Fail(o, "Attempt")
    BY <1>1, <2>1, FailAbides
  <2>2. CASE Retain(AttemptFailed(o, "Attempt", TRUE)) /\ Retry(o) /\ Calm /\ UNCHANGED <<loop, unproven>>
    <3> DEFINE record == AttemptFailed(o, "Attempt", TRUE)
               r == [work[o] EXCEPT !.state = "starting", !.attempt = @ + 1, !.parent = NextId]
    <3>1. /\ Retain(record) /\ UNCHANGED <<graph, phase, loop, unproven>>
          /\ work' = [work EXCEPT ![o] = r] /\ "state" \in DOMAIN r /\ r.state # "pending"
      BY <2>2 DEF Retry, Calm, input, UnprovenInv
    <3>2. record.failure # "Unproven"
      BY DEF AttemptFailed
    <3> HIDE DEF record, r
    <3> QED BY <1>1, <3>1, <3>2, StepAbides DEF Abated
  <2> QED BY <1>5, <2>1, <2>2 DEF WorkerFails
<1>6. CASE Timeout(o)
  <2> DEFINE r == [work[o] EXCEPT !.state = "cleanup"]
  <2>1. /\ UNCHANGED <<graph, phase, loop, unproven, journal>>
        /\ work' = [work EXCEPT ![o] = r] /\ "state" \in DOMAIN r /\ r.state # "pending"
    BY <1>6 DEF Timeout, Calm, input, UnprovenInv
  <2> HIDE DEF r
  <2> QED BY <1>1, <2>1, StepAbides DEF Abated
<1>7. CASE CleanUp(o) /\ ~JournalFails
  BY <1>1, <1>7, FailAbides DEF CleanUp
<1> QED BY <1>2, <1>3, <1>4, <1>5, <1>6, <1>7 DEF Poll, Dispatch, Complete, WorkerFails, CleanUp

(* Once the journal holds the failure of a cleanup that was not proved     *)
(* (CleanupUnproven), execute begins no order any more, and what is left   *)
(* of its run is to be suspended or to lose its journal.                   *)
THEOREM UnprovenIsFinal == Spec => UnprovenStopsDispatch
<1>1. UnprovenInv /\ [Next]_vars => Abides
  <2> SUFFICES ASSUME UnprovenInv, [Next]_vars PROVE Abides
    OBVIOUS
  <2>1. CASE UNCHANGED vars
    BY <2>1 DEF vars, Abides, UnprovenInv, Reported, Pending, In, Orders, Abated
  <2> QED BY <2>1, LoopAbides, PollAbides DEF Next
<1>2. Abides => UnprovenInv' /\ (Reported => Pending' = Pending /\ phase' \in Abated)
  BY DEF Abides
<1>3. Spec => []UnprovenInv
  BY <1>1, <1>2, UnprovenStarts, PTL DEF Spec
<1>4. UnprovenInv /\ [Next]_vars =>
        [(\E n \in DOMAIN journal : journal[n].type = "AttemptFailed" /\ journal[n].failure = "Unproven")
           => Pending' = Pending /\ phase' \in {"Running", "Suspended", "JournalError"}]_vars
  BY <1>1, <1>2 DEF Reported, Abated
<1> QED BY <1>3, <1>4, PTL DEF Spec, UnprovenStopsDispatch
-----------------------------------------------------------------------------
(* Naturals and finite sets.                                               *)

(* The order of the naturals, as a relation.                               *)
Below == {p \in Nat \X Nat : p[1] < p[2]}

(* A set of naturals has a least member: how the induction over a sequence *)
(* is done here, on the first place where something fails.                 *)
LEMMA Least ==
    ASSUME NEW T, T \subseteq Nat, T # {}
    PROVE  /\ Min(T) \in T /\ \A y \in T : Min(T) <= y
           /\ Min(T) \in Nat
<1>1. IsWellFoundedOn(Below, Nat)
  BY NatLessThanWellFounded DEF OpToRel, Below
<1>2. PICK x \in T : \A y \in T : ~(<<y, x>> \in Below)
  BY <1>1, WFMin
<1>3. \A y \in T : x <= y
  <2>1. SUFFICES ASSUME NEW y \in T PROVE x <= y
    OBVIOUS
  <2>2. ~(y < x)
    BY <1>2 DEF Below
  <2> QED BY <2>2
<1> QED BY <1>3 DEF Min

(* A bounded one has a greatest.                                           *)
LEMMA Greatest ==
    ASSUME NEW n \in Nat, NEW T, T \subseteq 1..n, T # {}
    PROVE  Max(T) \in T /\ \A y \in T : Max(T) >= y
<1> DEFINE U == {n - x : x \in T}
<1>1. U \subseteq Nat /\ U # {}
  OBVIOUS
<1>2. Min(U) \in U /\ \A y \in U : Min(U) <= y
  BY <1>1, Least
<1>3. PICK x \in T : Min(U) = n - x
  BY <1>2
<1>4. \A y \in T : n - x <= n - y
  BY <1>2, <1>3
<1>5. \A y \in T : x >= y
  BY <1>4
<1> QED BY <1>5 DEF Max

(* The positions of a sequence, cut down.                                  *)
LEMMA FiniteDomain ==
    ASSUME NEW n \in Nat
    PROVE  IsFiniteSet(1..n) /\ Cardinality(1..n) = n
BY FS_Interval

(* The image of a finite set is finite.                                    *)
LEMMA FiniteImage ==
    ASSUME NEW S, NEW T, IsFiniteSet(S), NEW f \in [S -> T], \A t \in T : \E s \in S : f[s] = t
    PROVE  IsFiniteSet(T) /\ Cardinality(T) <= Cardinality(S)
<1>1. f \in Surjection(S, T)
  BY DEF Surjection
<1> QED BY <1>1, FS_Surjection

(* A set that a finite one has room for.                                   *)
LEMMA RoomFor ==
    ASSUME NEW S, NEW T, IsFiniteSet(T), NEW f \in [S -> T],
           \A a, b \in S : f[a] = f[b] => a = b
    PROVE  IsFiniteSet(S) /\ Cardinality(S) <= Cardinality(T)
<1>1. f \in Injection(S, T)
  BY DEF Injection, IsInjective
<1> QED BY <1>1, FS_Injection

-----------------------------------------------------------------------------
(* Graphs.                                                                 *)

(* A proposal is a sequence of orders with numbers.                        *)
LEMMA Unsigned ==
    ASSUME NEW g \in Graphs
    PROVE  /\ Len(g) \in Nat /\ DOMAIN g = 1..Len(g)
           /\ \A i \in DOMAIN g : /\ g[i].id \in Nat /\ g[i].priority \in Nat /\ g[i].attempts \in Nat
                                  /\ g[i].tokens \in Nat /\ g[i].wall \in Nat /\ g[i].cleanup \in Nat
BY ProposalsAreUnsigned

(* An identity stands for one of the graph's orders.                       *)
LEMMA OrderOf ==
    ASSUME NEW g \in Graphs, NEW id \in Ids(g)
    PROVE  /\ id \in Nat
           /\ \E i \in DOMAIN g : g[i].id = id /\ Order(g, id) = g[i]
<1> DEFINE T == {i \in DOMAIN g : g[i].id = id}
<1>1. T # {} /\ T \subseteq 1..Len(g) /\ Len(g) \in Nat
  BY Unsigned DEF Ids
<1>2. Max(T) \in T
  BY <1>1, Greatest
<1> QED BY <1>2, Unsigned DEF Order

(* In a valid graph it stands for only one.                                *)
LEMMA OrderAt ==
    ASSUME NEW g \in Graphs, NEW p, RootValid(g, p), NEW i \in DOMAIN g
    PROVE  g[i].id \in Ids(g) /\ Order(g, g[i].id) = g[i]
<1>1. g[i].id \in Ids(g)
  BY DEF Ids
<1>2. PICK j \in DOMAIN g : g[j].id = g[i].id /\ Order(g, g[i].id) = g[j]
  BY <1>1, OrderOf
<1>3. j = i
  <2> DEFINE f == [k \in DOMAIN g |-> g[k].id]
  <2>1. \A a, b \in DOMAIN f : f[a] = f[b] => a = b
    BY DEF RootValid, IsInjective
  <2> QED BY <1>2, <2>1
<1> QED BY <1>1, <1>2, <1>3

(* The identities are finitely many numbers.                               *)
LEMMA IdsAreFinite ==
    ASSUME NEW g \in Graphs
    PROVE  Ids(g) \subseteq Nat /\ IsFiniteSet(Ids(g))
<1> DEFINE f == [i \in 1..Len(g) |-> g[i].id]
<1>1. f \in [1..Len(g) -> Ids(g)] /\ \A id \in Ids(g) : \E i \in 1..Len(g) : f[i] = id
  BY Unsigned DEF Ids
<1>2. IsFiniteSet(1..Len(g))
  BY Unsigned, FiniteDomain
<1> HIDE DEF f
<1>3. IsFiniteSet(Ids(g))
  BY <1>1, <1>2, FiniteImage
<1> QED BY <1>3, OrderOf

(* What the valid graph's orders are.                                      *)
LEMMA ValidOrder ==
    ASSUME NEW g \in Graphs, NEW p, Valid(g, p), NEW id \in Ids(g)
    PROVE  LET o == Order(g, id) IN
           /\ \E i \in DOMAIN g : g[i] = o
           /\ o.id = id /\ o.attempts \in Nat \ {0} /\ o.priority \in Nat
           /\ o.access = "Write" => o.attempts = 1
           /\ \A d \in o.dependencies : DependencyValid(g, o, d)
           /\ \A t \in o.reviews : ReviewValid(g, o, t)
           /\ o.group # NoGroup => CandidatesValid(g, o)
           /\ o.dependencies \subseteq Ids(g)
<1>1. PICK i \in DOMAIN g : g[i].id = id /\ Order(g, id) = g[i]
  BY OrderOf
<1>2. /\ BudgetValid(g[i]) /\ WriteValid(g[i])
      /\ \A d \in g[i].dependencies : DependencyValid(g, g[i], d)
      /\ \A t \in g[i].reviews : ReviewValid(g, g[i], t)
      /\ g[i].group # NoGroup => CandidatesValid(g, g[i])
  BY DEF Valid, EdgesValid
<1>3. g[i].attempts \in Nat /\ g[i].priority \in Nat
  BY Unsigned
<1>4. g[i].attempts \in Nat \ {0} /\ (g[i].access = "Write" => g[i].attempts = 1)
  BY <1>2, <1>3 DEF BudgetValid, WriteValid
<1>5. g[i].dependencies \subseteq Ids(g)
  BY <1>2 DEF DependencyValid
<1> QED BY <1>1, <1>2, <1>3, <1>4, <1>5

(* Some order of any set of orders depends on none of them, unless the     *)
(* graph is cyclic: what is reachable from a dependency is less than what  *)
(* is reachable from the order.                                            *)
LEMMA SomeOrderIsFree ==
    ASSUME NEW g \in Graphs, ~Cyclic(g), NEW T, T \subseteq Ids(g), T # {}
    PROVE  \E x \in T : Known(g, x) \cap T = {}
<1> DEFINE S == Ids(g)
           Reach(x) == {y \in S : Reachable(g, x, y)}
           Sets == {Reach(x) : x \in T}
<1>1. \A x \in S : \A y \in Known(g, x) : y \in Reach(x) /\ Reach(y) \subseteq Reach(x)
  <2> SUFFICES ASSUME NEW x \in S, NEW y \in Known(g, x) PROVE y \in Reach(x) /\ Reach(y) \subseteq Reach(x)
    OBVIOUS
  <2>1. y \in S
    BY DEF Known
  <2>2. \A visited \in SUBSET S :
           (\A id \in visited \cup {x} : Known(g, id) \subseteq visited) =>
             y \in visited /\ \A id \in visited \cup {y} : Known(g, id) \subseteq visited
    OBVIOUS
  <2>3. Reachable(g, x, y)
    BY <2>2 DEF Reachable
  <2>4. \A z \in S : Reachable(g, y, z) => Reachable(g, x, z)
    BY <2>2 DEF Reachable
  <2> QED BY <2>1, <2>3, <2>4
<1>2. \A x \in S : x \notin Reach(x)
  BY DEF Cyclic
<1>3. IsWellFoundedOn(StrictSubsetOrdering(S), FiniteSubsetsOf(S))
  BY FS_StrictSubsetOrderingWellFounded
<1>4. Sets \subseteq FiniteSubsetsOf(S) /\ Sets # {}
  <2>1. IsFiniteSet(S)
    BY IdsAreFinite
  <2>2. FiniteSubsetsOf(S) = SUBSET S
    BY <2>1, FS_FiniteSubsetsOfFinite
  <2>3. \A x : Reach(x) \in SUBSET S
    OBVIOUS
  <2>4. Sets \subseteq SUBSET S /\ Sets # {}
    <3> HIDE DEF Reach
    <3> QED BY <2>3
  <2> QED BY <2>2, <2>4
<1>5. PICK R \in Sets : \A Q \in Sets : ~(<<Q, R>> \in StrictSubsetOrdering(S))
  BY <1>3, <1>4, WFMin
<1>6. PICK x \in T : R = Reach(x)
  BY <1>5
<1>7. ASSUME NEW y \in Known(g, x) \cap T PROVE FALSE
  <2>1. Reach(y) \subseteq Reach(x) /\ y \in Reach(x) /\ y \notin Reach(y)
    BY <1>1, <1>2
  <2>2. Reach(y) \in Sets /\ Reach(y) \subseteq S /\ Reach(x) \subseteq S
    OBVIOUS
  <2>3. <<Reach(y), Reach(x)>> \in StrictSubsetOrdering(S)
    BY <2>1, <2>2 DEF StrictSubsetOrdering
  <2> QED BY <1>5, <1>6, <2>2, <2>3
<1> QED BY <1>7

-----------------------------------------------------------------------------
(* What a run of execute is, at each point.                                *)

(* A graph that was accepted was valid.                                    *)
IsAccepted == phase \notin {"Proposed", "Rejected"}
Proposal ==
    /\ graph \in Graphs /\ policy \in Policies
    /\ IsAccepted => Valid(graph, policy)

Dependencies(o) == Order(graph, o).dependencies
Dispatches == DispatchedIn(journal)

(* The journal holds the record of the root once there is one, and nothing *)
(* is begun before.                                                        *)
Rooted ==
    /\ root \in 0..Len(journal)
    /\ IF IsAccepted THEN RootRecord(journal, root) ELSE Dispatches = {} /\ \A o \in Orders : work[o] = Fresh

(* A completed handoff, which those that depend on it are given.           *)
Completed(d) == work[d].state = "handoff" /\ work[d].failure = "none"
Supplied(o) == \A d \in Dependencies(o) : Completed(d)

(* The causal parent f of attempt k of order o: the root or the handoff of *)
(* the first dependency, or the retried failure of the attempt before.     *)
Caused(o, k, f) ==
    IF k = 1 THEN f = FirstParent(o)
    ELSE /\ f \in DOMAIN journal
         /\ journal[f].type = "AttemptFailed" /\ journal[f].order = o
         /\ journal[f].attempt = k - 1 /\ journal[f].retry
         /\ journal[f].parent \in 1..(f - 1)
         /\ DispatchRecord(journal, root, journal[f].parent, o, k - 1)
         /\ journal[journal[f].parent].deps = DependencyEvents(o)

(* Record n dispatches an attempt on completed work that was retained      *)
(* before.                                                                 *)
Dispatched(n) ==
    LET r == journal[n] IN
    /\ root < n /\ r.root = root
    /\ r.order \in Orders /\ r.attempt \in 1..work[r.order].attempt /\ r.retryOf = r.attempt - 1
    /\ Supplied(r.order) /\ \A d \in Dependencies(r.order) : work[d].terminal < n
    /\ r.deps = DependencyEvents(r.order)
    /\ r.parent < n /\ Caused(r.order, r.attempt, r.parent)
    /\ work[r.order].state = "starting" => r.attempt # work[r.order].attempt
Chained ==
    /\ \A n \in Dispatches : Dispatched(n)
    /\ \A m, n \in Dispatches :
          journal[m].order = journal[n].order /\ journal[m].attempt = journal[n].attempt => m = n

(* The dispatch of the present attempt of order o.                         *)
HasDispatch(o, n) ==
    /\ n \in Dispatches /\ journal[n].order = o /\ journal[n].attempt = work[o].attempt

(* What is retained of an order that ended.                                *)
HandedOver(o) ==
    LET t == work[o].terminal IN
    /\ t \in DOMAIN journal /\ journal[t].order = o /\ journal[t].type = "HandoffRetained"
    /\ work[o].failure = "none" <=> journal[t].outcome = "Completed"
    /\ journal[t].parent \in 1..(t - 1) /\ HasDispatch(o, journal[t].parent)
    /\ journal[t].attempt = work[o].attempt
GaveUp(o) ==
    LET t == work[o].terminal IN
    /\ t \in DOMAIN journal /\ journal[t].order = o
    /\ journal[t].type \in {"WorkOrderBlocked", "AttemptFailed"}
    /\ work[o].failure # "none"

(* Within the order's attempts, and pointing into the journal.             *)
Bounded(o) ==
    /\ work[o].attempt <= Order(graph, o).attempts
    /\ work[o].parent <= Len(journal) /\ work[o].dispatched <= Len(journal) /\ work[o].terminal <= Len(journal)

WorkFollows(o) ==
    /\ Bounded(o)
    /\ work[o].state = "pending" => work[o] = Fresh
    /\ work[o].state \in {"starting", "executing", "cleanup"} =>
          work[o].attempt > 0 /\ work[o].failure = "none" /\ Supplied(o)
    /\ work[o].state = "starting" => Caused(o, work[o].attempt, work[o].parent)
    /\ work[o].state \in {"executing", "cleanup"} => HasDispatch(o, work[o].dispatched)
    /\ work[o].state = "handoff" => HandedOver(o)
    /\ work[o].state = "failed" => GaveUp(o)

States == {"pending", "starting", "executing", "cleanup", "handoff", "failed"}
WorkRecords == [state : States, attempt : Nat, parent : Nat, dispatched : Nat, terminal : Nat,
                failure : Failures \cup {"none"}]
LoopTypes ==
    /\ phase \in {"Proposed", "Running"} \cup Ended
    /\ loop \in {"scan", "block", "fill", "await", "finish"}
    /\ progress \in BOOLEAN /\ blocking \subseteq Orders /\ unproven \subseteq Orders
    /\ phase = "Proposed" => loop = "scan"

(* An order that was scanned depends on no incomplete handoff.             *)
Scanned(o) == \A d \in Dependencies(o) : work[d].state = "handoff" => Completed(d)
LoopFollows ==
    /\ loop = "block" => blocking # {} /\ progress
    /\ loop \in {"block", "fill"} => /\ blocking \subseteq Pending
                                     /\ \A o \in Pending \ blocking : Scanned(o)
    /\ loop = "fill" => /\ blocking = {}
                        /\ ~progress => \A o \in Pending : FailedDependencies(o) = {}
    /\ loop = "finish" => Active = {} /\ Pending = {}

GraphInv ==
    /\ Proposal /\ IsSequence(journal) /\ Rooted
    /\ work \in [Orders -> WorkRecords] /\ LoopTypes
    /\ \A o \in Orders : WorkFollows(o)
    /\ Chained
    /\ phase = "Running" => LoopFollows
    /\ NeverStalls
    /\ Cardinality(Active) <= policy.parallel
    /\ FinishIsAccurate
-----------------------------------------------------------------------------
(* Totals.                                                                 *)

(* A function on 1..n is a sequence of length n.                           *)
LEMMA LengthOf ==
    ASSUME NEW n \in Nat, NEW S, NEW f \in [1..n -> S]
    PROVE  Len(f) = n
<1>1. f \in Seq(S)
  OBVIOUS
<1>2. Len(f) \in Nat /\ DOMAIN f = 1..Len(f)
  BY <1>1
<1>3. 1..Len(f) = 1..n
  BY <1>2
<1> QED BY <1>2, <1>3

(* f takes the steps G one after the other, over values in V.              *)
Steps(n, V) == [1..n -> [V -> V]]
Takes(f, n, V, zero, G) ==
    f \in [0..n -> V] /\ f[0] = zero /\ \A i \in 1..n : f[i] = G[i][f[i - 1]]

(* What is computed along a sequence exists.                               *)
LEMMA Recursion ==
    ASSUME NEW n \in Nat, NEW V, NEW zero \in V, NEW G \in Steps(n, V)
    PROVE  \E f : Takes(f, n, V, zero, G)
<1> USE DEF Steps, Takes
<1> DEFINE Runs(m, f) == f \in [0..m -> V] /\ f[0] = zero /\ \A i \in 1..m : f[i] = G[i][f[i - 1]]
           T == {m \in 0..n : ~\E f : Runs(m, f)}
<1>1. SUFFICES ASSUME T # {} PROVE FALSE
  <2>1. n \in 0..n
    OBVIOUS
  <2> HIDE DEF Runs
  <2>2. \E f : Runs(n, f)
    BY <1>1, <2>1
  <2> QED BY <2>2 DEF Runs
<1>a. T \subseteq Nat
  OBVIOUS
<1> DEFINE m == Min(T)
<1>2. m \in T /\ \A k \in T : m <= k
  <2> HIDE DEF T
  <2> QED BY <1>1, <1>a, Least
<1> HIDE DEF m
<1>3. CASE m = 0
  <2>1. Runs(0, [i \in 0..0 |-> zero])
    OBVIOUS
  <2> QED BY <1>2, <1>3, <2>1
<1>4. CASE m # 0
  <2>1. m - 1 \in 0..n /\ m \in 1..n /\ m - 1 \notin T
    BY <1>2, <1>4
  <2>2. PICK f : Runs(m - 1, f)
    BY <2>1
  <2> DEFINE h == [i \in 0..m |-> IF i = m THEN G[m][f[m - 1]] ELSE f[i]]
  <2>3. f[m - 1] \in V
    BY <2>1, <2>2
  <2>4. h \in [0..m -> V] /\ h[0] = zero
    BY <2>1, <2>2, <2>3
  <2>5. ASSUME NEW i \in 1..m PROVE h[i] = G[i][h[i - 1]]
    <3>1. i - 1 \in 0..m /\ i - 1 # m
      BY <2>1
    <3>2. CASE i = m
      BY <3>1, <3>2
    <3>3. CASE i # m
      BY <2>1, <2>2, <3>1, <3>3
    <3> QED BY <3>2, <3>3
  <2>6. Runs(m, h)
    BY <2>4, <2>5
  <2> QED BY <1>2, <2>6
<1> QED BY <1>3, <1>4

(* A sum is added up from its terms.                                       *)
LEMMA SumUp ==
    ASSUME NEW n \in Nat, NEW A \in [1..n -> Nat]
    PROVE  \E s \in [0..n -> Nat] : /\ s[0] = 0 /\ \A i \in 1..n : s[i] = s[i - 1] + A[i]
                                    /\ SumOf(A) = s[n]
<1> DEFINE Sums(s) == s = [i \in 0..n |-> IF i = 0 THEN 0 ELSE s[i - 1] + A[i]]
           G == [i \in 1..n |-> [v \in Nat |-> v + A[i]]]
           sum == CHOOSE s : Sums(s)
<1>1. Len(A) = n
  BY LengthOf
<1>2. SumOf(A) = sum[n]
  BY <1>1 DEF SumOf
<1>3. G \in Steps(n, Nat)
  BY DEF Steps
<1>4. PICK f \in [0..n -> Nat] : f[0] = 0 /\ \A i \in 1..n : f[i] = G[i][f[i - 1]]
  <2> HIDE DEF G
  <2>1. \E f : Takes(f, n, Nat, 0, G)
    BY <1>3, Recursion
  <2> QED BY <2>1 DEF Takes
<1>5. \A i \in 1..n : f[i] = f[i - 1] + A[i]
  <2> TAKE i \in 1..n
  <2>1. i - 1 \in 0..n /\ f[i - 1] \in Nat
    BY <1>4
  <2>2. f[i] = G[i][f[i - 1]]
    BY <1>4
  <2> QED BY <2>1, <2>2
<1>6. Sums(f)
  <2>1. \A i \in 0..n : f[i] = IF i = 0 THEN 0 ELSE f[i - 1] + A[i]
    BY <1>4, <1>5
  <2> QED BY <2>1
<1>7. Sums(sum)
  <2> HIDE DEF Sums
  <2> QED BY <1>6
<1> HIDE DEF sum
<1>8. sum[0] = 0 /\ \A i \in 1..n : sum[i] = sum[i - 1] + A[i]
  BY <1>7
<1>9. \A i \in 0..n : sum[i] \in Nat
  <2> DEFINE T == {i \in 0..n : sum[i] \notin Nat}
  <2>1. SUFFICES ASSUME T # {} PROVE FALSE
    OBVIOUS
  <2>a. T \subseteq Nat
    OBVIOUS
  <2> DEFINE m == Min(T)
  <2>2. m \in T /\ \A k \in T : m <= k
    <3> HIDE DEF T
    <3> QED BY <2>1, <2>a, Least
  <2> HIDE DEF m
  <2>3. m # 0
    BY <1>8, <2>2
  <2>4. m - 1 \in 0..n /\ m - 1 \notin T /\ m \in 1..n
    BY <2>2, <2>3
  <2> QED BY <1>8, <2>2, <2>4
<1>10. sum \in [0..n -> Nat]
  BY <1>7, <1>9
<1> QED BY <1>2, <1>8, <1>10

(* Checked numbers: a value, and whether something overflowed.             *)
Checked == [sum : Nat, overflow : BOOLEAN]

(* What a checked sum or product says of the true one.                     *)
LEMMA CheckedSum ==
    ASSUME NEW a \in Checked, NEW b \in Checked
    PROVE  /\ CheckedAdd(a, b) \in Checked
           /\ ~CheckedAdd(a, b).overflow =>
                ~a.overflow /\ ~b.overflow /\ CheckedAdd(a, b).sum = a.sum + b.sum
<1>1. Saturated(a.sum + b.sum) \in Nat
  BY LimitsAreNatural DEF Checked, Saturated
<1>2. a.overflow \in BOOLEAN /\ b.overflow \in BOOLEAN
  BY DEF Checked
<1>3. CheckedAdd(a, b) \in Checked
  BY <1>1, <1>2 DEF Checked, CheckedAdd
<1>4. ASSUME ~CheckedAdd(a, b).overflow
      PROVE  ~a.overflow /\ ~b.overflow /\ CheckedAdd(a, b).sum = a.sum + b.sum
  <2>1. ~a.overflow /\ ~b.overflow /\ ~(a.sum + b.sum > MaxU64)
    BY <1>4 DEF CheckedAdd
  <2> QED BY <2>1 DEF CheckedAdd, Saturated
<1> QED BY <1>3, <1>4
LEMMA CheckedProduct ==
    ASSUME NEW a \in Checked, NEW k \in Nat
    PROVE  /\ CheckedMul(a, k) \in Checked
           /\ ~CheckedMul(a, k).overflow => ~a.overflow /\ CheckedMul(a, k).sum = a.sum * k
<1>1. a.sum * k \in Nat
  BY DEF Checked
<1>2. Saturated(a.sum * k) \in Nat
  BY <1>1, LimitsAreNatural DEF Saturated
<1>3. a.overflow \in BOOLEAN
  BY DEF Checked
<1>4. CheckedMul(a, k) \in Checked
  BY <1>2, <1>3 DEF Checked, CheckedMul
<1>5. ASSUME ~CheckedMul(a, k).overflow
      PROVE  ~a.overflow /\ CheckedMul(a, k).sum = a.sum * k
  <2>1. ~a.overflow /\ ~(a.sum * k > MaxU64)
    BY <1>5 DEF CheckedMul
  <2> QED BY <2>1 DEF CheckedMul, Saturated
<1> QED BY <1>4, <1>5
LEMMA ExactlyChecked == ASSUME NEW k \in Nat PROVE Exactly(k) \in Checked /\ ~Exactly(k).overflow /\ Exactly(k).sum = k
BY DEF Checked, Exactly

(* A total that did not overflow is the sum of what was asked for.         *)
LEMMA TotalIsReal ==
    ASSUME NEW n \in Nat, NEW asked \in [1..n -> Checked], NEW A \in [1..n -> Nat],
           \A i \in 1..n : ~asked[i].overflow => asked[i].sum = A[i],
           ~Total(asked).overflow
    PROVE  Total(asked).sum = SumOf(A)
<1> DEFINE Totals(t) == t = [i \in 0..n |-> IF i = 0 THEN Exactly(0) ELSE CheckedAdd(t[i - 1], asked[i])]
           G == [i \in 1..n |-> [v \in Checked |-> CheckedAdd(v, asked[i])]]
           total == CHOOSE t : Totals(t)
<1>1. Len(asked) = n
  BY LengthOf
<1>2. Total(asked) = total[n]
  BY <1>1 DEF Total
<1>3. G \in Steps(n, Checked)
  BY CheckedSum DEF Steps
<1>4. PICK f \in [0..n -> Checked] : f[0] = Exactly(0) /\ \A i \in 1..n : f[i] = G[i][f[i - 1]]
  <2> HIDE DEF G
  <2>1. \E f : Takes(f, n, Checked, Exactly(0), G)
    BY <1>3, ExactlyChecked, Recursion
  <2> QED BY <2>1 DEF Takes
<1>5. \A i \in 1..n : f[i] = CheckedAdd(f[i - 1], asked[i])
  <2> TAKE i \in 1..n
  <2>1. i - 1 \in 0..n /\ f[i - 1] \in Checked
    BY <1>4
  <2>2. f[i] = G[i][f[i - 1]]
    BY <1>4
  <2> QED BY <2>1, <2>2
<1>6. Totals(f)
  <2>1. \A i \in 0..n : f[i] = IF i = 0 THEN Exactly(0) ELSE CheckedAdd(f[i - 1], asked[i])
    BY <1>4, <1>5
  <2> QED BY <2>1
<1>7. Totals(total)
  <2> HIDE DEF Totals
  <2> QED BY <1>6
<1> HIDE DEF total
<1>8. total[0] = Exactly(0) /\ \A i \in 1..n : total[i] = CheckedAdd(total[i - 1], asked[i])
  BY <1>7
<1>9. PICK s \in [0..n -> Nat] : s[0] = 0 /\ (\A i \in 1..n : s[i] = s[i - 1] + A[i]) /\ SumOf(A) = s[n]
  BY SumUp
<1>10. \A i \in 0..n : total[i] \in Checked /\ (~total[i].overflow => total[i].sum = s[i])
  <2> DEFINE Good(i) == total[i] \in Checked /\ (~total[i].overflow => total[i].sum = s[i])
             T == {i \in 0..n : ~Good(i)}
  <2>1. SUFFICES ASSUME T # {} PROVE FALSE
    OBVIOUS
  <2>a. T \subseteq Nat
    OBVIOUS
  <2> DEFINE m == Min(T)
  <2>2. m \in T /\ \A k \in T : m <= k
    <3> HIDE DEF T
    <3> QED BY <2>1, <2>a, Least
  <2> HIDE DEF m
  <2>3. m # 0
    BY <1>8, <1>9, <2>2, ExactlyChecked
  <2>4. m - 1 \in 0..n /\ m - 1 \notin T /\ m \in 1..n
    BY <2>2, <2>3
  <2>5. Good(m - 1)
    BY <2>4
  <2>6. total[m] = CheckedAdd(total[m - 1], asked[m]) /\ s[m] = s[m - 1] + A[m] /\ asked[m] \in Checked
    BY <1>8, <1>9, <2>4
  <2>7. total[m] \in Checked /\ (~total[m].overflow => ~total[m - 1].overflow
                                    /\ total[m].sum = total[m - 1].sum + asked[m].sum /\ ~asked[m].overflow)
    BY <2>5, <2>6, CheckedSum
  <2>8. Good(m)
    BY <2>4, <2>5, <2>6, <2>7
  <2> QED BY <2>2, <2>8
<1> QED BY <1>2, <1>9, <1>10

(* The pairs of a number up to n and one up to its count are as many as    *)
(* the counts add up to.                                                   *)
LEMMA Pairs ==
    ASSUME NEW n \in Nat, NEW A \in [1..n -> Nat]
    PROVE  LET P == {p \in (1..n) \X Nat : p[2] \in 1..A[p[1]]}
           IN  IsFiniteSet(P) /\ Cardinality(P) = SumOf(A)
<1> DEFINE P(k) == {p \in (1..k) \X Nat : p[2] \in 1..A[p[1]]}
<1>1. PICK s \in [0..n -> Nat] : s[0] = 0 /\ (\A i \in 1..n : s[i] = s[i - 1] + A[i]) /\ SumOf(A) = s[n]
  BY SumUp
<1> DEFINE Good(k) == IsFiniteSet(P(k)) /\ Cardinality(P(k)) = s[k]
           T == {k \in 0..n : ~Good(k)}
<1>2. SUFFICES ASSUME T # {} PROVE FALSE
  <2>1. ASSUME T = {} PROVE Good(n)
    <3>1. n \in 0..n
      OBVIOUS
    <3> HIDE DEF Good
    <3> QED BY <2>1, <3>1
  <2> QED BY <1>1, <1>2, <2>1
<1>a. T \subseteq Nat
  OBVIOUS
<1> DEFINE m == Min(T)
<1>3. m \in T /\ \A k \in T : m <= k
  <2> HIDE DEF T
  <2> QED BY <1>2, <1>a, Least
<1> HIDE DEF m
<1>4. CASE m = 0
  <2>1. P(0) = {}
    OBVIOUS
  <2>2. Good(0)
    BY <1>1, <2>1, FS_EmptySet
  <2> QED BY <1>3, <1>4, <2>2
<1>5. CASE m # 0
  <2>1. m - 1 \in 0..n /\ m \in 1..n /\ m - 1 \notin T
    <3>1. m \in 0..n
      BY <1>3
    <3>2. m - 1 \in 0..n /\ m \in 1..n /\ ~(m <= m - 1)
      BY <1>5, <3>1
    <3> HIDE DEF T
    <3> QED BY <1>3, <3>2
  <2>2. Good(m - 1)
    BY <2>1
  <2> DEFINE L == {m} \X (1..A[m])
  <2>3. IsFiniteSet(L) /\ Cardinality(L) = A[m]
    <3> DEFINE f == [i \in 1..A[m] |-> <<m, i>>]
    <3>1. A[m] \in Nat
      BY <2>1
    <3>2. f \in Bijection(1..A[m], L)
      <4>1. f \in [1..A[m] -> L] /\ (\A a, b \in 1..A[m] : f[a] = f[b] => a = b)
        OBVIOUS
      <4>2. \A t \in L : \E a \in 1..A[m] : f[a] = t
        OBVIOUS
      <4> QED BY <4>1, <4>2 DEF Bijection, Injection, Surjection, IsInjective
    <3>3. ExistsBijection(1..A[m], L)
      BY <3>2 DEF ExistsBijection
    <3> QED BY <3>1, <3>3, FiniteDomain, FS_Bijection
  <2>4. P(m) = P(m - 1) \cup L /\ P(m - 1) \cap L = {}
    <3>1. \A p \in P(m) : p \in P(m - 1) \/ p \in L
      BY <2>1
    <3>2. \A p \in P(m - 1) : p \in P(m) /\ p[1] # m
      BY <2>1
    <3>3. \A p \in L : p \in P(m) /\ p[1] = m
      BY <2>1
    <3> QED BY <3>1, <3>2, <3>3
  <2>5. IsFiniteSet(P(m)) /\ Cardinality(P(m)) = Cardinality(P(m - 1)) + Cardinality(L) - Cardinality({})
    <3> HIDE DEF P, L
    <3> QED BY <2>2, <2>3, <2>4, FS_Union
  <2>6. Good(m)
    <3> HIDE DEF P
    <3> QED BY <1>1, <2>1, <2>2, <2>3, <2>5, FS_EmptySet
  <2> QED BY <1>3, <2>6
<1> QED BY <1>4, <1>5

(* What a valid graph can spend is within its policy.                      *)
LEMMA ValidReservations ==
    ASSUME NEW g \in Graphs, NEW p \in Policies, Valid(g, p)
    PROVE  /\ SumOf([i \in DOMAIN g |-> g[i].attempts]) <= p.attempts
           /\ SumOf([i \in DOMAIN g |-> g[i].tokens * g[i].attempts]) <= p.tokens
           /\ SumOf([i \in DOMAIN g |-> (g[i].wall + g[i].cleanup) * g[i].attempts]) <= p.wall
<1> DEFINE n == Len(g)
<1>1. n \in Nat /\ DOMAIN g = 1..n
  BY Unsigned
<1>2. \A i \in 1..n : g[i].attempts \in Nat /\ g[i].tokens \in Nat /\ g[i].wall \in Nat /\ g[i].cleanup \in Nat
  BY <1>1, Unsigned
<1>3. /\ Within(TotalAttempts(g), p.attempts) /\ Within(TotalTokens(g), p.tokens)
      /\ Within(TotalWall(g), p.wall)
  BY DEF Valid, BudgetsFit
<1> HIDE DEF n
<1>4. SumOf([i \in DOMAIN g |-> g[i].attempts]) <= p.attempts
  <2> DEFINE asked == [i \in 1..n |-> Exactly(g[i].attempts)]
             A == [i \in 1..n |-> g[i].attempts]
  <2>1. asked \in [1..n -> Checked] /\ A \in [1..n -> Nat] /\ \A i \in 1..n : asked[i].sum = A[i]
    BY <1>2, ExactlyChecked
  <2>2. ~Total(asked).overflow /\ Total(asked).sum <= p.attempts
    BY <1>1, <1>3 DEF TotalAttempts, Within
  <2> HIDE DEF asked, A
  <2>3. SumOf(A) <= p.attempts
    BY <1>1, <2>1, <2>2, TotalIsReal
  <2> QED BY <1>1, <2>3 DEF A
<1>5. SumOf([i \in DOMAIN g |-> g[i].tokens * g[i].attempts]) <= p.tokens
  <2> DEFINE asked == [i \in 1..n |-> CheckedMul(Exactly(g[i].tokens), g[i].attempts)]
             A == [i \in 1..n |-> g[i].tokens * g[i].attempts]
  <2>1. \A i \in 1..n : /\ asked[i] \in Checked /\ A[i] \in Nat
                        /\ ~asked[i].overflow => asked[i].sum = A[i]
    <3> TAKE i \in 1..n
    <3>1. Exactly(g[i].tokens) \in Checked /\ Exactly(g[i].tokens).sum = g[i].tokens
      BY <1>2, ExactlyChecked
    <3>2. A[i] \in Nat
      BY <1>2
    <3> QED BY <1>2, <3>1, <3>2, CheckedProduct
  <2>2. asked \in [1..n -> Checked] /\ A \in [1..n -> Nat]
    BY <2>1
  <2>3. ~Total(asked).overflow /\ Total(asked).sum <= p.tokens
    BY <1>1, <1>3 DEF TotalTokens, Within
  <2> HIDE DEF asked, A
  <2>4. SumOf(A) <= p.tokens
    BY <1>1, <2>1, <2>2, <2>3, TotalIsReal
  <2> QED BY <1>1, <2>4 DEF A
<1>6. SumOf([i \in DOMAIN g |-> (g[i].wall + g[i].cleanup) * g[i].attempts]) <= p.wall
  <2> DEFINE each(i) == CheckedAdd(Exactly(g[i].wall), Exactly(g[i].cleanup))
             asked == [i \in 1..n |-> CheckedMul(each(i), g[i].attempts)]
             A == [i \in 1..n |-> (g[i].wall + g[i].cleanup) * g[i].attempts]
  <2>1. \A i \in 1..n : /\ asked[i] \in Checked /\ A[i] \in Nat
                        /\ ~asked[i].overflow => asked[i].sum = A[i]
    <3> TAKE i \in 1..n
    <3>1. each(i) \in Checked /\ (~each(i).overflow => each(i).sum = g[i].wall + g[i].cleanup)
      BY <1>2, ExactlyChecked, CheckedSum
    <3>2. A[i] \in Nat
      BY <1>2
    <3> HIDE DEF each
    <3> QED BY <1>2, <3>1, <3>2, CheckedProduct
  <2>2. asked \in [1..n -> Checked] /\ A \in [1..n -> Nat]
    BY <2>1
  <2>3. ~Total(asked).overflow /\ Total(asked).sum <= p.wall
    BY <1>1, <1>3 DEF TotalWall, Within
  <2> HIDE DEF asked, A
  <2>4. SumOf(A) <= p.wall
    BY <1>1, <2>1, <2>2, <2>3, TotalIsReal
  <2> QED BY <1>1, <2>4 DEF A
<1> QED BY <1>4, <1>5, <1>6

-----------------------------------------------------------------------------
(* Verifying a dispatch.                                                   *)

(* What the first part of verify_full_dispatch_ancestry asks of record n   *)
(* itself, its causal parent and its dependencies.                         *)
Linked(j, r, n) ==
    IF j[n].retryOf # 0 THEN RetryRecord(j, r, n) /\ j[j[j[n].parent].parent].type = "AttemptDispatched"
    ELSE IF DOMAIN j[n].deps = {} THEN j[n].parent = r /\ Preceding(r, n)
    ELSE /\ j[n].parent = j[n].deps[Min(DOMAIN j[n].deps)]
         /\ IsInjective(j[n].deps)
         /\ \A d \in DOMAIN j[n].deps :
               DependencyRecord(j, r, n, d) /\ j[j[j[n].deps[d]].parent].type = "AttemptDispatched"

(* If every dispatch is linked so, to earlier records, each is verified    *)
(* with all its ancestors.                                                 *)
LEMMA AncestryHolds ==
    ASSUME NEW j, IsSequence(j), NEW r,
           \A n \in DispatchedIn(j) : j[n].root = r /\ Linked(j, r, n)
    PROVE  \A n \in DispatchedIn(j) : Ancestry(j, r)[n]
<1> DEFINE Rest(f, n) ==
              IF j[n].retryOf # 0 THEN RetryRecord(j, r, n) /\ f[j[j[n].parent].parent]
              ELSE IF DOMAIN j[n].deps = {} THEN j[n].parent = r /\ Preceding(r, n)
              ELSE /\ j[n].parent = j[n].deps[Min(DOMAIN j[n].deps)]
                   /\ IsInjective(j[n].deps)
                   /\ \A d \in DOMAIN j[n].deps : DependencyRecord(j, r, n, d) /\ f[j[j[n].deps[d]].parent]
           Body(f, n) == /\ j[n].type = "AttemptDispatched" /\ j[n].root = r
                         /\ Rest(f, n)
           Oks(f) == f = [n \in DOMAIN j |-> Body(f, n)]
           F == [n \in DOMAIN j |-> n \in DispatchedIn(j)]
           ok == CHOOSE f : Oks(f)
<1>1. DOMAIN j = 1..Len(j) /\ Len(j) \in Nat
  BY AppendGrows
(* A record's ancestors are dispatches, and earlier. *)
<1>2. ASSUME NEW n \in DispatchedIn(j), j[n].retryOf # 0
      PROVE  /\ RetryRecord(j, r, n)
             /\ j[j[n].parent].parent \in DispatchedIn(j) /\ j[j[n].parent].parent < n
  <2>1. RetryRecord(j, r, n) /\ j[j[j[n].parent].parent].type = "AttemptDispatched"
    BY <1>2 DEF Linked
  <2>2. j[n].parent \in 1..(n - 1) /\ j[j[n].parent].parent \in 1..(j[n].parent - 1)
    BY <2>1 DEF RetryRecord, Preceding
  <2>3. n \in 1..Len(j)
    BY <1>1 DEF DispatchedIn
  <2> QED BY <1>1, <2>1, <2>2, <2>3 DEF DispatchedIn
<1>3. ASSUME NEW n \in DispatchedIn(j), j[n].retryOf = 0, NEW d \in DOMAIN j[n].deps
      PROVE  /\ DependencyRecord(j, r, n, d)
             /\ j[j[n].deps[d]].parent \in DispatchedIn(j) /\ j[j[n].deps[d]].parent < n
  <2>1. DependencyRecord(j, r, n, d) /\ j[j[j[n].deps[d]].parent].type = "AttemptDispatched"
    BY <1>3 DEF Linked
  <2>2. j[n].deps[d] \in 1..(n - 1) /\ j[j[n].deps[d]].parent \in 1..(j[n].deps[d] - 1)
    BY <2>1 DEF DependencyRecord, Preceding
  <2>3. n \in 1..Len(j)
    BY <1>1 DEF DispatchedIn
  <2> QED BY <1>1, <2>1, <2>2, <2>3 DEF DispatchedIn
<1>4. ASSUME NEW f, NEW n \in DispatchedIn(j),
             \A m \in DispatchedIn(j) : m < n => f[m]
      PROVE  Body(f, n)
  <2>1. CASE j[n].retryOf # 0
    BY <1>2, <1>4, <2>1 DEF DispatchedIn
  <2>2. CASE j[n].retryOf = 0 /\ DOMAIN j[n].deps = {}
    BY <2>2 DEF Linked, DispatchedIn
  <2>3. CASE j[n].retryOf = 0 /\ DOMAIN j[n].deps # {}
    <3>1. \A d \in DOMAIN j[n].deps : DependencyRecord(j, r, n, d) /\ f[j[j[n].deps[d]].parent]
      BY <1>3, <1>4, <2>3
    <3>2. j[n].parent = j[n].deps[Min(DOMAIN j[n].deps)] /\ IsInjective(j[n].deps)
      BY <2>3 DEF Linked
    <3> QED BY <2>3, <3>1, <3>2 DEF DispatchedIn
  <2> QED BY <2>1, <2>2, <2>3
<1>5. Oks(F)
  <2>1. ASSUME NEW n \in DOMAIN j PROVE F[n] <=> Body(F, n)
    <3>1. CASE n \in DispatchedIn(j)
      <4>1. \A m \in DispatchedIn(j) : F[m]
        BY DEF DispatchedIn
      <4> HIDE DEF F, Body
      <4>2. Body(F, n)
        BY <1>4, <3>1, <4>1
      <4> QED BY <3>1, <4>1, <4>2
    <3>2. CASE n \notin DispatchedIn(j)
      BY <3>2 DEF DispatchedIn
    <3> QED BY <3>1, <3>2
  <2> HIDE DEF Rest
  <2>2. \A n \in DOMAIN j : F[n] \in BOOLEAN /\ Body(F, n) \in BOOLEAN
    OBVIOUS
  <2>3. \A n \in DOMAIN j : F[n] = Body(F, n)
    BY <2>1, <2>2
  <2> HIDE DEF Body
  <2> QED BY <2>3
<1>6. Oks(ok)
  <2> HIDE DEF Oks
  <2> QED BY <1>5
<1>7. Ancestry(j, r) = ok
  BY DEF Ancestry
<1> HIDE DEF ok
<1>8. \A n \in DispatchedIn(j) : Body(ok, n) => ok[n]
  <2> HIDE DEF Rest, Body
  <2> QED BY <1>6 DEF DispatchedIn
<1>9. ASSUME NEW T, T = {n \in DispatchedIn(j) : ~ok[n]}, T # {} PROVE FALSE
  <2>1. T \subseteq Nat
    BY <1>1, <1>9 DEF DispatchedIn
  <2> DEFINE m == Min(T)
  <2>2. m \in T /\ \A k \in T : m <= k
    BY <1>9, <2>1, Least
  <2> HIDE DEF m
  <2>3. \A k \in DispatchedIn(j) : k < m => ok[k]
    <3>1. SUFFICES ASSUME NEW k \in DispatchedIn(j), k < m, ~ok[k] PROVE FALSE
      OBVIOUS
    <3>2. k \in T /\ k \in Nat /\ m \in Nat
      BY <1>9, <2>1, <2>2, <3>1
    <3> QED BY <2>2, <3>1, <3>2
  <2> HIDE DEF Body
  <2> QED BY <1>4, <1>8, <1>9, <2>2, <2>3
<1> QED BY <1>7, <1>9

(* Nothing was dispatched yet, whatever an earlier run left.               *)
LEMMA GraphStarts == Init => GraphInv
<1> SUFFICES ASSUME Init PROVE GraphInv
  OBVIOUS
<1>1. IsSequence(journal) /\ Dispatches = {} /\ Len(journal) \in Nat
  <2>1. CASE journal = <<>>
    <3>1. journal \in Seq({})
      BY <2>1
    <3> QED BY <2>1, <3>1 DEF IsSequence, Dispatches, DispatchedIn
  <2>2. CASE journal = <<[type |-> "GraphAccepted", parent |-> 0]>>
    <3>1. journal \in Seq({[type |-> "GraphAccepted", parent |-> 0]})
      BY <2>2
    <3>2. \A n \in DOMAIN journal : journal[n].type = "GraphAccepted"
      BY <2>2
    <3> QED BY <3>1, <3>2 DEF IsSequence, Dispatches, DispatchedIn
  <2> QED BY <2>1, <2>2 DEF Init
<1>2. /\ phase = "Proposed" /\ loop = "scan" /\ progress = FALSE /\ blocking = {} /\ unproven = {}
      /\ root = 0 /\ graph \in Graphs /\ policy \in Policies /\ work = [o \in Orders |-> Fresh]
  BY DEF Init
<1>3. Proposal /\ Rooted /\ LoopTypes
  <2>1. ~IsAccepted
    BY <1>2 DEF IsAccepted
  <2>2. Proposal /\ Rooted
    BY <1>1, <1>2, <2>1 DEF Proposal, Rooted, Orders
  <2>3. LoopTypes
    BY <1>2 DEF LoopTypes
  <2> QED BY <2>2, <2>3
<1>4. work \in [Orders -> WorkRecords]
  BY <1>2 DEF Fresh, WorkRecords, States
<1>5. ASSUME NEW o \in Orders PROVE WorkFollows(o)
  <2>1. work[o] = Fresh /\ Order(graph, o).attempts \in Nat
    BY <1>2, OrderOf, Unsigned DEF Orders
  <2> QED BY <1>1, <2>1 DEF WorkFollows, Fresh, Bounded
<1>6. Active = {}
  BY <1>2 DEF Active, In, Fresh
<1>7. policy.parallel \in Nat
  BY <1>2, ProposalsAreUnsigned
<1> QED BY <1>1, <1>2, <1>3, <1>4, <1>5, <1>6, <1>7, FS_EmptySet
        DEF GraphInv, Chained, NeverStalls, FinishIsAccurate

-----------------------------------------------------------------------------
(* What the journal and the orders keep in a step.                         *)

(* The journal keeps its records.                                          *)
LEMMA RecordsStay ==
    ASSUME IsSequence(journal), UNCHANGED journal \/ \E record : Retain(record)
    PROVE  /\ IsSequence(journal)'
           /\ Len(journal) \in Nat /\ Len(journal') \in Nat /\ Len(journal) <= Len(journal')
           /\ DOMAIN journal = 1..Len(journal) /\ DOMAIN journal' = 1..Len(journal')
           /\ \A n \in DOMAIN journal : n \in DOMAIN journal' /\ journal'[n] = journal[n]
<1>1. Len(journal) \in Nat /\ DOMAIN journal = 1..Len(journal)
  BY AppendGrows
<1>2. CASE UNCHANGED journal
  BY <1>1, <1>2 DEF IsSequence
<1>3. CASE \E record : Retain(record)
  <2>1. PICK record : journal' = Append(journal, record)
    BY <1>3 DEF Retain
  <2>2. /\ IsSequence(journal') /\ DOMAIN journal' = 1..(Len(journal) + 1)
        /\ Len(journal') = Len(journal) + 1 /\ \A n \in 1..Len(journal) : journal'[n] = journal[n]
    BY <2>1, AppendGrows
  <2>3. IsSequence(journal)'
    BY <2>2 DEF IsSequence
  <2> QED BY <1>1, <2>2, <2>3
<1> QED BY <1>2, <1>3

(* And adds one at NextId.                                                 *)
LEMMA RecordAdded ==
    ASSUME IsSequence(journal), NEW record, Retain(record)
    PROVE  /\ NextId \in Nat /\ NextId = Len(journal) + 1 /\ Len(journal') = NextId
           /\ DOMAIN journal = 1..Len(journal)
           /\ DOMAIN journal' = DOMAIN journal \cup {NextId}
           /\ NextId \notin DOMAIN journal
           /\ journal'[NextId] = record
<1>1. Len(journal) \in Nat /\ journal' = Append(journal, record)
  BY AppendGrows DEF Retain
<1> QED BY <1>1, AppendGrows DEF NextId

(* The dispatches are those there were, and perhaps the one retained.      *)
LEMMA DispatchesStay ==
    ASSUME IsSequence(journal), NEW record, Retain(record)
    PROVE  Dispatches' = Dispatches \cup (IF record.type = "AttemptDispatched" THEN {NextId} ELSE {})
BY RecordAdded, RecordsStay DEF Dispatches, DispatchedIn

(* The orders of a valid graph, in the state's terms.                      *)
LEMMA OrderFacts ==
    ASSUME GraphInv, IsAccepted, NEW o \in Orders
    PROVE  /\ Dependencies(o) \subseteq Orders
           /\ Order(graph, o).attempts \in Nat \ {0} /\ o \in Nat
           /\ Dependencies(o) # {} => Min(Dependencies(o)) \in Dependencies(o)
<1>1. graph \in Graphs /\ Valid(graph, policy) /\ Orders = Ids(graph)
  BY DEF GraphInv, Proposal, Orders
<1>2. Dependencies(o) \subseteq Orders /\ Order(graph, o).attempts \in Nat \ {0}
  BY <1>1, ValidOrder DEF Dependencies
<1>3. Orders \subseteq Nat
  BY <1>1, IdsAreFinite
<1> QED BY <1>2, <1>3, Least

(* What a step does to the orders: one that ended stays, another attempt   *)
(* only begins after the last.                                             *)
Advances ==
    \A p \in Orders :
       \/ work'[p] = work[p]
       \/ /\ work[p].state # "handoff" /\ work'[p].attempt >= work[p].attempt
          /\ work'[p].state = "starting" => work'[p].attempt > work[p].attempt

(* Then the causes, the dispatches and what is retained of an order that   *)
(* did not move stay what they were.                                       *)
LEMMA CausesStay ==
    ASSUME GraphInv, IsAccepted, UNCHANGED <<graph, root>>, Advances,
           UNCHANGED journal \/ \E record : Retain(record),
           NEW o \in Orders, Supplied(o)
    PROVE  /\ Supplied(o)' /\ DependencyEvents(o)' = DependencyEvents(o)
           /\ \A k, f : Caused(o, k, f) => Caused(o, k, f)'
<1>1. Dependencies(o) \subseteq Orders /\ Dependencies(o)' = Dependencies(o)
  BY OrderFacts DEF Dependencies
<1>2. \A d \in Dependencies(o) : work'[d] = work[d]
  BY <1>1 DEF Advances, Supplied, Completed
<1>3. Supplied(o)'
  BY <1>1, <1>2 DEF Supplied, Completed
<1>4. DependencyEvents(o)' = DependencyEvents(o)
  BY <1>1, <1>2 DEF DependencyEvents, Dependencies
<1>5. FirstParent(o)' = FirstParent(o)
  <2>1. CASE Dependencies(o) = {}
    BY <2>1 DEF FirstParent, Dependencies
  <2>2. CASE Dependencies(o) # {}
    <3>1. work'[Min(Dependencies(o))] = work[Min(Dependencies(o))]
      BY <1>2, <2>2, OrderFacts
    <3> QED BY <2>2, <3>1 DEF FirstParent, FirstTerminal, Dependencies
  <2> QED BY <2>1, <2>2
<1>6. ASSUME NEW k, NEW f, Caused(o, k, f) PROVE Caused(o, k, f)'
  <2>1. CASE k = 1
    BY <1>5, <1>6, <2>1 DEF Caused
  <2>2. CASE k # 1
    <3>1. /\ IsSequence(journal) /\ DOMAIN journal = 1..Len(journal) /\ Len(journal) \in Nat
          /\ \A n \in DOMAIN journal : n \in DOMAIN journal' /\ journal'[n] = journal[n]
      BY RecordsStay DEF GraphInv
    <3>2. f \in DOMAIN journal /\ journal[f].parent \in 1..(f - 1)
      BY <1>6, <2>2 DEF Caused
    <3>3. journal[f].parent \in DOMAIN journal
      BY <3>1, <3>2
    <3>4. journal'[f] = journal[f] /\ journal'[journal[f].parent] = journal[journal[f].parent] /\ f \in DOMAIN journal'
      BY <3>1, <3>2, <3>3
    <3> QED BY <1>4, <1>6, <2>2, <3>4 DEF Caused, DispatchRecord
  <2> QED BY <2>1, <2>2
<1> QED BY <1>3, <1>4, <1>6

LEMMA DispatchedStays ==
    ASSUME GraphInv, IsAccepted, UNCHANGED <<graph, root>>, Advances,
           work' \in [Orders -> WorkRecords],
           UNCHANGED journal \/ \E record : Retain(record),
           NEW n \in Dispatches
    PROVE  n \in Dispatches' /\ journal'[n] = journal[n] /\ Dispatched(n)'
<1>0. PICK r, o : r = journal[n] /\ o = r.order
  OBVIOUS
<1>1. Dispatched(n) /\ n \in DOMAIN journal /\ r.type = "AttemptDispatched"
  BY <1>0 DEF GraphInv, Chained, Dispatches, DispatchedIn
<1>2. n \in DOMAIN journal' /\ journal'[n] = r
  BY <1>0, <1>1, RecordsStay DEF GraphInv
<1>3. n \in Dispatches'
  BY <1>0, <1>1, <1>2 DEF Dispatches, DispatchedIn
<1>4. o \in Orders /\ Supplied(o) /\ Dependencies(o) \subseteq Orders /\ Dependencies(o)' = Dependencies(o)
  BY <1>0, <1>1, OrderFacts DEF Dispatched, Dependencies
<1>5. /\ Supplied(o)' /\ DependencyEvents(o)' = DependencyEvents(o)
      /\ \A k, f : Caused(o, k, f) => Caused(o, k, f)'
  BY <1>0, <1>4, CausesStay
<1>6. \A d \in Dependencies(o) : work'[d] = work[d]
  BY <1>0, <1>4 DEF Advances, Supplied, Completed
<1>7. r.attempt \in 1..work'[o].attempt /\ (work'[o].state = "starting" => r.attempt # work'[o].attempt)
  <2>1. work[o].attempt \in Nat /\ work'[o].attempt \in Nat
    BY <1>0, <1>4 DEF GraphInv, WorkRecords
  <2>2. r.attempt \in 1..work[o].attempt /\ (work[o].state = "starting" => r.attempt # work[o].attempt)
    BY <1>0, <1>1 DEF Dispatched
  <2>3. \/ work'[o] = work[o]
        \/ /\ work'[o].attempt >= work[o].attempt
           /\ work'[o].state = "starting" => work'[o].attempt > work[o].attempt
    BY <1>0, <1>4 DEF Advances
  <2> QED BY <2>1, <2>2, <2>3
<1>8. Caused(o, r.attempt, r.parent)' /\ o \in Orders'
  BY <1>0, <1>1, <1>4, <1>5 DEF Dispatched, Orders
<1>9. /\ root' < n /\ r.root = root' /\ r.retryOf = r.attempt - 1 /\ r.parent < n
      /\ r.deps = DependencyEvents(o)' /\ \A d \in Dependencies(o)' : work'[d].terminal < n
  BY <1>0, <1>1, <1>4, <1>5, <1>6 DEF Dispatched
<1>10. Dispatched(n)'
  BY <1>0, <1>2, <1>5, <1>7, <1>8, <1>9 DEF Dispatched
<1> QED BY <1>0, <1>2, <1>3, <1>10

LEMMA WorkStays ==
    ASSUME GraphInv, IsAccepted, UNCHANGED <<graph, root>>, Advances,
           UNCHANGED journal \/ \E record : Retain(record),
           NEW o \in Orders, work'[o] = work[o]
    PROVE  WorkFollows(o)'
<1> DEFINE t == work[o].terminal
<1>1. WorkFollows(o) /\ IsSequence(journal) /\ work[o] \in WorkRecords
  BY DEF GraphInv
<1>2. /\ Len(journal) \in Nat /\ Len(journal') \in Nat /\ Len(journal) <= Len(journal')
      /\ DOMAIN journal = 1..Len(journal)
      /\ \A n \in DOMAIN journal : n \in DOMAIN journal' /\ journal'[n] = journal[n]
  BY <1>1, RecordsStay
<1>3. Bounded(o)'
  BY <1>1, <1>2 DEF WorkFollows, Bounded, WorkRecords
<1>4. \A n : HasDispatch(o, n) => HasDispatch(o, n)'
  BY <1>2 DEF HasDispatch, Dispatches, DispatchedIn
<1>5. work[o].state \in {"starting", "executing", "cleanup"} =>
        /\ work'[o].attempt > 0 /\ work'[o].failure = "none" /\ Supplied(o)'
        /\ \A k, f : Caused(o, k, f) => Caused(o, k, f)'
  BY <1>1, CausesStay DEF WorkFollows
<1>6. work[o].state = "handoff" => HandedOver(o)'
  <2> SUFFICES ASSUME work[o].state = "handoff" PROVE HandedOver(o)'
    OBVIOUS
  <2>1. HandedOver(o)
    BY <1>1 DEF WorkFollows
  <2>2. t \in DOMAIN journal' /\ journal'[t] = journal[t]
    BY <1>2, <2>1 DEF HandedOver
  <2> QED BY <1>4, <2>1, <2>2 DEF HandedOver
<1>7. work[o].state = "failed" => GaveUp(o)'
  BY <1>1, <1>2 DEF WorkFollows, GaveUp
<1> QED BY <1>1, <1>3, <1>4, <1>5, <1>6, <1>7 DEF WorkFollows, Fresh

(* A record that dispatches nothing leaves the dispatches.                 *)
LEMMA ChainedStays ==
    ASSUME GraphInv, IsAccepted, UNCHANGED <<graph, root>>, Advances,
           work' \in [Orders -> WorkRecords],
           \/ UNCHANGED journal
           \/ \E record : Retain(record) /\ record.type # "AttemptDispatched"
    PROVE  Chained'
<1>1. IsSequence(journal)
  BY DEF GraphInv
<1>2. Dispatches' = Dispatches
  <2>1. CASE UNCHANGED journal
    BY <2>1 DEF Dispatches
  <2>2. CASE \E record : Retain(record) /\ record.type # "AttemptDispatched"
    BY <1>1, <2>2, DispatchesStay
  <2> QED BY <2>1, <2>2
<1>3. \A n \in Dispatches : journal'[n] = journal[n] /\ Dispatched(n)'
  BY DispatchedStays
<1> QED BY <1>2, <1>3 DEF GraphInv, Chained

(* The orders under way are finitely many.                                 *)
LEMMA ActiveIsFinite == ASSUME GraphInv PROVE IsFiniteSet(Active) /\ IsFiniteSet(Orders) /\ Active \subseteq Orders
<1>1. IsFiniteSet(Orders)
  BY IdsAreFinite DEF GraphInv, Proposal, Orders
<1>2. Active \subseteq Orders
  BY DEF Active, In
<1> QED BY <1>1, <1>2, FS_Subset
LEMMA ActiveStays ==
    ASSUME GraphInv, UNCHANGED policy, Active' \subseteq Active
    PROVE  Cardinality(Active') <= policy'.parallel
<1>1. IsFiniteSet(Active) /\ Cardinality(Active) <= policy.parallel
  BY ActiveIsFinite DEF GraphInv
<1>2. IsFiniteSet(Active') /\ Cardinality(Active') <= Cardinality(Active)
  BY <1>1, FS_Subset
<1>3. policy.parallel \in Nat
  BY ProposalsAreUnsigned DEF GraphInv, Proposal
<1>4. Cardinality(Active') \in Nat /\ Cardinality(Active) \in Nat
  BY <1>1, <1>2, FS_CardinalityType
<1> QED BY <1>1, <1>2, <1>3, <1>4

(* What remains to be shown of a step of a run.                            *)
LEMMA RunStep ==
    ASSUME GraphInv, phase = "Running", UNCHANGED input, Advances,
           work' \in [Orders -> WorkRecords],
           UNCHANGED journal \/ \E record : Retain(record),
           Chained', \A o \in Orders : work'[o] = work[o] \/ WorkFollows(o)',
           Cardinality(Active') <= policy'.parallel,
           LoopTypes', phase' \notin {"Proposed", "Rejected", "Invariant"},
           phase' = "Running" => LoopFollows', FinishIsAccurate'
    PROVE  GraphInv'
<1>1. IsAccepted /\ IsAccepted' /\ UNCHANGED <<graph, policy, root>> /\ Orders' = Orders
  BY DEF IsAccepted, input, Orders
<1>2. Proposal'
  BY <1>1 DEF GraphInv, Proposal
<1>3. IsSequence(journal)' /\ Rooted'
  <2>1. /\ IsSequence(journal)' /\ Len(journal) \in Nat /\ Len(journal') \in Nat /\ Len(journal) <= Len(journal')
        /\ \A n \in DOMAIN journal : n \in DOMAIN journal' /\ journal'[n] = journal[n]
    BY RecordsStay DEF GraphInv
  <2>2. root \in 0..Len(journal) /\ RootRecord(journal, root)
    BY <1>1 DEF GraphInv, Rooted
  <2>3. root' \in 0..Len(journal')
    BY <1>1, <2>1, <2>2
  <2>4. RootRecord(journal, root)'
    BY <1>1, <2>1, <2>2 DEF RootRecord
  <2> QED BY <1>1, <2>1, <2>3, <2>4 DEF Rooted
<1>4. \A o \in Orders : WorkFollows(o)'
  BY <1>1, WorkStays
<1>5. NeverStalls'
  BY DEF NeverStalls
<1> QED BY <1>1, <1>2, <1>3, <1>4, <1>5 DEF GraphInv

(* A journal that fails ends the run as it is.                             *)
LEMMA LostJournalKeeps == ASSUME GraphInv, phase = "Running", JournalFails PROVE GraphInv'
<1>1. UNCHANGED <<input, loop, progress, blocking, work, unproven, journal>> /\ phase' = "JournalError"
  BY DEF JournalFails
<1>2. UNCHANGED <<graph, policy, root>> /\ Orders' = Orders /\ IsAccepted
  BY <1>1 DEF input, Orders, IsAccepted
<1>3. work' \in [Orders -> WorkRecords] /\ Advances
  BY <1>1 DEF GraphInv, Advances
<1>4. Chained'
  BY <1>1, <1>2, <1>3, ChainedStays
<1>5. Active' = Active
  BY <1>1, <1>2 DEF Active, In
<1>6. Cardinality(Active') <= policy'.parallel
  BY <1>2, <1>5, ActiveStays
<1>7. LoopTypes' /\ FinishIsAccurate'
  BY <1>1, <1>2 DEF GraphInv, LoopTypes, Ended, FinishIsAccurate
<1> QED BY <1>1, <1>3, <1>4, <1>6, <1>7, RunStep

(* A record of the loop's own, while no order moves.                       *)
LEMMA LoopRecordKeeps ==
    ASSUME GraphInv, phase = "Running", UNCHANGED <<input, work>>,
           UNCHANGED journal \/ \E record : Retain(record) /\ record.type # "AttemptDispatched",
           LoopTypes', phase' \notin {"Proposed", "Rejected", "Invariant"},
           phase' = "Running" => LoopFollows', FinishIsAccurate'
    PROVE  GraphInv'
<1>1. UNCHANGED <<graph, policy, root>> /\ Orders' = Orders /\ IsAccepted
  BY DEF input, Orders, IsAccepted
<1>2. work' \in [Orders -> WorkRecords] /\ Advances
  BY DEF GraphInv, Advances
<1>3. Chained'
  BY <1>1, <1>2, ChainedStays
<1>4. Active' = Active
  BY <1>1 DEF Active, In
<1>5. Cardinality(Active') <= policy'.parallel
  BY <1>1, <1>4, ActiveStays
<1> QED BY <1>2, <1>3, <1>5, RunStep

LEMMA AcceptKeeps == ASSUME GraphInv, Accept PROVE GraphInv'
<1>1. /\ phase = "Proposed" /\ ~IsAccepted /\ Dispatches = {} /\ loop = "scan"
      /\ UNCHANGED <<graph, policy, loop, progress, blocking, work, unproven>> /\ Orders' = Orders
      /\ \A o \in Orders : work[o] = Fresh
  BY DEF Accept, GraphInv, IsAccepted, Rooted, LoopTypes, Orders
<1>2. UNCHANGED journal \/ \E record : Retain(record)
  BY DEF Accept
<1>3. /\ IsSequence(journal) /\ IsSequence(journal)'
      /\ Len(journal) \in Nat /\ Len(journal') \in Nat /\ Len(journal) <= Len(journal')
      /\ DOMAIN journal = 1..Len(journal) /\ DOMAIN journal' = 1..Len(journal')
      /\ \A n \in DOMAIN journal : n \in DOMAIN journal' /\ journal'[n] = journal[n]
  BY <1>2, RecordsStay DEF GraphInv
<1>4. Dispatches' = {}
  <2>1. CASE UNCHANGED journal
    BY <1>1, <2>1 DEF Dispatches
  <2>2. CASE Retain([type |-> "GraphAccepted", parent |-> 0])
    BY <1>1, <1>3, <2>2, DispatchesStay
  <2> QED BY <2>1, <2>2 DEF Accept
<1>5. ASSUME NEW o \in Orders PROVE WorkFollows(o)'
  <2>1. WorkFollows(o) /\ work[o] \in WorkRecords
    BY DEF GraphInv
  <2>3. Bounded(o)'
    BY <1>1, <1>3, <2>1 DEF WorkFollows, Bounded, WorkRecords
  <2> QED BY <1>1, <2>3 DEF WorkFollows, Fresh
<1>6. Chained'
  BY <1>4 DEF Chained
<1>7. Active' = Active
  BY <1>1 DEF Active, In
<1>8. Cardinality(Active') <= policy'.parallel
  BY <1>1, <1>7, ActiveStays
<1>9. LoopTypes' /\ NeverStalls' /\ FinishIsAccurate' /\ (phase' = "Running" => LoopFollows')
  BY <1>1 DEF Accept, GraphInv, LoopTypes, Ended, NeverStalls, FinishIsAccurate, LoopFollows
<1>10. Proposal' /\ Rooted'
  <2>1. CASE phase' = "Rejected" /\ UNCHANGED <<journal, root>>
    BY <1>1, <1>4, <2>1 DEF GraphInv, Proposal, Rooted, IsAccepted
  <2>2. CASE /\ Valid(graph, policy)
             /\ phase' = "Running" /\ root' = NextId
             /\ Retain([type |-> "GraphAccepted", parent |-> 0])
    <3>1. Proposal'
      BY <1>1, <2>2 DEF GraphInv, Proposal
    <3>2. root' = Len(journal') /\ root' \in DOMAIN journal' /\ journal'[root'].type = "GraphAccepted"
      BY <1>3, <2>2, RecordAdded
    <3> QED BY <1>3, <2>2, <3>1, <3>2 DEF Rooted, RootRecord, IsAccepted
  <2> QED BY <2>1, <2>2 DEF Accept
<1> QED BY <1>1, <1>3, <1>5, <1>6, <1>8, <1>9, <1>10 DEF GraphInv

-----------------------------------------------------------------------------
(* The loop.                                                               *)

LEMMA SuspendKeeps == ASSUME GraphInv, Suspend PROVE GraphInv'
<1>1. CASE JournalFails
  BY <1>1, LostJournalKeeps DEF Suspend
<1>2. CASE ~JournalFails
  <2>1. /\ phase = "Running" /\ phase' = "Suspended" /\ UNCHANGED <<input, loop, progress, blocking, work, unproven>>
        /\ Retain([type |-> "GraphSuspended", parent |-> FirstTerminal(unproven)])
    BY <1>2 DEF Suspend
  <2>2. LoopTypes' /\ FinishIsAccurate'
    BY <2>1 DEF GraphInv, LoopTypes, Ended, FinishIsAccurate, Orders, input
  <2>3. [type |-> "GraphSuspended", parent |-> FirstTerminal(unproven)].type # "AttemptDispatched"
    OBVIOUS
  <2> QED BY <2>1, <2>2, <2>3, LoopRecordKeeps
<1> QED BY <1>1, <1>2

LEMMA DrainKeeps == ASSUME GraphInv, Drain PROVE GraphInv'
<1>1. /\ phase = "Running" /\ loop' = "await"
      /\ UNCHANGED <<input, phase, progress, blocking, work, unproven, journal>>
  BY DEF Drain
<1>2. LoopTypes' /\ FinishIsAccurate' /\ LoopFollows'
  BY <1>1 DEF GraphInv, LoopTypes, Ended, FinishIsAccurate, LoopFollows, Orders, input
<1> QED BY <1>1, <1>2, LoopRecordKeeps

(* The scan finds every order that is to be blocked now.                   *)
LEMMA ScanKeeps == ASSUME GraphInv, Scan PROVE GraphInv'
<1>1. /\ phase = "Running" /\ UNCHANGED <<input, phase, work, unproven, journal>>
      /\ blocking' = {o \in Pending : FailedDependencies(o) # {}}
      /\ progress' = (blocking' # {})
      /\ loop' = IF blocking' = {} THEN "fill" ELSE "block"
  BY DEF Scan
<1>2. /\ IsAccepted /\ UNCHANGED graph /\ Orders' = Orders /\ Pending' = Pending /\ Pending \subseteq Orders
  BY <1>1 DEF IsAccepted, input, Orders, Pending, In
<1>3. LoopTypes' /\ FinishIsAccurate'
  BY <1>1, <1>2 DEF GraphInv, LoopTypes, Ended, FinishIsAccurate
<1>4. ASSUME NEW o \in Pending, FailedDependencies(o) = {} PROVE Scanned(o)'
  <2>1. Dependencies(o)' = Dependencies(o) /\ Dependencies(o) \subseteq Orders
    BY <1>2, OrderFacts DEF Dependencies
  <2>2. \A d \in Dependencies(o) : work[d].failure = "none"
    BY <1>4, <2>1 DEF FailedDependencies, Failed, Dependencies
  <2> QED BY <1>1, <2>1, <2>2 DEF Scanned, Completed
<1>5. \A o \in Pending : FailedDependencies(o)' = FailedDependencies(o)
  BY <1>1, <1>2 DEF FailedDependencies, Failed
<1>6. LoopFollows'
  <2>1. \A o \in Pending \ blocking' : FailedDependencies(o) = {}
    BY <1>1
  <2>2. (loop' = "block" => blocking' # {} /\ progress') /\ (loop' = "fill" => blocking' = {}) /\ loop' # "finish"
    BY <1>1
  <2>3. blocking' \subseteq Pending' /\ \A o \in Pending' \ blocking' : Scanned(o)'
    BY <1>1, <1>2, <1>4, <2>1
  <2>4. loop' = "fill" => \A o \in Pending' : FailedDependencies(o)' = {}
    BY <1>2, <1>5, <2>1, <2>2
  <2> QED BY <2>2, <2>3, <2>4 DEF LoopFollows
<1> QED BY <1>1, <1>3, <1>6, LoopRecordKeeps

(* An order is blocked on a failure; no other is affected.                 *)
LEMMA BlockKeeps == ASSUME GraphInv, Block PROVE GraphInv'
<1>1. CASE JournalFails
  BY <1>1, LostJournalKeeps DEF Block
<1>2. CASE ~JournalFails
  <2>0. PICK o : o = Min(blocking)
    OBVIOUS
  <2> DEFINE record == [type |-> "WorkOrderBlocked", order |-> o, parent |-> FirstTerminal(FailedDependencies(o))]
             w == [work[o] EXCEPT !.state = "failed", !.failure = "Dependency", !.terminal = NextId]
  <2>1. /\ phase = "Running" /\ loop = "block" /\ Retain(record)
        /\ work' = [work EXCEPT ![o].state = "failed", ![o].failure = "Dependency", ![o].terminal = NextId]
        /\ blocking' = blocking \ {o}
        /\ loop' = IF blocking' = {} THEN "fill" ELSE "block"
        /\ UNCHANGED <<input, phase, progress, unproven>>
    BY <1>2, <2>0 DEF Block
  <2>2. /\ IsAccepted /\ UNCHANGED <<graph, policy, root>> /\ Orders' = Orders /\ Pending \subseteq Orders
    BY <2>1 DEF IsAccepted, input, Orders, Pending, In
  <2>3. /\ blocking # {} /\ blocking \subseteq Pending /\ progress
        /\ \A p \in Pending \ blocking : Scanned(p)
    BY <2>1 DEF GraphInv, LoopFollows
  <2>4. o \in Pending /\ o \in Orders /\ o \in blocking
    <3>1. Orders \subseteq Nat
      BY IdsAreFinite DEF GraphInv, Proposal, Orders
    <3> QED BY <2>0, <2>2, <2>3, <3>1, Least
  <2>5. work[o] = Fresh /\ work \in [Orders -> WorkRecords] /\ IsSequence(journal)
    BY <2>4 DEF GraphInv, WorkFollows, Pending, In
  <2>6. NextId \in Nat /\ Len(journal') = NextId /\ NextId \in DOMAIN journal' /\ journal'[NextId] = record
    BY <2>1, <2>5, RecordAdded
  <2>7. work' = [work EXCEPT ![o] = w] /\ w \in WorkRecords
    BY <2>1, <2>4, <2>5, <2>6 DEF WorkRecords, States, Failures
  <2>8. work' \in [Orders -> WorkRecords] /\ work'[o] = w /\ \A p \in Orders \ {o} : work'[p] = work[p]
    BY <2>4, <2>5, <2>7
  <2>a. /\ work[o].state = "pending" /\ work[o].attempt = 0
        /\ work'[o].state = "failed" /\ work'[o].attempt = 0
    BY <2>5, <2>8 DEF Fresh
  <2>9. Advances
    <3> SUFFICES ASSUME NEW p \in Orders, p = o
                 PROVE  /\ work[p].state # "handoff" /\ work'[p].attempt >= work[p].attempt
                        /\ work'[p].state = "starting" => work'[p].attempt > work[p].attempt
      BY <2>8 DEF Advances
    <3>1. 0 >= 0
      OBVIOUS
    <3> QED BY <2>a, <3>1
  <2>10. Chained'
    BY <2>1, <2>2, <2>8, <2>9, ChainedStays
  <2>11. WorkFollows(o)'
    <3>1. Order(graph, o).attempts \in Nat
      BY <2>2, <2>4, OrderFacts
    <3>2. Bounded(o)'
      BY <2>2, <2>5, <2>6, <2>8, <3>1 DEF Bounded, Fresh
    <3>3. GaveUp(o)'
      BY <2>5, <2>6, <2>8 DEF GaveUp, Fresh
    <3> QED BY <2>5, <2>8, <3>2, <3>3 DEF WorkFollows, Fresh
  <2>12. Active' \subseteq Active /\ Pending' = Pending \ {o}
    <3>1. \A s : In(s)' = {p \in Orders : work'[p].state = s} /\ In(s) = {p \in Orders : work[p].state = s}
      BY <2>2 DEF In
    <3>2. ASSUME NEW s \in States \ {"failed"} PROVE \A p : p \in In(s)' => p \in In(s) /\ p # o
      BY <2>4, <2>8, <2>a, <3>1
    <3>3. ASSUME NEW p \in In("pending") \ {o} PROVE p \in In("pending")'
      BY <2>8, <3>1
    <3> QED BY <3>2, <3>3 DEF Active, Pending, States
  <2>13. Cardinality(Active') <= policy'.parallel
    BY <2>2, <2>12, ActiveStays
  <2>14. LoopTypes' /\ FinishIsAccurate'
    BY <2>1, <2>2 DEF GraphInv, LoopTypes, Ended, FinishIsAccurate
  <2>15. LoopFollows'
    <3>1. ASSUME NEW p \in Pending' \ blocking' PROVE Scanned(p)'
      <4>1. p \in Pending \ blocking /\ p \in Orders
        BY <2>1, <2>2, <2>12, <3>1
      <4>2. Dependencies(p)' = Dependencies(p) /\ Dependencies(p) \subseteq Orders
        BY <2>2, <4>1, OrderFacts DEF Dependencies
      <4>3. \A d \in Dependencies(p) : work'[d].state = "handoff" => work'[d] = work[d]
        BY <2>5, <2>8, <4>2 DEF Fresh
      <4> QED BY <2>3, <4>1, <4>2, <4>3 DEF Scanned, Completed
    <3>2. blocking' \subseteq Pending'
      BY <2>1, <2>3, <2>12
    <3> QED BY <2>1, <2>3, <3>1, <3>2 DEF LoopFollows
  <2> QED BY <2>1, <2>8, <2>9, <2>10, <2>11, <2>13, <2>14, <2>15, RunStep
<1> QED BY <1>1, <1>2

-----------------------------------------------------------------------------
(* Filling the slots.                                                      *)

(* The order in which ready orders are taken is total.                     *)
LEMMA BeforeIsAnOrder ==
    ASSUME GraphInv, IsAccepted, NEW a \in Orders, NEW b \in Orders
    PROVE  /\ ~Before(a, a)
           /\ a # b => Before(a, b) \/ Before(b, a)
           /\ \A c \in Orders : Before(c, a) /\ Before(a, b) => Before(c, b)
<1>1. \A c \in Orders : Order(graph, c).priority \in Nat /\ c \in Nat
  BY ValidOrder, OrderFacts DEF GraphInv, Proposal, Orders
<1> QED BY <1>1 DEF Before

(* What is taken before an order that is taken before is less.             *)
Ahead(o) == {r \in Ready : Before(r, o)}
LEMMA AheadIsLess ==
    ASSUME GraphInv, IsAccepted, NEW a \in Ready, NEW b \in Ready, Before(a, b)
    PROVE  /\ Cardinality(Ahead(a)) \in Nat /\ Cardinality(Ahead(b)) \in Nat
           /\ Cardinality(Ahead(a)) < Cardinality(Ahead(b))
<1>1. Ready \subseteq Orders
  BY DEF Ready, Pending, In
<1>2. IsFiniteSet(Ahead(a)) /\ IsFiniteSet(Ahead(b))
  <2>1. Ahead(a) \subseteq Orders /\ Ahead(b) \subseteq Orders
    BY <1>1 DEF Ahead
  <2> QED BY <2>1, ActiveIsFinite, FS_Subset
<1>3. Ahead(a) \subseteq Ahead(b) /\ a \in Ahead(b) /\ a \notin Ahead(a)
  BY <1>1, BeforeIsAnOrder DEF Ahead
<1>4. /\ Cardinality(Ahead(a)) <= Cardinality(Ahead(b))
      /\ Cardinality(Ahead(a)) # Cardinality(Ahead(b))
  BY <1>2, <1>3, FS_Subset
<1>5. Cardinality(Ahead(a)) \in Nat /\ Cardinality(Ahead(b)) \in Nat
  BY <1>2, FS_CardinalityType
<1> QED BY <1>4, <1>5

(* The free slots.                                                         *)
LEMMA FreeSlots ==
    ASSUME GraphInv
    PROVE  Slots \in Nat /\ Cardinality(Active) \in Nat /\ Slots = policy.parallel - Cardinality(Active)
<1>1. policy.parallel \in Nat
  BY ProposalsAreUnsigned DEF GraphInv, Proposal
<1>2. Cardinality(Active) \in Nat /\ Cardinality(Active) <= policy.parallel
  BY ActiveIsFinite, FS_CardinalityType DEF GraphInv
<1> DEFINE x == policy.parallel - Cardinality(Active)
<1>3. x \in Nat
  BY <1>1, <1>2
<1> HIDE DEF x
<1>4. x \in {0, x} /\ \A y \in {0, x} : x >= y
  BY <1>3
<1>5. \A z \in {0, x} : (\A y \in {0, x} : z >= y) => z = x
  BY <1>3
<1>6. Max({0, x}) = x
  BY <1>4, <1>5 DEF Max
<1>7. Slots = x
  BY <1>6 DEF Slots, x
<1> QED BY <1>2, <1>3, <1>7 DEF x

(* No more are started than there are free slots.                          *)
LEMMA StartedFit ==
    ASSUME GraphInv, IsAccepted
    PROVE  /\ Started \subseteq Pending /\ IsFiniteSet(Started)
           /\ Cardinality(Active \cup Started) <= policy.parallel
<1>1. Started \subseteq Ready /\ Ready \subseteq Pending /\ Pending \subseteq Orders
  BY DEF Started, Ready, Pending, In
<1>2. IsFiniteSet(Started) /\ IsFiniteSet(Active)
  <2>1. Started \subseteq Orders
    BY <1>1
  <2> QED BY <2>1, ActiveIsFinite, FS_Subset
<1>3. Slots \in Nat /\ Cardinality(Active) \in Nat /\ Slots = policy.parallel - Cardinality(Active)
  BY FreeSlots
<1> DEFINE rank == [o \in Started |-> Cardinality(Ahead(o))]
<1>4. \A o \in Started : rank[o] \in 0..(Slots - 1)
  <2> TAKE o \in Started
  <2>1. Cardinality(Ahead(o)) < Slots
    BY DEF Started, Ahead
  <2>2. Cardinality(Ahead(o)) \in Nat
    <3>1. Ahead(o) \subseteq Orders
      BY <1>1 DEF Ahead
    <3> QED BY <3>1, ActiveIsFinite, FS_Subset, FS_CardinalityType
  <2> QED BY <1>3, <2>1, <2>2
<1>5. rank \in [Started -> 0..(Slots - 1)]
  BY <1>4
<1>6. ASSUME NEW a \in Started, NEW b \in Started, rank[a] = rank[b], a # b PROVE FALSE
  <2>1. Before(a, b) \/ Before(b, a)
    BY <1>1, <1>6, BeforeIsAnOrder
  <2>2. CASE Before(a, b)
    BY <1>1, <1>6, <2>2, AheadIsLess
  <2>3. CASE Before(b, a)
    BY <1>1, <1>6, <2>3, AheadIsLess
  <2> QED BY <2>1, <2>2, <2>3
<1>7. IsFiniteSet(0..(Slots - 1)) /\ Cardinality(0..(Slots - 1)) = Slots
  <2>0. PICK a, b : a = 0 /\ b = Slots - 1
    OBVIOUS
  <2>1. a \in Int /\ b \in Int
    BY <1>3, <2>0
  <2>2. IsFiniteSet(a..b) /\ Cardinality(a..b) = IF a > b THEN 0 ELSE b - a + 1
    BY <2>1, FS_Interval
  <2>3. Cardinality(a..b) = Slots
    BY <1>3, <2>0, <2>2
  <2> QED BY <2>0, <2>2, <2>3
<1>8. Cardinality(Started) <= Slots
  <2> HIDE DEF rank
  <2> QED BY <1>5, <1>6, <1>7, RoomFor
<1>9. Cardinality(Active \cup Started) = Cardinality(Active) + Cardinality(Started) - Cardinality(Active \cap Started)
  BY <1>2, FS_Union
<1>10. Cardinality(Active \cap Started) \in Nat /\ Cardinality(Started) \in Nat
  BY <1>2, FS_Intersection, FS_CardinalityType
<1>11. policy.parallel \in Nat
  BY ProposalsAreUnsigned DEF GraphInv, Proposal
<1> QED BY <1>1, <1>2, <1>3, <1>8, <1>9, <1>10, <1>11

(* If nothing runs and nothing pending depends on a failure, something is  *)
(* started: a valid graph has no cycle, and a policy allows one order.     *)
LEMMA SomethingStarts ==
    ASSUME GraphInv, IsAccepted, Active = {}, Pending # {},
           \A o \in Pending : FailedDependencies(o) = {}
    PROVE  Started # {}
<1>1. graph \in Graphs /\ Valid(graph, policy) /\ Orders = Ids(graph) /\ Pending \subseteq Orders
  BY DEF GraphInv, Proposal, Orders, Pending, In
<1>2. PICK x \in Pending : Known(graph, x) \cap Pending = {}
  BY <1>1, SomeOrderIsFree DEF Valid
<1>3. x \in Ready
  <2>1. SUFFICES ASSUME NEW d \in Dependencies(x) PROVE d \in Handoffs
    BY DEF Ready, Dependencies
  <2>2. d \in Orders /\ d \notin Pending
    BY <1>1, <1>2, OrderFacts DEF Known, Dependencies
  <2>3. d \notin Failed
    BY <1>2, <2>2 DEF FailedDependencies, Dependencies
  <2>4. work[d] \in WorkRecords /\ WorkFollows(d)
    BY <2>2 DEF GraphInv
  <2>5. work[d].state \notin {"pending", "starting", "executing", "cleanup"}
    BY <2>2 DEF Pending, Active, In
  <2>6. work[d].state # "failed"
    BY <2>2, <2>3, <2>4 DEF WorkFollows, GaveUp, Failed
  <2> QED BY <2>2, <2>4, <2>5, <2>6 DEF WorkRecords, States, Handoffs, In
<1> DEFINE Ranks == {Cardinality(Ahead(o)) : o \in Ready}
<1>4. Ready \subseteq Orders
  BY DEF Ready, Pending, In
<1>5. \A o \in Ready : Cardinality(Ahead(o)) \in Nat /\ IsFiniteSet(Ahead(o))
  <2> TAKE o \in Ready
  <2>1. Ahead(o) \subseteq Orders
    BY <1>4 DEF Ahead
  <2> QED BY <2>1, ActiveIsFinite, FS_Subset, FS_CardinalityType
<1>6. Ranks \subseteq Nat /\ Ranks # {}
  BY <1>3, <1>5
<1>7. Min(Ranks) \in Ranks /\ \A k \in Ranks : Min(Ranks) <= k
  <2> HIDE DEF Ranks
  <2> QED BY <1>6, Least
<1>8. PICK o \in Ready : Cardinality(Ahead(o)) = Min(Ranks)
  BY <1>7
<1>9. \A r \in Ready : Cardinality(Ahead(o)) <= Cardinality(Ahead(r))
  BY <1>7, <1>8
<1>10. Ahead(o) = {}
  <2>1. SUFFICES ASSUME NEW r \in Ready, Before(r, o) PROVE FALSE
    BY DEF Ahead
  <2>2. Cardinality(Ahead(r)) < Cardinality(Ahead(o))
    BY <2>1, AheadIsLess
  <2> QED BY <1>5, <1>9, <2>2
<1>11. Slots > 0
  <2>1. policy.parallel > 0 /\ policy.parallel \in Nat
    BY <1>1, ProposalsAreUnsigned DEF Valid, PolicyValid, GraphInv, Proposal
  <2>2. Cardinality(Active) = 0
    BY FS_EmptySet
  <2> QED BY <2>1, <2>2, FreeSlots
<1>12. o \in Started
  BY <1>10, <1>11, FS_EmptySet DEF Started, Ahead
<1> QED BY <1>12

(* The slots are filled with orders whose dependencies were handed over    *)
(* complete, and there is one to fill them with unless all has ended.      *)
LEMMA FillKeeps == ASSUME GraphInv, Fill PROVE GraphInv'
<1>1. /\ phase = "Running" /\ loop = "fill" /\ UNCHANGED <<input, blocking, unproven, journal>>
      /\ work' = [o \in Orders |-> IF o \in Started
                                   THEN [Fresh EXCEPT !.state = "starting", !.attempt = 1, !.parent = FirstParent(o)]
                                   ELSE work[o]]
      /\ progress' = (progress \/ Started # {})
  BY DEF Fill
<1>2. /\ IsAccepted /\ UNCHANGED <<graph, policy, root>> /\ Orders' = Orders /\ Pending \subseteq Orders
  BY <1>1 DEF IsAccepted, input, Orders, Pending, In
<1>3. /\ blocking = {} /\ (\A p \in Pending : Scanned(p))
      /\ ~progress => \A o \in Pending : FailedDependencies(o) = {}
  BY <1>1 DEF GraphInv, LoopFollows
<1>4. work \in [Orders -> WorkRecords] /\ IsSequence(journal) /\ root \in 0..Len(journal) /\ Len(journal) \in Nat
  BY AppendGrows DEF GraphInv, Rooted
<1>5. /\ Started \subseteq Pending /\ Started \subseteq Ready
      /\ Cardinality(Active \cup Started) <= policy.parallel
  BY <1>2, StartedFit DEF Started
<1>6. ASSUME NEW o \in Started
      PROVE  /\ o \in Orders /\ work[o] = Fresh /\ Supplied(o)
             /\ FirstParent(o) \in Nat /\ FirstParent(o) <= Len(journal)
  <2>1. o \in Orders /\ o \in Pending /\ Dependencies(o) \subseteq Handoffs
    BY <1>2, <1>5 DEF Ready, Dependencies
  <2>2. work[o] = Fresh
    BY <2>1 DEF GraphInv, WorkFollows, Pending, In
  <2>3. Supplied(o)
    BY <1>3, <2>1 DEF Supplied, Scanned, Handoffs, In
  <2>4. FirstParent(o) \in Nat /\ FirstParent(o) <= Len(journal)
    <3>1. CASE Dependencies(o) = {}
      BY <1>4, <3>1 DEF FirstParent, Dependencies
    <3>2. CASE Dependencies(o) # {}
      <4>1. PICK d \in Orders : d = Min(Dependencies(o))
        BY <1>2, <2>1, <3>2, OrderFacts
      <4>2. FirstParent(o) = work[d].terminal
        BY <3>2, <4>1 DEF FirstParent, FirstTerminal, Dependencies
      <4>3. work[d] \in WorkRecords /\ Bounded(d)
        BY <1>4 DEF GraphInv, WorkFollows
      <4> QED BY <4>2, <4>3 DEF WorkRecords, Bounded
    <3> QED BY <3>1, <3>2
  <2> QED BY <2>1, <2>2, <2>3, <2>4
<1> DEFINE w(o) == [Fresh EXCEPT !.state = "starting", !.attempt = 1, !.parent = FirstParent(o)]
<1>7. \A o \in Orders : work'[o] = IF o \in Started THEN w(o) ELSE work[o]
  BY <1>1
<1>8. ASSUME NEW o \in Started
      PROVE  /\ w(o) \in WorkRecords /\ w(o).state = "starting" /\ w(o).attempt = 1 /\ w(o).failure = "none"
             /\ w(o).parent = FirstParent(o) /\ w(o).dispatched = 0 /\ w(o).terminal = 0
  BY <1>6 DEF Fresh, WorkRecords, States
<1> HIDE DEF w
<1>9. work' \in [Orders -> WorkRecords]
  <2>1. \A o \in Orders : (IF o \in Started THEN w(o) ELSE work[o]) \in WorkRecords
    BY <1>4, <1>8
  <2> QED BY <1>1, <1>7, <2>1
<1>10. Advances
  <2> SUFFICES ASSUME NEW o \in Orders, o \in Started
               PROVE  /\ work[o].state # "handoff" /\ work'[o].attempt >= work[o].attempt
                      /\ work'[o].state = "starting" => work'[o].attempt > work[o].attempt
    BY <1>7 DEF Advances
  <2>1. work'[o].attempt = 1 /\ work[o].attempt = 0 /\ work[o].state = "pending"
    BY <1>6, <1>7, <1>8 DEF Fresh
  <2> QED BY <2>1
<1>11. Chained'
  BY <1>1, <1>2, <1>9, <1>10, ChainedStays
<1>12. ASSUME NEW o \in Started PROVE WorkFollows(o)'
  <2>1. /\ work'[o] = w(o) /\ o \in Orders /\ Supplied(o)
    BY <1>6, <1>7
  <2>2. PICK f : f = FirstParent(o)
    OBVIOUS
  <2>3. Caused(o, 1, f)
    BY <2>2 DEF Caused
  <2>4. Supplied(o)' /\ Caused(o, 1, f)'
    BY <1>1, <1>2, <1>10, <2>1, <2>3, CausesStay
  <2>5. Order(graph, o).attempts \in Nat \ {0}
    BY <1>2, <2>1, OrderFacts
  <2>6. /\ work'[o].state = "starting" /\ work'[o].attempt = 1 /\ work'[o].failure = "none"
        /\ work'[o].parent = f /\ work'[o].dispatched = 0 /\ work'[o].terminal = 0
        /\ f <= Len(journal)
    BY <1>6, <1>8, <2>1, <2>2
  <2>7. Bounded(o)'
    <3>1. Order(graph, o)' = Order(graph, o) /\ journal' = journal
      BY <1>1, <1>2
    <3>2. 1 <= Order(graph, o).attempts /\ 0 <= Len(journal)
      BY <1>4, <2>5
    <3> QED BY <2>6, <3>1, <3>2 DEF Bounded
  <2> QED BY <2>4, <2>6, <2>7 DEF WorkFollows
<1>13. Active' = Active \cup Started /\ Pending' = Pending \ Started
  <2>1. \A s : In(s)' = {p \in Orders : work'[p].state = s} /\ In(s) = {p \in Orders : work[p].state = s}
    BY <1>2 DEF In
  <2>2. \A o \in Orders : work'[o].state = IF o \in Started THEN "starting" ELSE work[o].state
    BY <1>7, <1>8
  <2>3. In("starting")' = In("starting") \cup Started /\ Started \subseteq Orders
    BY <1>2, <1>5, <2>1, <2>2
  <2>4. \A s : s \notin {"starting", "pending"} => In(s)' = In(s)
    <3>1. \A o \in Started : work[o].state = "pending"
      BY <1>5 DEF Pending, In
    <3> QED BY <2>1, <2>2, <3>1
  <2>5. In("pending")' = In("pending") \ Started
    BY <2>1, <2>2
  <2> QED BY <2>3, <2>4, <2>5 DEF Active, Pending
<1>14. Cardinality(Active') <= policy'.parallel
  BY <1>2, <1>5, <1>13
<1>15. phase' # "Invariant"
  <2>1. SUFFICES ASSUME Active \cup Started = {}, Pending # {}, ~progress' PROVE FALSE
    BY <1>1 DEF Fill
  <2>2. ~progress /\ Started = {} /\ Active = {}
    BY <1>1, <2>1
  <2> QED BY <1>2, <1>3, <2>1, <2>2, SomethingStarts
<1>16. phase' = "Running" /\ loop' \in {"scan", "await", "finish"}
       /\ (loop' = "finish" => Active \cup Started = {} /\ Pending = {})
  BY <1>1, <1>15 DEF Fill
<1>17. LoopTypes'
  <2>1. progress' \in BOOLEAN
    BY <1>1
  <2> QED BY <1>1, <1>2, <1>16, <2>1 DEF GraphInv, LoopTypes
<1>18. LoopFollows' /\ FinishIsAccurate'
  BY <1>13, <1>16 DEF LoopFollows, FinishIsAccurate
<1> QED BY <1>1, <1>9, <1>10, <1>11, <1>7, <1>12, <1>14, <1>16, <1>17, <1>18, RunStep

(* The report is of what was retained.                                     *)
LEMMA FinishKeeps == ASSUME GraphInv, Finish PROVE GraphInv'
<1>1. CASE JournalFails
  BY <1>1, LostJournalKeeps DEF Finish
<1>2. CASE ~JournalFails
  <2>0. PICK record : record = [type |-> "GraphFinished", parent |-> FirstTerminal(Orders), outcome |-> Outcome,
                     terminals |-> [o \in Orders |-> work[o].terminal]]
    OBVIOUS
  <2>1. /\ phase = "Running" /\ loop = "finish" /\ Retain(record)
        /\ phase' = "Finished" /\ UNCHANGED <<input, loop, progress, blocking, work, unproven>>
    BY <1>2, <2>0 DEF Finish
  <2>2. /\ IsAccepted /\ UNCHANGED <<graph, policy, root>> /\ Orders' = Orders /\ IsSequence(journal)
    BY <2>1 DEF IsAccepted, input, Orders, GraphInv
  <2>3. /\ NextId \in Nat /\ NextId = Len(journal) + 1 /\ Len(journal') = NextId /\ journal'[NextId] = record
        /\ DOMAIN journal = 1..Len(journal)
    BY <2>1, <2>2, RecordAdded
  <2>4. \A n \in DOMAIN journal : journal'[n] = journal[n]
    BY <2>1, <2>2, RecordsStay
  <2>5. Last(journal') = record
    BY <2>3 DEF Last
  <2>6. ASSUME NEW o \in Orders
        PROVE  /\ record.terminals[o] \in DOMAIN journal /\ record.terminals[o] # 0
               /\ journal'[record.terminals[o]] = journal[record.terminals[o]]
               /\ journal[record.terminals[o]].order = o
               /\ \/ work[o].state = "handoff" /\ HandedOver(o)
                  \/ work[o].state = "failed" /\ GaveUp(o)
    <3>1. work[o] \in WorkRecords /\ WorkFollows(o)
      BY DEF GraphInv
    <3>2. Active = {} /\ Pending = {}
      BY <2>1 DEF GraphInv, LoopFollows
    <3>3. work[o].state \notin {"pending", "starting", "executing", "cleanup"}
      BY <3>2 DEF Active, Pending, In
    <3>4. work[o].state \in {"handoff", "failed"}
      BY <3>1, <3>3 DEF WorkRecords, States
    <3>5. /\ \/ work[o].state = "handoff" /\ HandedOver(o)
             \/ work[o].state = "failed" /\ GaveUp(o)
      BY <3>1, <3>4 DEF WorkFollows
    <3>6. work[o].terminal \in DOMAIN journal /\ journal[work[o].terminal].order = o
      BY <3>5 DEF HandedOver, GaveUp
    <3>7. record.terminals[o] = work[o].terminal
      BY <2>0
    <3> QED BY <2>3, <2>4, <3>5, <3>6, <3>7
  <2>7. Outcome = "Completed" <=>
          \A o \in Orders : LET t == journal[record.terminals[o]]
                            IN  t.type = "HandoffRetained" /\ t.outcome = "Completed"
    <3>1. \A o \in Orders : record.terminals[o] = work[o].terminal
      BY <2>0
    <3>2. Outcome = "Completed" <=> Failed = {} /\ Handoffs = Orders
      BY DEF Outcome
    <3>3. Failed = {} /\ Handoffs = Orders <=>
            \A o \in Orders : work[o].state = "handoff" /\ work[o].failure = "none"
      BY DEF Failed, Handoffs, In
    <3>4. ASSUME NEW o \in Orders
          PROVE  work[o].state = "handoff" /\ work[o].failure = "none" <=>
                   journal[work[o].terminal].type = "HandoffRetained" /\ journal[work[o].terminal].outcome = "Completed"
      <4>1. CASE work[o].state = "handoff" /\ HandedOver(o)
        BY <4>1 DEF HandedOver
      <4>2. CASE work[o].state = "failed" /\ GaveUp(o)
        BY <4>2 DEF GaveUp
      <4> QED BY <2>6, <4>1, <4>2
    <3> QED BY <3>1, <3>2, <3>3, <3>4
  <2>8. record.outcome = Outcome /\ record.type # "AttemptDispatched"
    BY <2>0
  <2>9. FinishIsAccurate'
    BY <2>2, <2>5, <2>6, <2>7, <2>8 DEF FinishIsAccurate
  <2>10. LoopTypes'
    BY <2>1, <2>2 DEF GraphInv, LoopTypes, Ended
  <2> QED BY <2>1, <2>8, <2>9, <2>10, LoopRecordKeeps
<1> QED BY <1>1, <1>2

-----------------------------------------------------------------------------
(* The work orders' futures.                                               *)

(* What remains to be shown of a step of one order under way: the record   *)
(* it retains, if any, and where it leaves the order.                      *)
LEMMA PollStep ==
    ASSUME GraphInv, phase = "Running", loop = "await", NEW o \in Orders,
           work[o].state \in {"starting", "executing", "cleanup"},
           UNCHANGED <<input, phase, progress, blocking>>,
           NEW w \in WorkRecords, work' = [work EXCEPT ![o] = w],
           w.attempt >= work[o].attempt, w.state = "starting" => w.attempt > work[o].attempt,
           w.state # "pending",
           UNCHANGED journal \/ \E record : Retain(record),
           Chained', WorkFollows(o)',
           loop' \in {"await", "scan"}, unproven' \subseteq Orders
    PROVE  GraphInv'
<1>1. IsAccepted /\ UNCHANGED <<graph, policy, root>> /\ Orders' = Orders
  BY DEF IsAccepted, input, Orders
<1>2. work \in [Orders -> WorkRecords]
  BY DEF GraphInv
<1>3. work' \in [Orders -> WorkRecords] /\ work'[o] = w /\ \A p \in Orders \ {o} : work'[p] = work[p]
  BY <1>2
<1>4. Advances
  <2> SUFFICES ASSUME NEW p \in Orders, p = o
               PROVE  /\ work[p].state # "handoff" /\ work'[p].attempt >= work[p].attempt
                      /\ work'[p].state = "starting" => work'[p].attempt > work[p].attempt
    BY <1>3 DEF Advances
  <2> QED BY <1>3
<1>5. Active' \subseteq Active
  <2>1. o \in Active
    BY DEF Active, In
  <2>2. \A p \in Orders \ {o} : p \in Active' => p \in Active
    BY <1>1, <1>3 DEF Active, In
  <2>3. Active' \subseteq Orders
    BY <1>1 DEF Active, In
  <2> QED BY <2>1, <2>2, <2>3
<1>6. Cardinality(Active') <= policy'.parallel
  BY <1>1, <1>5, ActiveStays
<1>7. LoopTypes' /\ LoopFollows' /\ FinishIsAccurate'
  BY <1>1 DEF GraphInv, LoopTypes, LoopFollows, FinishIsAccurate
<1> QED BY <1>1, <1>3, <1>4, <1>6, <1>7, RunStep

(* A step of an order that dispatches nothing leaves the dispatches.       *)
LEMMA PollChained ==
    ASSUME GraphInv, phase = "Running", NEW o \in Orders,
           work[o].state \in {"starting", "executing", "cleanup"},
           UNCHANGED input,
           NEW w \in WorkRecords, work' = [work EXCEPT ![o] = w],
           w.attempt >= work[o].attempt, w.state = "starting" => w.attempt > work[o].attempt,
           \/ UNCHANGED journal
           \/ \E record : Retain(record) /\ record.type # "AttemptDispatched"
    PROVE  Chained' /\ Advances
<1>1. IsAccepted /\ UNCHANGED <<graph, root>>
  BY DEF IsAccepted, input
<1>2. work \in [Orders -> WorkRecords]
  BY DEF GraphInv
<1>3. work' \in [Orders -> WorkRecords] /\ work'[o] = w /\ \A p \in Orders \ {o} : work'[p] = work[p]
  BY <1>2
<1>4. Advances
  <2> SUFFICES ASSUME NEW p \in Orders, p = o
               PROVE  /\ work[p].state # "handoff" /\ work'[p].attempt >= work[p].attempt
                      /\ work'[p].state = "starting" => work'[p].attempt > work[p].attempt
    BY <1>3 DEF Advances
  <2> QED BY <1>3
<1>5. Chained'
  BY <1>1, <1>3, <1>4, ChainedStays
<1> QED BY <1>4, <1>5

(* The attempt's dispatch is the one record there is of it.                *)
LEMMA DispatchKeeps == ASSUME GraphInv, NEW o \in Orders, Dispatch(o) PROVE GraphInv'
<1>1. CASE JournalFails
  BY <1>1, LostJournalKeeps DEF Dispatch, Polled
<1>2. CASE ~JournalFails
  <2>0. PICK record, w :
           /\ record = [type |-> "AttemptDispatched", order |-> o, attempt |-> work[o].attempt,
                        retryOf |-> work[o].attempt - 1, parent |-> work[o].parent,
                        root |-> root, deps |-> DependencyEvents(o)]
           /\ w = [work[o] EXCEPT !.state = "executing", !.dispatched = NextId]
    OBVIOUS
  <2>1. /\ phase = "Running" /\ loop = "await" /\ work[o].state = "starting"
        /\ Retain(record) /\ UNCHANGED <<input, phase, progress, blocking, loop, unproven>>
        /\ work' = [work EXCEPT ![o].state = "executing", ![o].dispatched = NextId]
    BY <1>2, <2>0 DEF Dispatch, Polled, In, Calm
  <2>2. /\ IsAccepted /\ UNCHANGED <<graph, policy, root>> /\ Orders' = Orders
        /\ IsSequence(journal) /\ work \in [Orders -> WorkRecords] /\ work[o] \in WorkRecords
        /\ WorkFollows(o)
    BY <2>1 DEF IsAccepted, input, Orders, GraphInv
  <2>3. /\ NextId \in Nat /\ NextId = Len(journal) + 1 /\ Len(journal') = NextId
        /\ DOMAIN journal = 1..Len(journal) /\ NextId \notin DOMAIN journal
        /\ DOMAIN journal' = DOMAIN journal \cup {NextId} /\ journal'[NextId] = record
    BY <2>1, <2>2, RecordAdded
  <2>4. /\ w \in WorkRecords /\ w.state = "executing" /\ w.dispatched = NextId /\ w.attempt = work[o].attempt
        /\ w.parent = work[o].parent /\ w.terminal = work[o].terminal /\ w.failure = work[o].failure
    BY <2>0, <2>2, <2>3 DEF WorkRecords, States
  <2>5. work' = [work EXCEPT ![o] = w]
    BY <2>0, <2>1, <2>2
  <2>6. work' \in [Orders -> WorkRecords] /\ work'[o] = w /\ \A p \in Orders \ {o} : work'[p] = work[p]
    BY <2>2, <2>4, <2>5
  <2>7. work[o].attempt \in Nat /\ w.attempt >= work[o].attempt
    BY <2>2, <2>4 DEF WorkRecords
  <2>8. Advances
    <3> SUFFICES ASSUME NEW p \in Orders, p = o
                 PROVE  /\ work[p].state # "handoff" /\ work'[p].attempt >= work[p].attempt
                        /\ work'[p].state = "starting" => work'[p].attempt > work[p].attempt
      BY <2>6 DEF Advances
    <3> QED BY <2>1, <2>4, <2>6, <2>7
  <2>9. /\ work[o].attempt > 0 /\ work[o].failure = "none" /\ Supplied(o) /\ Bounded(o)
        /\ Caused(o, work[o].attempt, work[o].parent)
    BY <2>1, <2>2 DEF WorkFollows
  <2>10. PICK n, k, f : n = NextId /\ k = work[o].attempt /\ f = work[o].parent
    OBVIOUS
  <2>11. /\ record.type = "AttemptDispatched" /\ record.order = o /\ record.attempt = k
         /\ record.retryOf = k - 1 /\ record.parent = f
         /\ record.root = root /\ record.deps = DependencyEvents(o)
    BY <2>0, <2>10
  <2>12. Supplied(o)' /\ DependencyEvents(o)' = DependencyEvents(o) /\ Caused(o, k, f)'
    BY <2>1, <2>2, <2>8, <2>9, <2>10, CausesStay
  <2>13. Dispatched(n)'
    <3>1. root < n /\ f < n
      BY <2>2, <2>3, <2>9, <2>10 DEF GraphInv, Rooted, Bounded, WorkRecords
    <3>2. \A d \in Dependencies(o) : d \in Orders /\ work'[d] = work[d] /\ work[d].terminal < n
      <4>1. \A d \in Dependencies(o) : d \in Orders /\ work'[d] = work[d]
        BY <2>1, <2>2, <2>6, <2>9, OrderFacts DEF Supplied, Completed
      <4>2. \A d \in Orders : work[d].terminal <= Len(journal) /\ work[d].terminal \in Nat
        BY <2>2 DEF GraphInv, WorkFollows, Bounded, WorkRecords
      <4> QED BY <2>3, <2>10, <4>1, <4>2
    <3>3. Dependencies(o)' = Dependencies(o)
      BY <2>2 DEF Dependencies
    <3>4. k \in 1..work'[o].attempt /\ work'[o].state # "starting"
      BY <2>4, <2>6, <2>7, <2>9, <2>10
    <3>5. journal'[n] = record
      BY <2>3, <2>10
    <3> QED BY <2>2, <2>11, <2>12, <3>1, <3>2, <3>3, <3>4, <3>5 DEF Dispatched
  <2>14. \A m \in Dispatches : m # n /\ journal'[m] = journal[m] /\ Dispatched(m)'
    <3>1. \A m \in Dispatches : journal'[m] = journal[m] /\ Dispatched(m)'
      BY <2>1, <2>2, <2>6, <2>8, DispatchedStays
    <3>2. \A m \in Dispatches : m # n
      BY <2>3, <2>10 DEF Dispatches, DispatchedIn
    <3> QED BY <3>1, <3>2
  <2>15. Dispatches' = Dispatches \cup {n} /\ journal'[n] = record
    BY <2>1, <2>2, <2>3, <2>10, <2>11, DispatchesStay
  <2>16. \A m \in Dispatches : ~(journal[m].order = o /\ journal[m].attempt = k)
    BY <2>1, <2>10 DEF GraphInv, Chained, Dispatched
  <2>17. Chained'
    BY <2>11, <2>13, <2>14, <2>15, <2>16 DEF GraphInv, Chained
  <2>18. WorkFollows(o)'
    <3>1. Bounded(o)'
      <4>1. Order(graph, o)' = Order(graph, o) /\ Len(journal) <= Len(journal')
        BY <2>2, <2>3
      <4> QED BY <2>2, <2>3, <2>4, <2>6, <2>9, <4>1 DEF Bounded, WorkRecords
    <3>2. HasDispatch(o, n)'
      BY <2>4, <2>6, <2>10, <2>11, <2>15 DEF HasDispatch
    <3>3. work'[o].dispatched = n
      BY <2>4, <2>6, <2>10
    <3> QED BY <2>4, <2>6, <2>9, <2>12, <3>1, <3>2, <3>3 DEF WorkFollows
  <2>19. loop' \in {"await", "scan"} /\ unproven' \subseteq Orders
    BY <2>1 DEF GraphInv, LoopTypes
  <2> QED BY <2>1, <2>4, <2>5, <2>7, <2>17, <2>18, <2>19, PollStep
<1> QED BY <1>1, <1>2

(* An attempt that fails for good ends its order.                          *)
LEMMA FailKeeps ==
    ASSUME GraphInv, NEW o \in Orders, phase = "Running", loop = "await",
           work[o].state \in {"executing", "cleanup"},
           NEW failure \in {"Attempt", "Unproven"}, Fail(o, failure)
    PROVE  GraphInv'
<1>0. PICK record, w :
         /\ record = AttemptFailed(o, failure, FALSE)
         /\ w = [work[o] EXCEPT !.state = "failed", !.failure = failure, !.terminal = NextId]
  OBVIOUS
<1>1. /\ Retain(record) /\ UNCHANGED <<input, phase, progress, blocking>> /\ loop' = "scan"
      /\ work' = [work EXCEPT ![o].state = "failed", ![o].failure = failure, ![o].terminal = NextId]
      /\ unproven' = IF failure = "Unproven" THEN unproven \cup {o} ELSE unproven
  BY <1>0 DEF Fail, ApplyFailed, Calm
<1>2. /\ work \in [Orders -> WorkRecords] /\ work[o] \in WorkRecords /\ IsSequence(journal)
      /\ WorkFollows(o) /\ UNCHANGED graph
  BY <1>1 DEF GraphInv, input
<1>3. /\ NextId \in Nat /\ NextId = Len(journal) + 1 /\ Len(journal') = NextId
      /\ NextId \in DOMAIN journal' /\ journal'[NextId] = record
  BY <1>1, <1>2, RecordAdded
<1>4. record.type = "AttemptFailed" /\ record.order = o
  BY <1>0 DEF AttemptFailed
<1>5. /\ w \in WorkRecords /\ w.state = "failed" /\ w.failure = failure /\ w.terminal = NextId
      /\ w.attempt = work[o].attempt /\ w.parent = work[o].parent /\ w.dispatched = work[o].dispatched
  BY <1>0, <1>2, <1>3 DEF WorkRecords, States, Failures
<1>6. work' = [work EXCEPT ![o] = w] /\ work'[o] = w
  BY <1>0, <1>1, <1>2
<1>7. work[o].attempt \in Nat /\ w.attempt >= work[o].attempt
  BY <1>2, <1>5 DEF WorkRecords
<1>8. Chained'
  BY <1>1, <1>4, <1>5, <1>6, <1>7, PollChained
<1>9. WorkFollows(o)'
  <2>1. Bounded(o)
    BY <1>2 DEF WorkFollows
  <2>2. Bounded(o)'
    <3>1. Order(graph, o)' = Order(graph, o) /\ Len(journal) <= Len(journal')
      BY <1>2, <1>3
    <3> QED BY <1>2, <1>3, <1>5, <1>6, <2>1, <3>1 DEF Bounded, WorkRecords
  <2>3. GaveUp(o)'
    BY <1>3, <1>4, <1>5, <1>6 DEF GaveUp
  <2> QED BY <1>5, <1>6, <2>2, <2>3 DEF WorkFollows
<1>10. unproven' \subseteq Orders
  BY <1>1 DEF GraphInv, LoopTypes
<1> QED BY <1>1, <1>5, <1>6, <1>7, <1>8, <1>9, <1>10, PollStep

(* A handoff is retained with the dispatch it answers.                     *)
LEMMA HandOverKeeps ==
    ASSUME GraphInv, NEW o \in Orders, Polled(o, "executing"),
           NEW outcome \in {"Completed", "Partial"},
           Retain([type |-> "HandoffRetained", order |-> o, attempt |-> work[o].attempt,
                   parent |-> work[o].dispatched, outcome |-> outcome]),
           ApplyHandoff(o, outcome), Calm
    PROVE  GraphInv'
<1>0. PICK record, w, n :
         /\ record = [type |-> "HandoffRetained", order |-> o, attempt |-> work[o].attempt,
                      parent |-> work[o].dispatched, outcome |-> outcome]
         /\ w = [work[o] EXCEPT !.state = "handoff", !.terminal = NextId,
                                !.failure = IF outcome = "Completed" THEN "none" ELSE "Incomplete"]
         /\ n = work[o].dispatched
  OBVIOUS
<1>1. /\ phase = "Running" /\ loop = "await" /\ work[o].state = "executing"
      /\ Retain(record) /\ UNCHANGED <<input, phase, progress, blocking, unproven>> /\ loop' = "scan"
      /\ work' = [work EXCEPT ![o].state = "handoff", ![o].terminal = NextId,
                              ![o].failure = IF outcome = "Completed" THEN "none" ELSE "Incomplete"]
  BY <1>0 DEF ApplyHandoff, Polled, In, Calm
<1>2. /\ work \in [Orders -> WorkRecords] /\ work[o] \in WorkRecords /\ IsSequence(journal)
      /\ WorkFollows(o) /\ UNCHANGED graph
  BY <1>1 DEF GraphInv, input
<1>3. /\ NextId \in Nat /\ NextId = Len(journal) + 1 /\ Len(journal') = NextId
      /\ DOMAIN journal = 1..Len(journal)
      /\ NextId \in DOMAIN journal' /\ journal'[NextId] = record
  BY <1>1, <1>2, RecordAdded
<1>4. /\ record.type = "HandoffRetained" /\ record.order = o /\ record.attempt = work[o].attempt
      /\ record.parent = n /\ record.outcome = outcome
  BY <1>0
<1>5. /\ w \in WorkRecords /\ w.state = "handoff" /\ w.terminal = NextId
      /\ w.failure = "none" <=> outcome = "Completed"
      /\ w.attempt = work[o].attempt /\ w.parent = work[o].parent /\ w.dispatched = work[o].dispatched
  BY <1>0, <1>2, <1>3 DEF WorkRecords, States, Failures
<1>6. work' = [work EXCEPT ![o] = w] /\ work'[o] = w
  BY <1>0, <1>1, <1>2
<1>7. work[o].attempt \in Nat /\ w.attempt >= work[o].attempt
  BY <1>2, <1>5 DEF WorkRecords
<1>8. Chained'
  BY <1>1, <1>4, <1>5, <1>6, <1>7, PollChained
<1>9. HasDispatch(o, n) /\ n \in 1..Len(journal)
  BY <1>0, <1>1, <1>2, <1>3 DEF WorkFollows, HasDispatch, Dispatches, DispatchedIn
<1>10. HasDispatch(o, n)'
  <2>1. n \in Dispatches' /\ journal'[n] = journal[n]
    BY <1>1, <1>2, <1>9, DispatchesStay, RecordsStay DEF HasDispatch, Dispatches, DispatchedIn
  <2> QED BY <1>5, <1>6, <1>9, <2>1 DEF HasDispatch
<1>11. WorkFollows(o)'
  <2>1. Bounded(o)
    BY <1>2 DEF WorkFollows
  <2>2. Bounded(o)'
    <3>1. Order(graph, o)' = Order(graph, o) /\ Len(journal) <= Len(journal')
      BY <1>2, <1>3
    <3> QED BY <1>2, <1>3, <1>5, <1>6, <2>1, <3>1 DEF Bounded, WorkRecords
  <2>3. n \in 1..(NextId - 1)
    BY <1>3, <1>9
  <2>4. HandedOver(o)'
    BY <1>3, <1>4, <1>5, <1>6, <1>10, <2>3 DEF HandedOver
  <2> QED BY <1>5, <1>6, <2>2, <2>4 DEF WorkFollows
<1>12. unproven' \subseteq Orders
  BY <1>1 DEF GraphInv, LoopTypes
<1> QED BY <1>1, <1>5, <1>6, <1>7, <1>8, <1>11, <1>12, PollStep

LEMMA CompleteKeeps == ASSUME GraphInv, NEW o \in Orders, Complete(o) PROVE GraphInv'
<1>1. phase = "Running" /\ loop = "await" /\ work[o].state = "executing" /\ Polled(o, "executing")
  BY DEF Complete, Polled, In
<1>2. CASE JournalFails
  BY <1>1, <1>2, LostJournalKeeps
<1>3. CASE Fail(o, "Attempt")
  BY <1>1, <1>3, FailKeeps
<1>4. CASE \E c \in Completions :
             /\ Retain([type |-> "HandoffRetained", order |-> o, attempt |-> work[o].attempt,
                        parent |-> work[o].dispatched, outcome |-> c.outcome])
             /\ ApplyHandoff(o, c.outcome)
             /\ Calm
  <2>1. PICK c \in Completions :
             /\ Retain([type |-> "HandoffRetained", order |-> o, attempt |-> work[o].attempt,
                        parent |-> work[o].dispatched, outcome |-> c.outcome])
             /\ ApplyHandoff(o, c.outcome)
             /\ Calm
    BY <1>4
  <2>2. c.outcome \in {"Completed", "Partial"}
    BY DEF Completions
  <2> QED BY <1>1, <2>1, <2>2, HandOverKeeps
<1> QED BY <1>2, <1>3, <1>4 DEF Complete

(* The failure that is retried causes the next attempt.                    *)
LEMMA RetryKeeps ==
    ASSUME GraphInv, NEW o \in Orders, Polled(o, "executing"),
           work[o].attempt < Order(graph, o).attempts,
           Retain(AttemptFailed(o, "Attempt", TRUE)), Retry(o), Calm, UNCHANGED <<loop, unproven>>
    PROVE  GraphInv'
<1>0. PICK record, w, n, t, k :
         /\ record = AttemptFailed(o, "Attempt", TRUE)
         /\ w = [work[o] EXCEPT !.state = "starting", !.attempt = work[o].attempt + 1, !.parent = NextId]
         /\ n = work[o].dispatched /\ t = NextId /\ k = work[o].attempt
  OBVIOUS
<1>1. /\ phase = "Running" /\ loop = "await" /\ work[o].state = "executing"
      /\ Retain(record) /\ UNCHANGED <<input, phase, progress, blocking, unproven, loop>>
      /\ work' = [work EXCEPT ![o].state = "starting", ![o].attempt = @ + 1, ![o].parent = NextId]
  BY <1>0 DEF Retry, Polled, In, Calm
<1>2. /\ work \in [Orders -> WorkRecords] /\ work[o] \in WorkRecords /\ IsSequence(journal)
      /\ WorkFollows(o) /\ UNCHANGED <<graph, root>> /\ IsAccepted
  BY <1>1 DEF GraphInv, input, IsAccepted
<1>3. /\ t \in Nat /\ t = Len(journal) + 1 /\ Len(journal') = t
      /\ DOMAIN journal = 1..Len(journal)
      /\ t \in DOMAIN journal' /\ journal'[t] = record
  BY <1>0, <1>1, <1>2, RecordAdded
<1>4. /\ record.type = "AttemptFailed" /\ record.order = o /\ record.attempt = k
      /\ record.parent = n /\ record.retry
  BY <1>0 DEF AttemptFailed
<1>5. k \in Nat /\ k + 1 \in Nat /\ k > 0 /\ Order(graph, o).attempts \in Nat /\ k + 1 <= Order(graph, o).attempts
  <2>1. Order(graph, o).attempts \in Nat
    BY <1>2, OrderFacts
  <2> QED BY <1>0, <1>1, <1>2, <2>1 DEF WorkFollows, WorkRecords
<1>6. /\ w \in WorkRecords /\ w.state = "starting" /\ w.terminal = work[o].terminal
      /\ w.failure = work[o].failure /\ w.attempt = k + 1 /\ w.parent = t /\ w.dispatched = n
  BY <1>0, <1>2, <1>3, <1>5 DEF WorkRecords, States
<1>7. work' = [work EXCEPT ![o] = w] /\ work'[o] = w
  BY <1>0, <1>1, <1>2
<1>8. w.attempt >= work[o].attempt /\ w.attempt > work[o].attempt
  BY <1>0, <1>5, <1>6
<1>9. Chained' /\ Advances
  BY <1>1, <1>4, <1>6, <1>7, <1>8, PollChained
<1>10. HasDispatch(o, n) /\ n \in 1..Len(journal) /\ Supplied(o) /\ Bounded(o) /\ work[o].failure = "none"
  BY <1>0, <1>1, <1>2, <1>3 DEF WorkFollows, HasDispatch, Dispatches, DispatchedIn
<1>11. Dispatched(n) /\ journal[n].type = "AttemptDispatched" /\ journal[n].order = o /\ journal[n].attempt = k
  BY <1>0, <1>10 DEF GraphInv, Chained, HasDispatch, Dispatches, DispatchedIn
<1>12. journal'[n] = journal[n] /\ Supplied(o)' /\ DependencyEvents(o)' = DependencyEvents(o)
  <2>1. journal'[n] = journal[n]
    BY <1>1, <1>2, <1>3, <1>10, RecordsStay
  <2>2. Supplied(o)' /\ DependencyEvents(o)' = DependencyEvents(o)
    BY <1>1, <1>2, <1>9, <1>10, CausesStay
  <2> QED BY <2>1, <2>2
<1>13. Caused(o, k + 1, t)'
  <2>1. /\ journal[n].root = root /\ journal[n].deps = DependencyEvents(o)
    BY <1>11 DEF Dispatched
  <2>2. DispatchRecord(journal, root, n, o, k)'
    BY <1>2, <1>11, <1>12, <2>1 DEF DispatchRecord
  <2>3. k + 1 # 1 /\ (k + 1) - 1 = k /\ n \in 1..(t - 1)
    BY <1>3, <1>5, <1>10
  <2>4. journal'[n].deps = DependencyEvents(o)'
    BY <1>12, <2>1
  <2>5. Caused(o, k + 1, t)' = (/\ t \in DOMAIN journal'
         /\ journal'[t].type = "AttemptFailed" /\ journal'[t].order = o
         /\ journal'[t].attempt = k /\ journal'[t].retry
         /\ journal'[t].parent \in 1..(t - 1)
         /\ DispatchRecord(journal, root, journal[t].parent, o, k)'
         /\ journal'[journal'[t].parent].deps = DependencyEvents(o)')
    BY <2>3 DEF Caused
  <2>6. DispatchRecord(journal, root, journal[t].parent, o, k)'
    BY <1>3, <1>4, <2>2 DEF DispatchRecord
  <2> QED BY <1>3, <1>4, <2>3, <2>4, <2>5, <2>6
<1>14. WorkFollows(o)'
  <2>1. Bounded(o)'
    <3>1. Order(graph, o)' = Order(graph, o) /\ Len(journal) <= Len(journal') /\ Len(journal) \in Nat
      BY <1>2, <1>3, AppendGrows
    <3> QED BY <1>2, <1>3, <1>5, <1>6, <1>7, <1>10, <3>1 DEF Bounded, WorkRecords
  <2>2. w.attempt > 0
    BY <1>5, <1>6
  <2> QED BY <1>6, <1>7, <1>10, <1>12, <1>13, <2>1, <2>2 DEF WorkFollows
<1>15. unproven' \subseteq Orders /\ loop' = "await"
  BY <1>1 DEF GraphInv, LoopTypes
<1> QED BY <1>1, <1>6, <1>7, <1>8, <1>9, <1>14, <1>15, PollStep

LEMMA WorkerFailsKeeps == ASSUME GraphInv, NEW o \in Orders, WorkerFails(o) PROVE GraphInv'
<1>1. phase = "Running" /\ loop = "await" /\ work[o].state = "executing" /\ Polled(o, "executing")
  BY DEF WorkerFails, Polled, In
<1>2. CASE JournalFails
  BY <1>1, <1>2, LostJournalKeeps
<1>3. CASE Fail(o, "Attempt")
  BY <1>1, <1>3, FailKeeps
<1>4. CASE \E f \in FailureReports :
             /\ IsRetryable(o, f) /\ Retain(AttemptFailed(o, "Attempt", TRUE)) /\ Retry(o)
             /\ Calm /\ UNCHANGED <<loop, unproven>>
  <2>1. work[o].attempt < Order(graph, o).attempts
    BY <1>4 DEF IsRetryable
  <2> QED BY <1>1, <1>4, <2>1, RetryKeeps
<1> QED BY <1>2, <1>3, <1>4 DEF WorkerFails

(* A timeout retains nothing before the cleanup was seen.                  *)
LEMMA TimeoutKeeps == ASSUME GraphInv, NEW o \in Orders, Timeout(o) PROVE GraphInv'
<1>0. PICK w : w = [work[o] EXCEPT !.state = "cleanup"]
  OBVIOUS
<1>1. /\ phase = "Running" /\ loop = "await" /\ work[o].state = "executing"
      /\ UNCHANGED <<input, phase, progress, blocking, unproven, loop, journal>>
      /\ work' = [work EXCEPT ![o].state = "cleanup"]
  BY DEF Timeout, Polled, In, Calm
<1>2. /\ work \in [Orders -> WorkRecords] /\ work[o] \in WorkRecords /\ IsSequence(journal)
      /\ WorkFollows(o) /\ UNCHANGED <<graph, root>> /\ IsAccepted
  BY <1>1 DEF GraphInv, input, IsAccepted
<1>3. /\ w \in WorkRecords /\ w.state = "cleanup" /\ w.terminal = work[o].terminal /\ w.failure = work[o].failure
      /\ w.attempt = work[o].attempt /\ w.parent = work[o].parent /\ w.dispatched = work[o].dispatched
  BY <1>0, <1>2 DEF WorkRecords, States
<1>4. work' = [work EXCEPT ![o] = w] /\ work'[o] = w
  BY <1>0, <1>1, <1>2
<1>5. work[o].attempt \in Nat /\ w.attempt >= work[o].attempt
  BY <1>2, <1>3 DEF WorkRecords
<1>6. Chained' /\ Advances
  BY <1>1, <1>3, <1>4, <1>5, PollChained
<1>7. WorkFollows(o)'
  <2>1. /\ Bounded(o) /\ work[o].attempt > 0 /\ work[o].failure = "none" /\ Supplied(o)
        /\ HasDispatch(o, work[o].dispatched)
    BY <1>1, <1>2 DEF WorkFollows
  <2>2. Bounded(o)'
    BY <1>1, <1>2, <1>3, <1>4, <2>1 DEF Bounded
  <2>3. Supplied(o)'
    BY <1>1, <1>2, <1>6, <2>1, CausesStay
  <2>4. HasDispatch(o, work[o].dispatched)'
    BY <1>1, <1>3, <1>4, <2>1 DEF HasDispatch, Dispatches
  <2> QED BY <1>3, <1>4, <2>1, <2>2, <2>3, <2>4 DEF WorkFollows
<1>8. unproven' \subseteq Orders /\ loop' = "await"
  BY <1>1 DEF GraphInv, LoopTypes
<1> QED BY <1>1, <1>3, <1>4, <1>5, <1>6, <1>7, <1>8, PollStep

LEMMA CleanUpKeeps == ASSUME GraphInv, NEW o \in Orders, CleanUp(o) PROVE GraphInv'
<1>1. phase = "Running" /\ loop = "await" /\ work[o].state = "cleanup"
  BY DEF CleanUp, Polled, In
<1>2. CASE JournalFails
  BY <1>1, <1>2, LostJournalKeeps
<1>3. CASE \E failure \in {"Attempt", "Unproven"} : Fail(o, failure)
  BY <1>1, <1>3, FailKeeps
<1> QED BY <1>2, <1>3 DEF CleanUp

LEMMA GraphSteps == GraphInv /\ [Next]_vars => GraphInv'
<1> SUFFICES ASSUME GraphInv, [Next]_vars PROVE GraphInv'
  OBVIOUS
<1>1. CASE Loop
  BY <1>1, AcceptKeeps, SuspendKeeps, DrainKeeps, ScanKeeps, BlockKeeps, FillKeeps, FinishKeeps DEF Loop
<1>2. CASE \E o \in Orders : Poll(o)
  BY <1>2, DispatchKeeps, CompleteKeeps, WorkerFailsKeeps, TimeoutKeeps, CleanUpKeeps DEF Poll
<1>3. CASE UNCHANGED vars
  <2>1. /\ UNCHANGED <<graph, policy, phase, loop, progress, blocking, work, unproven, journal, root>>
        /\ Orders' = Orders
    BY <1>3 DEF vars, Orders
  <2>2. Dispatches' = Dispatches /\ Active' = Active /\ Pending' = Pending
    BY <2>1 DEF Dispatches, DispatchedIn, Active, Pending, In
  <2>3. (Proposal /\ IsSequence(journal) /\ Rooted /\ work \in [Orders -> WorkRecords] /\ LoopTypes)'
    BY <2>1, <2>2 DEF GraphInv, Proposal, IsAccepted, IsSequence, Rooted, LoopTypes, RootRecord
  <2>4. \A o \in Orders : WorkFollows(o)'
    BY <2>1, <2>2 DEF GraphInv, WorkFollows, Bounded, Supplied, Completed, Dependencies, Caused, FirstParent,
                      FirstTerminal, DispatchRecord, DependencyEvents, HasDispatch, HandedOver, GaveUp
  <2>5. Chained'
    <3>1. CASE IsAccepted
      <4>1. Advances /\ work' \in [Orders -> WorkRecords]
        BY <2>1 DEF Advances, GraphInv
      <4> QED BY <2>1, <3>1, <4>1, ChainedStays
    <3>2. CASE ~IsAccepted
      <4>1. Dispatches' = {}
        BY <2>2, <3>2 DEF GraphInv, Rooted
      <4> QED BY <4>1 DEF Chained
    <3> QED BY <3>1, <3>2
  <2>6. (phase = "Running" => LoopFollows)' /\ NeverStalls' /\ FinishIsAccurate' /\ Cardinality(Active') <= policy'.parallel
    BY <2>1, <2>2 DEF GraphInv, LoopFollows, Scanned, Completed, Dependencies, FailedDependencies, Failed,
                      NeverStalls, FinishIsAccurate
  <2> QED BY <2>1, <2>3, <2>4, <2>5, <2>6 DEF GraphInv
<1> QED BY <1>1, <1>2, <1>3 DEF Next

-----------------------------------------------------------------------------
(* What the invariant says of the run.                                     *)

(* A dispatch is linked to what caused it.                                 *)
LEMMA DispatchIsLinked ==
    ASSUME GraphInv, NEW n \in Dispatches
    PROVE  journal[n].root = root /\ Linked(journal, root, n)
<1>0. PICK r, o, k : r = journal[n] /\ o = r.order /\ k = r.attempt
  OBVIOUS
<1>1. IsAccepted /\ RootRecord(journal, root) /\ Dispatched(n) /\ Chained
  BY DEF GraphInv, Rooted, Chained
<1>2. DOMAIN journal = 1..Len(journal) /\ Len(journal) \in Nat
  BY AppendGrows DEF GraphInv
<1>3. /\ root < n /\ r.root = root /\ o \in Orders /\ k \in 1..work[o].attempt /\ r.retryOf = k - 1
      /\ Supplied(o) /\ (\A d \in Dependencies(o) : work[d].terminal < n)
      /\ r.deps = DependencyEvents(o) /\ r.parent < n /\ Caused(o, k, r.parent)
  BY <1>0, <1>1 DEF Dispatched
<1>4. n \in DOMAIN journal /\ n \in Nat /\ work[o].attempt \in Nat /\ k \in Nat \ {0}
  BY <1>2, <1>3 DEF Dispatches, DispatchedIn, GraphInv, WorkRecords
<1>5. \A m \in Dispatches : journal[m].type = "AttemptDispatched" /\ journal[m].root = root
  BY <1>1 DEF Chained, Dispatched, Dispatches, DispatchedIn
<1>6. CASE k # 1
  <2>1. r.retryOf # 0 /\ r.retryOf = k - 1
    BY <1>3, <1>4, <1>6
  <2>2. /\ r.parent \in DOMAIN journal
        /\ journal[r.parent].type = "AttemptFailed" /\ journal[r.parent].order = o
        /\ journal[r.parent].attempt = k - 1 /\ journal[r.parent].retry
        /\ journal[r.parent].parent \in 1..(r.parent - 1)
        /\ DispatchRecord(journal, root, journal[r.parent].parent, o, k - 1)
        /\ journal[journal[r.parent].parent].deps = DependencyEvents(o)
    BY <1>3, <1>6 DEF Caused
  <2>3. Preceding(r.parent, n)
    BY <1>2, <1>3, <1>4, <2>2 DEF Preceding
  <2>4. RetryRecord(journal, root, n)
    BY <1>0, <1>3, <2>1, <2>2, <2>3 DEF RetryRecord, Preceding
  <2>5. journal[journal[r.parent].parent].type = "AttemptDispatched"
    BY <2>2 DEF DispatchRecord
  <2> QED BY <1>0, <1>3, <2>1, <2>4, <2>5 DEF Linked
<1>7. CASE k = 1
  <2>1. r.retryOf = 0 /\ r.parent = FirstParent(o)
    BY <1>3, <1>7 DEF Caused
  <2>2. DOMAIN r.deps = Dependencies(o) /\ \A d \in Dependencies(o) : r.deps[d] = work[d].terminal
    BY <1>3 DEF DependencyEvents, Dependencies
  <2>3. CASE Dependencies(o) = {}
    <3>1. r.parent = root
      BY <2>1, <2>3 DEF FirstParent, Dependencies
    <3>2. Preceding(root, n)
      BY <1>1, <1>2, <1>3, <1>4 DEF RootRecord, Preceding
    <3> QED BY <1>0, <1>3, <2>1, <2>2, <2>3, <3>1, <3>2 DEF Linked
  <2>4. CASE Dependencies(o) # {}
    <3>1. Dependencies(o) \subseteq Orders /\ Min(Dependencies(o)) \in Dependencies(o)
      BY <1>1, <1>3, <2>4, OrderFacts
    <3>2. r.parent = r.deps[Min(DOMAIN r.deps)]
      BY <2>1, <2>2, <2>4, <3>1 DEF FirstParent, FirstTerminal, Dependencies
    <3>3. ASSUME NEW d \in Dependencies(o)
          PROVE  HandedOver(d) /\ Completed(d)
      <4>1. WorkFollows(d) /\ Completed(d)
        BY <1>3, <3>1 DEF GraphInv, Supplied
      <4> QED BY <4>1 DEF WorkFollows, Completed
    <3>4. IsInjective(r.deps)
      <4>1. \A d \in Dependencies(o) : journal[r.deps[d]].order = d
        BY <2>2, <3>3 DEF HandedOver
      <4> QED BY <2>2, <4>1 DEF IsInjective
    <3>5. ASSUME NEW d \in Dependencies(o)
          PROVE  DependencyRecord(journal, root, n, d) /\ journal[journal[r.deps[d]].parent].type = "AttemptDispatched"
      <4>0. PICK h, p : h = work[d].terminal /\ p = journal[h].parent
        OBVIOUS
      <4>1. /\ h \in DOMAIN journal /\ journal[h].order = d /\ journal[h].type = "HandoffRetained"
            /\ journal[h].outcome = "Completed"
            /\ p \in 1..(h - 1) /\ HasDispatch(d, p)
            /\ journal[h].attempt = work[d].attempt
        BY <3>3, <4>0 DEF HandedOver, Completed
      <4>2. Preceding(h, n)
        BY <1>2, <1>3, <1>4, <4>0, <4>1 DEF Preceding
      <4>3. DispatchRecord(journal, root, p, d, journal[h].attempt)
        BY <1>5, <4>1 DEF HasDispatch, DispatchRecord
      <4>4. r.deps[d] = h
        BY <2>2, <4>0
      <4> QED BY <1>0, <4>0, <4>1, <4>2, <4>3, <4>4 DEF DependencyRecord, DispatchRecord, Preceding
    <3> QED BY <1>0, <1>3, <2>1, <2>2, <2>4, <3>2, <3>4, <3>5 DEF Linked
  <2> QED BY <2>3, <2>4
<1> QED BY <1>6, <1>7

(* So every worker under way finds its dispatch.                           *)
LEMMA WorkersAreVerified == GraphInv => DispatchesVerify
<1> SUFFICES ASSUME GraphInv, phase = "Running", NEW o \in In("executing") \cup In("cleanup")
             PROVE  VerifyDispatch(o)
  BY DEF DispatchesVerify
<1>0. PICK n, k : n = work[o].dispatched /\ k = work[o].attempt
  OBVIOUS
<1>1. o \in Orders /\ work[o].state \in {"executing", "cleanup"} /\ WorkFollows(o) /\ IsAccepted
  BY DEF In, GraphInv, IsAccepted
<1>2. RootRecord(journal, root)
  BY <1>1 DEF GraphInv, Rooted
<1>3. HasDispatch(o, n) /\ n \in Dispatches /\ n \in DOMAIN journal /\ journal[n].type = "AttemptDispatched"
  BY <1>0, <1>1 DEF WorkFollows, HasDispatch, Dispatches, DispatchedIn
<1>4. Dispatched(n) /\ journal[n].order = o /\ journal[n].attempt = k
  BY <1>0, <1>3 DEF GraphInv, Chained, HasDispatch
<1>5. DispatchRecords(o, k) = {n}
  <2>1. n \in DispatchRecords(o, k)
    BY <1>3, <1>4 DEF DispatchRecords, DispatchRecord, Dispatched
  <2>2. \A m \in DispatchRecords(o, k) : m \in Dispatches /\ journal[m].order = o /\ journal[m].attempt = k
    BY DEF DispatchRecords, DispatchRecord, Dispatches, DispatchedIn
  <2>3. \A m \in DispatchRecords(o, k) : m = n
    BY <1>3, <1>4, <2>2 DEF GraphInv, Chained
  <2> QED BY <2>1, <2>3
<1>6. Ancestry(journal, root)[n]
  <2>1. IsSequence(journal)
    BY DEF GraphInv
  <2>2. \A m \in DispatchedIn(journal) : journal[m].root = root /\ Linked(journal, root, m)
    BY DispatchIsLinked DEF Dispatches
  <2> QED BY <1>3, <2>1, <2>2, AncestryHolds DEF Dispatches
<1>7. journal[n].retryOf = k - 1 /\ journal[n].deps = DependencyEvents(o)
  BY <1>4 DEF Dispatched
<1> QED BY <1>0, <1>2, <1>3, <1>5, <1>6, <1>7 DEF VerifyDispatch

(* What there is when something was dispatched.                            *)
LEMMA DispatchFacts ==
    ASSUME GraphInv, NEW n \in Dispatches
    PROVE  /\ IsAccepted /\ graph \in Graphs /\ policy \in Policies /\ Valid(graph, policy) /\ Orders = Ids(graph)
           /\ journal[n].order \in Orders /\ Dispatched(n)
           /\ journal[n].attempt \in 1..Order(graph, journal[n].order).attempts
           /\ Order(graph, journal[n].order).attempts \in Nat
<1>1. IsAccepted /\ Dispatched(n) /\ graph \in Graphs /\ policy \in Policies /\ Valid(graph, policy) /\ Orders = Ids(graph)
  BY DEF GraphInv, Rooted, Chained, Proposal, Orders
<1>2. journal[n].order \in Orders /\ journal[n].attempt \in 1..work[journal[n].order].attempt
  BY <1>1 DEF Dispatched
<1>3. PICK o : o = journal[n].order
  OBVIOUS
<1>4. work[o].attempt \in Nat /\ work[o].attempt <= Order(graph, o).attempts /\ Order(graph, o).attempts \in Nat
  BY <1>1, <1>2, <1>3, OrderFacts DEF GraphInv, WorkRecords, WorkFollows, Bounded
<1> QED BY <1>1, <1>2, <1>3, <1>4

LEMMA WritersAreAlone == GraphInv => WriterIsAlone
<1> SUFFICES ASSUME GraphInv, NEW m \in Dispatches, NEW n \in Dispatches, m # n,
                    Order(graph, journal[m].order).lease = Order(graph, journal[n].order).lease
             PROVE  "Write" \notin {Order(graph, journal[m].order).access, Order(graph, journal[n].order).access}
  BY DEF WriterIsAlone, Dispatches
<1>0. PICK a, b : a = journal[m].order /\ b = journal[n].order
  OBVIOUS
<1>1. /\ graph \in Graphs /\ Valid(graph, policy) /\ a \in Ids(graph) /\ b \in Ids(graph)
      /\ journal[m].attempt \in 1..Order(graph, a).attempts /\ journal[n].attempt \in 1..Order(graph, b).attempts
  BY <1>0, DispatchFacts
<1>2. CASE a = b
  <2>1. SUFFICES ASSUME Order(graph, a).access = "Write" PROVE FALSE
    BY <1>0, <1>2
  <2>2. Order(graph, a).attempts = 1
    BY <1>1, <2>1, ValidOrder
  <2>3. journal[m].attempt = journal[n].attempt
    BY <1>1, <1>2, <2>2
  <2> QED BY <1>0, <1>2, <2>3 DEF GraphInv, Chained
<1>3. CASE a # b
  <2>1. PICK i \in DOMAIN graph : graph[i].id = a /\ Order(graph, a) = graph[i]
    BY <1>1, OrderOf
  <2>2. PICK j \in DOMAIN graph : graph[j].id = b /\ Order(graph, b) = graph[j]
    BY <1>1, OrderOf
  <2>3. i # j /\ graph[i].lease = graph[j].lease
    BY <1>0, <1>3, <2>1, <2>2
  <2>4. PICK S : S = LeaseUsers(graph, graph[i].lease)
    OBVIOUS
  <2>5. i \in S /\ j \in S /\ S \subseteq 1..Len(graph) /\ Len(graph) \in Nat
    BY <1>1, <2>3, <2>4, Unsigned DEF LeaseUsers
  <2>6. IsFiniteSet(S)
    BY <2>5, FiniteDomain, FS_Subset
  <2>7. Cardinality(S) > 1
    <3>1. IsFiniteSet({i}) /\ Cardinality({i}) = 1
      BY FS_Singleton
    <3>2. IsFiniteSet({i} \cup {j}) /\ Cardinality({i} \cup {j}) = Cardinality({i}) + 1
      <4>1. j \notin {i}
        BY <2>3
      <4> QED BY <3>1, <4>1, FS_AddElement
    <3>3. Cardinality({i} \cup {j}) <= Cardinality(S)
      BY <2>5, <2>6, FS_Subset
    <3>4. Cardinality(S) \in Nat
      BY <2>6, FS_CardinalityType
    <3> QED BY <3>1, <3>2, <3>3, <3>4
  <2>8. \A k \in S : graph[k].access # "Write"
    BY <1>1, <2>4, <2>7 DEF Valid, LeasesExclusive
  <2> QED BY <1>0, <2>1, <2>2, <2>5, <2>8
<1> QED BY <1>2, <1>3

LEMMA ReservationsAreKept == GraphInv => WithinReservations
<1> SUFFICES ASSUME GraphInv PROVE Cardinality(Dispatches) <= policy.attempts
  BY DEF WithinReservations, GraphInv, Dispatches
<1>1. graph \in Graphs /\ policy \in Policies /\ policy.attempts \in Nat
  BY ProposalsAreUnsigned DEF GraphInv, Proposal
<1>2. CASE Dispatches = {}
  BY <1>1, <1>2, FS_EmptySet
<1>3. CASE Dispatches # {}
  <2>1. Valid(graph, policy) /\ Orders = Ids(graph)
    BY <1>3, DispatchFacts
  <2>2. PICK N : N = Len(graph)
    OBVIOUS
  <2>3. N \in Nat /\ DOMAIN graph = 1..N /\ \A i \in 1..N : graph[i].attempts \in Nat
    BY <1>1, <2>2, Unsigned
  <2>4. PICK A : A = [i \in 1..N |-> graph[i].attempts]
    OBVIOUS
  <2>5. A \in [1..N -> Nat] /\ SumOf(A) <= policy.attempts
    <3>1. SumOf([i \in DOMAIN graph |-> graph[i].attempts]) <= policy.attempts
      BY <1>1, <2>1, ValidReservations
    <3> QED BY <2>3, <2>4, <3>1
  <2>6. PICK P : P = {p \in (1..N) \X Nat : p[2] \in 1..A[p[1]]}
    OBVIOUS
  <2>7. IsFiniteSet(P) /\ Cardinality(P) = SumOf(A)
    BY <2>3, <2>5, <2>6, Pairs
  <2> DEFINE at(o) == CHOOSE i \in DOMAIN graph : graph[i].id = o /\ Order(graph, o) = graph[i]
             f == [n \in Dispatches |-> <<at(journal[n].order), journal[n].attempt>>]
  <2>8. \A o \in Orders : at(o) \in 1..N /\ graph[at(o)].id = o /\ A[at(o)] = Order(graph, o).attempts
    <3> TAKE o \in Orders
    <3>1. \E i \in DOMAIN graph : graph[i].id = o /\ Order(graph, o) = graph[i]
      BY <1>1, <2>1, OrderOf
    <3>2. at(o) \in DOMAIN graph /\ graph[at(o)].id = o /\ Order(graph, o) = graph[at(o)]
      BY <3>1
    <3> HIDE DEF at
    <3> QED BY <2>3, <2>4, <3>2
  <2> HIDE DEF at
  <2>9. \A n \in Dispatches : f[n] \in P
    <3> TAKE n \in Dispatches
    <3>0. PICK i, k, o : o = journal[n].order /\ i = at(o) /\ k = journal[n].attempt
      OBVIOUS
    <3>1. o \in Orders /\ k \in 1..Order(graph, o).attempts
      BY <3>0, DispatchFacts
    <3>2. i \in 1..N /\ k \in 1..A[i]
      BY <2>8, <3>0, <3>1
    <3>3. A[i] \in Nat
      BY <2>5, <3>2
    <3>4. k \in Nat
      BY <3>2, <3>3
    <3>5. <<i, k>> \in P
      BY <2>6, <3>2, <3>4
    <3> QED BY <3>0, <3>5
  <2>10. \A m, n \in Dispatches : f[m] = f[n] => m = n
    <3> SUFFICES ASSUME NEW m \in Dispatches, NEW n \in Dispatches, f[m] = f[n] PROVE m = n
      OBVIOUS
    <3>1. at(journal[m].order) = at(journal[n].order) /\ journal[m].attempt = journal[n].attempt
      OBVIOUS
    <3>2. journal[m].order \in Orders /\ journal[n].order \in Orders
      BY DispatchFacts
    <3>3. journal[m].order = journal[n].order
      BY <2>8, <3>1, <3>2
    <3> QED BY <3>1, <3>3 DEF GraphInv, Chained
  <2>11. f \in [Dispatches -> P]
    BY <2>9
  <2>12. IsFiniteSet(Dispatches) /\ Cardinality(Dispatches) <= Cardinality(P)
    <3> HIDE DEF f
    <3> QED BY <2>7, <2>10, <2>11, RoomFor
  <2>13. Cardinality(Dispatches) \in Nat /\ Cardinality(P) \in Nat
    BY <2>7, <2>12, FS_CardinalityType
  <2> QED BY <1>1, <2>5, <2>7, <2>12, <2>13
<1> QED BY <1>2, <1>3

LEMMA CandidatesAreBlind == GraphInv => ReviewsAndCandidatesAreBlind
<1> SUFFICES ASSUME GraphInv, NEW n \in Dispatches, NEW o, o = Order(graph, journal[n].order)
             PROVE  /\ \A t \in DOMAIN journal[n].deps \cap Targets(graph) :
                          t \in o.reviews /\ Order(graph, t).domain # o.domain
                    /\ o.group # NoGroup =>
                         \A m \in Ancestors(journal, n) : Order(graph, journal[m].order).group # o.group
  BY DEF ReviewsAndCandidatesAreBlind, Dispatches
<1>0. PICK id : id = journal[n].order
  OBVIOUS
<1>1. graph \in Graphs /\ Valid(graph, policy) /\ id \in Ids(graph) /\ Dispatched(n)
  BY <1>0, DispatchFacts
<1>2. /\ o.id = id /\ (\A d \in o.dependencies : DependencyValid(graph, o, d))
      /\ \A t \in o.reviews : ReviewValid(graph, o, t)
      /\ o.group # NoGroup => CandidatesValid(graph, o)
  BY <1>0, <1>1, ValidOrder
<1>3. DOMAIN journal[n].deps = o.dependencies
  BY <1>0, <1>1 DEF Dispatched, DependencyEvents
<1>4. \A t \in DOMAIN journal[n].deps \cap Targets(graph) : t \in o.reviews /\ Order(graph, t).domain # o.domain
  BY <1>2, <1>3 DEF DependencyValid, ReviewValid
<1>5. ASSUME o.group # NoGroup, NEW m \in Ancestors(journal, n), Order(graph, journal[m].order).group = o.group
      PROVE  FALSE
  <2>0. PICK c : c = journal[m].order
    OBVIOUS
  <2>1. m \in Dispatches /\ Reachable(graph, id, c)
    BY <1>0, <1>5, <2>0 DEF Ancestors, Dispatches
  <2>2. c \in Ids(graph)
    BY <2>0, <2>1, DispatchFacts
  <2>3. PICK i \in DOMAIN graph : graph[i].id = c /\ Order(graph, c) = graph[i]
    BY <1>1, <2>2, OrderOf
  <2>4. i \in Peers(graph, o)
    BY <1>5, <2>0, <2>3 DEF Peers
  <2>5. CASE c = id
    BY <1>1, <2>1, <2>5 DEF Valid, Cyclic
  <2>6. CASE c # id
    BY <1>2, <1>5, <2>1, <2>3, <2>4, <2>6 DEF CandidatesValid
  <2> QED BY <2>5, <2>6
<1> QED BY <1>4, <1>5

LEMMA GraphIsSound == GraphInv => RunIsSound
<1> SUFFICES ASSUME GraphInv PROVE RunIsSound
  OBVIOUS
<1>1. TypeOK
  <2>1. ASSUME NEW o \in Orders
        PROVE  /\ work[o].state \in {"pending", "starting", "executing", "cleanup", "handoff", "failed"}
               /\ work[o].failure \in Failures \cup {"none"}
               /\ work[o].attempt \in 0..Order(graph, o).attempts
               /\ {work[o].parent, work[o].dispatched, work[o].terminal} \subseteq 0..Len(journal)
    <3>1. work[o] \in WorkRecords /\ WorkFollows(o)
      BY DEF GraphInv
    <3>2. Order(graph, o).attempts \in Nat
      BY OrderOf, Unsigned DEF GraphInv, Proposal, Orders
    <3>3. Len(journal) \in Nat
      BY AppendGrows DEF GraphInv
    <3> QED BY <3>1, <3>2, <3>3 DEF WorkRecords, States, WorkFollows, Bounded
  <2> QED BY <2>1 DEF TypeOK, GraphInv, LoopTypes, Rooted
<1>2. ReservationsAreReal
  BY ValidReservations DEF ReservationsAreReal, GraphInv, Proposal, IsAccepted
<1> QED BY <1>1, <1>2, WorkersAreVerified, WritersAreAlone, ReservationsAreKept, CandidatesAreBlind
        DEF RunIsSound, GraphInv

(***************************************************************************)
(* execute and run_work_order (actor_graph.rs): whatever the workers       *)
(* answer, in whatever order their futures are polled, and wherever the    *)
(* journal fails,                                                          *)
(*   - a worker that executes an attempt finds it verifiable in the        *)
(*     journal, with every dispatch it descends from;                      *)
(*   - an accepted graph never stalls with work left;                      *)
(*   - a written lease has one attempt of one order, in the whole run;     *)
(*   - no more orders run than policy.parallel, and no more attempts are   *)
(*     dispatched than the policy allows in all, nor can what the accepted *)
(*     graph asks for, added up without a width, exceed the policy;        *)
(*   - reviewed work reaches only a reviewer of another domain, and no     *)
(*     candidate descends from its competitors; and                        *)
(*   - what GraphFinished reports is what was retained.                    *)
(***************************************************************************)
THEOREM RunSoundness == Spec => []RunIsSound
<1>1. Spec => []GraphInv
  BY GraphStarts, GraphSteps, PTL DEF Spec
<1> QED BY <1>1, GraphIsSound, PTL

-----------------------------------------------------------------------------
(* The planner's executions and their journal.                             *)

(* The kinds of record the planner retains.                                *)
RecordTypes == {"Prepared", "Observed", "Accepted", "Rejected"}

(* Where a caller stands, and what it holds there is the journal's.        *)
AskedFor(t) == \E p \in Preparations(plannerJournal) : t.prepared = p /\ t = [step |-> t.step, prepared |-> p]
AnsweredTo(t) ==
    \E p \in Preparations(plannerJournal) : \E o :
        t.observed = ObservedRecord(p, o) /\ t = [step |-> t.step, observed |-> ObservedRecord(p, o)]
CallersStand ==
    /\ DOMAIN task = Callers
    /\ \A c \in Callers :
          \/ task[c] = Idle
          \/ task[c].step \in {"Prepared", "Calling"} /\ AskedFor(task[c])
          \/ task[c].step \in {"Answered", "Observed"} /\ AnsweredTo(task[c])

(* A preparation is an execution's, an attempt's and a reservation's only  *)
(* one, and about a plan that callers hold.                                *)
PreparedOnce ==
    /\ \A p \in Preparations(plannerJournal) : p.request \in Requests /\ p.base \in plans
    /\ \A p, q \in Preparations(plannerJournal) : p # q =>
          /\ p.request.reservation # q.request.reservation
          /\ p.request.execution # q.request.execution

(* A preparation is acted on by one caller, before its call is made.       *)
CallsAwait ==
    /\ calls \in [Requests -> Nat]
    /\ \A c \in Callers : task[c].step = "Prepared" =>
          /\ calls[task[c].prepared.request] = 0
          /\ \A d \in Callers \ {c} : task[d].step = "Prepared" => task[d].prepared # task[c].prepared

(* The journal is a sequence of such records, within its bound.            *)
RecordsOK ==
    /\ IsSequence(plannerJournal) /\ Len(plannerJournal) <= MaxRecords
    /\ \A i \in 1..Len(plannerJournal) : plannerJournal[i].type \in RecordTypes

(* The inductive invariant of the planner's executions.                    *)
PlannerInv ==
    /\ RecordsOK /\ CallersStand /\ PreparedOnce /\ CallsAwait
    /\ OneCallPerReservation /\ ReturnedIsDurable /\ JournalCanBeRebuilt

(* An empty journal, idle callers and no call made.                        *)
LEMMA PlannerStarts == PlannerInit => PlannerInv
<1> SUFFICES ASSUME PlannerInit PROVE PlannerInv
  OBVIOUS
<1>1. IsSequence(plannerJournal) /\ Len(plannerJournal) = 0
  <2>1. plannerJournal = <<>> /\ <<>> \in Seq({})
    BY DEF PlannerInit
  <2> QED BY <2>1 DEF IsSequence
<1>2. \A t : OfType(plannerJournal, t) = {}
  BY <1>1 DEF OfType
<1>3. CallersStand /\ CallsAwait
  BY DEF PlannerInit, CallersStand, CallsAwait, Idle
<1>4. PreparedOnce /\ OneCallPerReservation /\ ReturnedIsDurable
  BY <1>2 DEF PlannerInit, PreparedOnce, OneCallPerReservation, ReturnedIsDurable, Preparations
<1> QED BY <1>1, <1>3, <1>4, PlannerExecutionAssumption
        DEF PlannerInv, RecordsOK, JournalCanBeRebuilt, PlannerInit

(* The records before the last one are the journal it was appended to.     *)
LEMMA BeforeTheLast ==
    ASSUME NEW s, IsSequence(s), NEW e
    PROVE  SubSeq(Append(s, e), 1, Len(s)) = s
<1>1. PICK S : s \in Seq(S)
  BY DEF IsSequence
<1>2. s \in Seq(S \cup {e}) /\ e \in S \cup {e}
  BY <1>1
<1> QED BY <1>2

(* What is retained was admissible, and what was retained before stays.    *)
LEMMA RetainKeeps ==
    ASSUME RecordsOK, NEW record, record.type \in RecordTypes, NEW trusted,
           Retains(record, trusted), plannerJournal' = Append(plannerJournal, record)
    PROVE  /\ RecordsOK' /\ JournalCanBeRebuilt'
           /\ Admits(plannerJournal, record, trusted)
           /\ \A t : OfType(plannerJournal, t)' =
                 OfType(plannerJournal, t) \cup (IF record.type = t THEN {record} ELSE {})
<1> DEFINE n == Len(plannerJournal)
           j == Append(plannerJournal, record)
<1>1. /\ n \in Nat /\ IsSequence(j) /\ Len(j) = n + 1
      /\ \A i \in 1..n : j[i] = plannerJournal[i]
      /\ j[n + 1] = record
  BY AppendGrows DEF RecordsOK
<1>2. /\ n + 1 <= MaxRecords
      /\ \A i \in 1..(n + 1) : Admits(SubSeq(j, 1, i - 1), j[i], trusted)
  BY <1>1 DEF Retains, Replays
<1>3. RecordsOK'
  BY <1>1, <1>2 DEF RecordsOK
<1>4. Admits(plannerJournal, record, trusted)
  <2>1. SubSeq(j, 1, n) = plannerJournal
    BY BeforeTheLast DEF RecordsOK
  <2>2. Admits(SubSeq(j, 1, (n + 1) - 1), j[n + 1], trusted) /\ (n + 1) - 1 = n
    BY <1>1, <1>2
  <2> QED BY <1>1, <2>1, <2>2
<1>5. ASSUME NEW t
      PROVE  OfType(plannerJournal, t)' =
               OfType(plannerJournal, t) \cup (IF record.type = t THEN {record} ELSE {})
  <2>1. OfType(plannerJournal, t)' = {j[i] : i \in {k \in 1..(n + 1) : j[k].type = t}}
    BY <1>1 DEF OfType
  <2>2. 1..(n + 1) = (1..n) \cup {n + 1}
    BY <1>1
  <2> HIDE DEF j
  <2> QED BY <1>1, <2>1, <2>2 DEF OfType
<1>6. JournalCanBeRebuilt'
  <2>1. Admits(SubSeq(j, 1, 0), j[1], trusted) /\ j[1].type \in RecordTypes
    BY <1>1, <1>2, <1>3 DEF RecordsOK
  <2>2. \A t : OfType(SubSeq(j, 1, 0), t) = {}
    <3>1. Len(SubSeq(j, 1, 0)) = 0
      BY <1>1 DEF IsSequence
    <3> QED BY <3>1 DEF OfType
  <2>3. j[1].policy = trusted
    BY <2>1, <2>2 DEF Admits, AdmitsPrepared, AdmitsObserved, AdmitsDecision, Preparations, RecordTypes
  <2>4. Replays(j, trusted)
    BY DEF Retains
  <2> QED BY <2>3, <2>4 DEF JournalCanBeRebuilt
<1> QED BY <1>3, <1>4, <1>5, <1>6
(* Calls, returns and plans go with a journal that only grows.             *)
LEMMA JournalGrows ==
    ASSUME PlannerInv, \A t : OfType(plannerJournal, t) \subseteq OfType(plannerJournal, t)',
           UNCHANGED <<calls, returned, plans>>
    PROVE  OneCallPerReservation' /\ ReturnedIsDurable'
<1>1. Preparations(plannerJournal) \subseteq Preparations(plannerJournal)'
  BY DEF Preparations
<1>2. OneCallPerReservation'
  BY <1>1 DEF PlannerInv, OneCallPerReservation
<1>3. ReturnedIsDurable'
  BY <1>1 DEF PlannerInv, ReturnedIsDurable
<1> QED BY <1>2, <1>3

(* A caller that goes on elsewhere leaves the others where they stand.     *)
LEMMA CallerMoves ==
    ASSUME PlannerInv, NEW c \in Callers, NEW t, task' = [task EXCEPT ![c] = t],
           Preparations(plannerJournal) \subseteq Preparations(plannerJournal)',
           \/ t = Idle
           \/ t.step \in {"Prepared", "Calling"} /\ AskedFor(t)'
           \/ t.step \in {"Answered", "Observed"} /\ AnsweredTo(t)'
    PROVE  CallersStand' /\ task'[c] = t /\ \A d \in Callers \ {c} : task'[d] = task[d]
<1>1. DOMAIN task' = Callers /\ task'[c] = t /\ \A d \in Callers \ {c} : task'[d] = task[d]
  BY DEF PlannerInv, CallersStand
<1>2. \A x : (AskedFor(x) => AskedFor(x)') /\ (AnsweredTo(x) => AnsweredTo(x)')
  BY DEF AskedFor, AnsweredTo
<1>3. \A d \in Callers \ {c} :
          \/ task[d] = Idle
          \/ task[d].step \in {"Prepared", "Calling"} /\ AskedFor(task[d])
          \/ task[d].step \in {"Answered", "Observed"} /\ AnsweredTo(task[d])
  BY DEF PlannerInv, CallersStand
<1> QED BY <1>1, <1>2, <1>3 DEF CallersStand, AskedFor, AnsweredTo

(* A preparation is retained for a reservation and an execution of its     *)
(* own.                                                                    *)
LEMMA PrepareKeeps == ASSUME PlannerInv, NEW c \in Callers, Prepare(c) PROVE PlannerInv'
<1>1. PICK request \in Requests, base \in plans, asked \in plans :
        LET bundle == BuildRequest(asked, PolicyOf[c])
            record == PreparedRecord(request, base, PolicyOf[c], bundle)
        IN  /\ Retains(record, PolicyOf[c])
            /\ plannerJournal' = Append(plannerJournal, record)
            /\ task' = [task EXCEPT ![c] = [step |-> "Prepared", prepared |-> record]]
            /\ UNCHANGED <<plans, calls, returned>>
  BY DEF Prepare
<1> DEFINE record == PreparedRecord(request, base, PolicyOf[c], BuildRequest(asked, PolicyOf[c]))
           t == [step |-> "Prepared", prepared |-> record]
<1>2. record.type = "Prepared" /\ record.request = request /\ record.base = base
  BY DEF PreparedRecord
<1>3. /\ Retains(record, PolicyOf[c]) /\ plannerJournal' = Append(plannerJournal, record)
      /\ task' = [task EXCEPT ![c] = t] /\ UNCHANGED <<plans, calls, returned>>
  BY <1>1
<1>4. t.step = "Prepared" /\ t.prepared = record /\ t = [step |-> t.step, prepared |-> record]
  OBVIOUS
<1> HIDE DEF record, t
<1>5. /\ RecordsOK' /\ JournalCanBeRebuilt' /\ Admits(plannerJournal, record, PolicyOf[c])
      /\ \A x : OfType(plannerJournal, x)' =
              OfType(plannerJournal, x) \cup (IF record.type = x THEN {record} ELSE {})
  BY <1>2, <1>3, RetainKeeps DEF RecordTypes, PlannerInv
<1>6. Preparations(plannerJournal)' = Preparations(plannerJournal) \cup {record}
  BY <1>2, <1>5 DEF Preparations
<1>7. \A p \in Preparations(plannerJournal) :
        /\ p.request.reservation # request.reservation
        /\ p.request.execution # request.execution
  BY <1>2, <1>5 DEF Admits, AdmitsPrepared
<1>8. CallersStand' /\ task'[c] = t /\ \A d \in Callers \ {c} : task'[d] = task[d]
  BY <1>3, <1>4, <1>6, CallerMoves DEF AskedFor
<1>9. PreparedOnce'
  BY <1>2, <1>3, <1>6, <1>7 DEF PlannerInv, PreparedOnce
<1>10. CallsAwait'
  <2>1. calls[request] = 0
    BY <1>7 DEF PlannerInv, CallsAwait, OneCallPerReservation
  <2>2. \A d \in Callers \ {c} : task[d].step = "Prepared" => task[d].prepared \in Preparations(plannerJournal)
    BY DEF PlannerInv, CallersStand, AskedFor, Idle
  <2>3. record \notin Preparations(plannerJournal)
    BY <1>2, <1>7
  <2> QED BY <1>2, <1>3, <1>4, <1>8, <2>1, <2>2, <2>3 DEF PlannerInv, CallsAwait
<1>11. OneCallPerReservation' /\ ReturnedIsDurable'
  BY <1>3, <1>5, JournalGrows
<1> QED BY <1>5, <1>8, <1>9, <1>10, <1>11 DEF PlannerInv

(* The call is counted against a reservation that had none.                *)
LEMMA InferKeeps == ASSUME PlannerInv, NEW c \in Callers, Infer(c) PROVE PlannerInv'
<1>1. task[c].step = "Prepared" /\ AskedFor(task[c])
  BY DEF Infer, PlannerInv, CallersStand, Idle
<1>2. PICK p \in Preparations(plannerJournal) : task[c].prepared = p /\ task[c] = [step |-> "Prepared", prepared |-> p]
  BY <1>1 DEF AskedFor
<1> DEFINE t == [step |-> "Calling", prepared |-> p]
           r == p.request
<1>3. /\ task' = [task EXCEPT ![c] = t] /\ calls' = [calls EXCEPT ![r] = @ + 1]
      /\ UNCHANGED <<plannerJournal, plans, returned>>
  <2>1. [task[c] EXCEPT !.step = "Calling"] = t
    BY <1>2
  <2> QED BY <1>2, <2>1 DEF Infer
<1>4. t.step = "Calling" /\ t.prepared = p /\ t = [step |-> t.step, prepared |-> p]
  OBVIOUS
<1>5. r \in Requests /\ calls[r] = 0
  BY <1>1, <1>2 DEF PlannerInv, PreparedOnce, CallsAwait
<1> HIDE DEF t
<1>6. /\ Preparations(plannerJournal)' = Preparations(plannerJournal)
      /\ \A x : OfType(plannerJournal, x)' = OfType(plannerJournal, x)
  BY <1>3 DEF Preparations, OfType
<1>7. CallersStand' /\ task'[c] = t /\ \A d \in Callers \ {c} : task'[d] = task[d]
  <2>1. AskedFor(t)'
    BY <1>4, <1>6 DEF AskedFor
  <2> QED BY <1>3, <1>4, <1>6, <2>1, CallerMoves
<1>8. /\ calls' \in [Requests -> Nat] /\ calls'[r] = 1 /\ \A x \in Requests \ {r} : calls'[x] = calls[x]
  BY <1>3, <1>5 DEF PlannerInv, CallsAwait
<1>9. RecordsOK' /\ PreparedOnce' /\ ReturnedIsDurable' /\ JournalCanBeRebuilt'
  BY <1>3, <1>6 DEF PlannerInv, RecordsOK, PreparedOnce, ReturnedIsDurable, JournalCanBeRebuilt
<1>10. CallsAwait'
  <2>1. ASSUME NEW d \in Callers \ {c}, task[d].step = "Prepared"
        PROVE  /\ task[d].prepared \in Preparations(plannerJournal)
               /\ task[d].prepared # p
               /\ task[d].prepared.request # r /\ task[d].prepared.request \in Requests
               /\ calls[task[d].prepared.request] = 0
    <3>1. task[d].prepared \in Preparations(plannerJournal)
      BY <2>1 DEF PlannerInv, CallersStand, AskedFor, Idle
    <3>2. task[d].prepared # p /\ calls[task[d].prepared.request] = 0
      BY <1>1, <1>2, <2>1 DEF PlannerInv, CallsAwait
    <3> QED BY <3>1, <3>2 DEF PlannerInv, PreparedOnce
  <2> QED BY <1>4, <1>7, <1>8, <2>1 DEF PlannerInv, CallsAwait
<1>11. OneCallPerReservation'
  <2>1. \A x \in Requests : calls'[x] > 0 => \E q \in Preparations(plannerJournal) : q.request = x
    BY <1>5, <1>8 DEF PlannerInv, OneCallPerReservation
  <2>2. \A x \in Requests : calls'[x] <= 1
    BY <1>5, <1>8 DEF PlannerInv, OneCallPerReservation
  <2>3. \A x, y \in {z \in Requests : calls'[z] > 0} :
          x # y => x.reservation # y.reservation /\ x.execution # y.execution
    BY <2>1 DEF PlannerInv, PreparedOnce
  <2> QED BY <1>6, <2>1, <2>2, <2>3 DEF OneCallPerReservation
<1> QED BY <1>7, <1>9, <1>10, <1>11 DEF PlannerInv

(* A caller that holds no preparation to act on changes nothing of calls.  *)
LEMMA NobodyAwaits ==
    ASSUME PlannerInv, NEW c \in Callers, UNCHANGED calls, task'[c].step # "Prepared",
           \A d \in Callers \ {c} : task'[d] = task[d]
    PROVE  CallsAwait'
BY DEF PlannerInv, CallsAwait

(* The answer binds what was prepared.                                     *)
LEMMA AnswerKeeps == ASSUME PlannerInv, NEW c \in Callers, Answer(c) PROVE PlannerInv'
<1>1. task[c].step = "Calling" /\ AskedFor(task[c])
  BY DEF Answer, PlannerInv, CallersStand, Idle
<1>2. PICK p \in Preparations(plannerJournal) : task[c].prepared = p
  BY <1>1 DEF AskedFor
<1>3. PICK o : /\ task' = [task EXCEPT ![c] = [step |-> "Answered", observed |-> ObservedRecord(p, o)]]
               /\ UNCHANGED <<plannerJournal, plans, calls, returned>>
  BY <1>2 DEF Answer
<1> DEFINE t == [step |-> "Answered", observed |-> ObservedRecord(p, o)]
<1>4. t.step = "Answered" /\ AnsweredTo(t)'
  BY <1>3 DEF AnsweredTo, Preparations, OfType
<1>5. /\ Preparations(plannerJournal)' = Preparations(plannerJournal)
      /\ \A x : OfType(plannerJournal, x)' = OfType(plannerJournal, x)
  BY <1>3 DEF Preparations, OfType
<1>6. CallersStand' /\ task'[c] = t /\ \A d \in Callers \ {c} : task'[d] = task[d]
  BY <1>3, <1>4, <1>5, CallerMoves
<1>7. CallsAwait'
  BY <1>3, <1>4, <1>6, NobodyAwaits
<1>8. OneCallPerReservation' /\ ReturnedIsDurable'
  BY <1>3, <1>5, JournalGrows
<1>9. RecordsOK' /\ PreparedOnce' /\ JournalCanBeRebuilt'
  BY <1>3, <1>5 DEF PlannerInv, RecordsOK, PreparedOnce, JournalCanBeRebuilt
<1> QED BY <1>6, <1>7, <1>8, <1>9 DEF PlannerInv

(* The observed answer is retained before it is judged.                    *)
LEMMA RetainObservedKeeps == ASSUME PlannerInv, NEW c \in Callers, RetainObserved(c) PROVE PlannerInv'
<1>1. task[c].step = "Answered" /\ AnsweredTo(task[c])
  BY DEF RetainObserved, PlannerInv, CallersStand, Idle
<1>2. PICK p \in Preparations(plannerJournal) : \E o : task[c] = [step |-> "Answered", observed |-> ObservedRecord(p, o)]
  BY <1>1 DEF AnsweredTo
<1>3. PICK o : task[c] = [step |-> "Answered", observed |-> ObservedRecord(p, o)]
  BY <1>2
<1> DEFINE record == ObservedRecord(p, o)
           t == [step |-> "Observed", observed |-> record]
<1>4. /\ Retains(record, PolicyOf[c]) /\ plannerJournal' = Append(plannerJournal, record)
      /\ task' = [task EXCEPT ![c] = t] /\ UNCHANGED <<plans, calls, returned>>
  <2>1. [task[c] EXCEPT !.step = "Observed"] = t /\ task[c].observed = record
    BY <1>3
  <2> QED BY <2>1 DEF RetainObserved
<1>5. record.type = "Observed"
  BY DEF ObservedRecord
<1>6. /\ RecordsOK' /\ JournalCanBeRebuilt'
      /\ \A x : OfType(plannerJournal, x)' =
              OfType(plannerJournal, x) \cup (IF record.type = x THEN {record} ELSE {})
  <2> HIDE DEF record
  <2> QED BY <1>4, <1>5, RetainKeeps DEF RecordTypes, PlannerInv
<1>7. Preparations(plannerJournal)' = Preparations(plannerJournal)
  BY <1>5, <1>6 DEF Preparations
<1>8. t.step = "Observed" /\ AnsweredTo(t)'
  BY <1>7 DEF AnsweredTo
<1>9. CallersStand' /\ task'[c] = t /\ \A d \in Callers \ {c} : task'[d] = task[d]
  BY <1>4, <1>7, <1>8, CallerMoves
<1>10. CallsAwait'
  BY <1>4, <1>8, <1>9, NobodyAwaits
<1>11. OneCallPerReservation' /\ ReturnedIsDurable'
  BY <1>4, <1>6, JournalGrows
<1>12. PreparedOnce'
  BY <1>4, <1>7 DEF PlannerInv, PreparedOnce
<1> QED BY <1>6, <1>9, <1>10, <1>11, <1>12 DEF PlannerInv

(* The decision is retained before it is returned, or its plan adopted.    *)
LEMMA DecideKeeps == ASSUME PlannerInv, NEW c \in Callers, Decide(c) PROVE PlannerInv'
<1>1. task[c].step = "Observed" /\ AnsweredTo(task[c])
  BY DEF Decide, PlannerInv, CallersStand, Idle
<1>2. PICK p \in Preparations(plannerJournal) : \E o : task[c].observed = ObservedRecord(p, o)
  BY <1>1 DEF AnsweredTo
<1>3. PICK o : task[c].observed = ObservedRecord(p, o)
  BY <1>2
<1> DEFINE observed == ObservedRecord(p, o)
           decision == Decision(p, o)
           record == DecisionRecord(observed, decision)
<1>4. observed.prepared = p /\ observed.observation = o
  BY DEF ObservedRecord
<1>5. /\ Retains(record, PolicyOf[c]) /\ plannerJournal' = Append(plannerJournal, record)
      /\ task' = [task EXCEPT ![c] = Idle]
      /\ returned' = returned \cup {[observed |-> observed, decision |-> decision]}
      /\ plans' = plans \cup (IF decision.status = "Accepted" THEN {decision.result.plan} ELSE {})
      /\ UNCHANGED calls
  BY <1>3, <1>4 DEF Decide
<1>6. decision.status \in {"Accepted", "Rejected"}
  BY DEF Decision, Reject
<1> HIDE DEF decision, observed
<1>7. /\ record.type = decision.status /\ record.observed = observed /\ record.decision = decision
  BY DEF DecisionRecord
<1> HIDE DEF record
<1>8. /\ RecordsOK' /\ JournalCanBeRebuilt'
      /\ \A x : OfType(plannerJournal, x)' =
              OfType(plannerJournal, x) \cup (IF record.type = x THEN {record} ELSE {})
  BY <1>5, <1>6, <1>7, RetainKeeps DEF RecordTypes, PlannerInv
<1>9. Preparations(plannerJournal)' = Preparations(plannerJournal)
  BY <1>6, <1>7, <1>8 DEF Preparations
<1>10. CallersStand' /\ task'[c] = Idle /\ \A d \in Callers \ {c} : task'[d] = task[d]
  BY <1>5, <1>9, CallerMoves
<1>11. CallsAwait'
  BY <1>5, <1>10, NobodyAwaits DEF Idle
<1>12. OneCallPerReservation'
  BY <1>5, <1>9 DEF PlannerInv, OneCallPerReservation
<1>13. PreparedOnce'
  BY <1>5, <1>9 DEF PlannerInv, PreparedOnce
<1>14. ReturnedIsDurable'
  <2>1. ASSUME NEW r \in returned'
        PROVE  DecisionRecord(r.observed, r.decision) \in
                 OfType(plannerJournal, "Accepted")' \cup OfType(plannerJournal, "Rejected")'
    <3>1. CASE r \in returned
      BY <1>8, <3>1 DEF PlannerInv, ReturnedIsDurable
    <3>2. CASE r = [observed |-> observed, decision |-> decision]
      BY <1>6, <1>7, <1>8, <3>2 DEF record
    <3> QED BY <1>5, <3>1, <3>2
  <2>2. ASSUME NEW q \in plans' \ {EmptyPlan}
        PROVE  \E a \in OfType(plannerJournal, "Accepted")' :
                 /\ a.decision.result.plan = q
                 /\ a.observed.prepared \in Preparations(plannerJournal)'
                 /\ a.observed.prepared.base \in plans'
    <3>1. CASE q \in plans
      BY <1>5, <1>8, <1>9, <3>1 DEF PlannerInv, ReturnedIsDurable
    <3>2. CASE decision.status = "Accepted" /\ q = decision.result.plan
      BY <1>4, <1>5, <1>7, <1>8, <1>9, <3>2 DEF PlannerInv, PreparedOnce
    <3> QED BY <1>5, <3>1, <3>2
  <2> QED BY <2>1, <2>2 DEF ReturnedIsDurable
<1> QED BY <1>8, <1>10, <1>11, <1>12, <1>13, <1>14 DEF PlannerInv

(* A caller that stops leaves the journal as it is.                        *)
LEMMA AbandonKeeps == ASSUME PlannerInv, NEW c \in Callers, Abandon(c) PROVE PlannerInv'
<1>1. task' = [task EXCEPT ![c] = Idle] /\ UNCHANGED <<plannerJournal, plans, calls, returned>>
  BY DEF Abandon
<1>2. /\ Preparations(plannerJournal)' = Preparations(plannerJournal)
      /\ \A x : OfType(plannerJournal, x)' = OfType(plannerJournal, x)
  BY <1>1 DEF Preparations, OfType
<1>3. CallersStand' /\ task'[c] = Idle /\ \A d \in Callers \ {c} : task'[d] = task[d]
  BY <1>1, <1>2, CallerMoves
<1>4. CallsAwait'
  BY <1>1, <1>3, NobodyAwaits DEF Idle
<1>5. OneCallPerReservation' /\ ReturnedIsDurable'
  BY <1>1, <1>2, JournalGrows
<1>6. RecordsOK' /\ PreparedOnce' /\ JournalCanBeRebuilt'
  BY <1>1, <1>2 DEF PlannerInv, RecordsOK, PreparedOnce, JournalCanBeRebuilt
<1> QED BY <1>3, <1>4, <1>5, <1>6 DEF PlannerInv

(* However callers interleave, stop and come back, and whatever policies   *)
(* they hold, a reservation pays for one backend call, what execute        *)
(* returned is what the journal holds, and the journal can be replayed by  *)
(* whoever holds the policy of its records.                                *)
THEOREM JournalSound == PlannerSpec => []JournalIsSound
<1>1. PlannerInv /\ [PlannerNext]_plannerVars => PlannerInv'
  <2> SUFFICES ASSUME PlannerInv, [PlannerNext]_plannerVars PROVE PlannerInv'
    OBVIOUS
  <2>1. CASE UNCHANGED plannerVars
    BY <2>1 DEF plannerVars, PlannerInv, RecordsOK, CallersStand, AskedFor, AnsweredTo, PreparedOnce, CallsAwait,
                OneCallPerReservation, ReturnedIsDurable, JournalCanBeRebuilt, Preparations, OfType
  <2> QED BY <2>1, PrepareKeeps, InferKeeps, AnswerKeeps, RetainObservedKeeps, DecideKeeps, AbandonKeeps
          DEF PlannerNext
<1>2. PlannerInv => JournalIsSound
  <2> SUFFICES ASSUME PlannerInv PROVE JournalIsSound
    OBVIOUS
  <2>1. \A c \in Callers : task[c].step \in {"Idle", "Prepared", "Calling", "Answered", "Observed"}
    BY DEF PlannerInv, CallersStand, Idle
  <2> QED BY <2>1 DEF PlannerInv, RecordsOK, RecordTypes, CallsAwait, JournalIsSound, PlannerTypeOK
<1> QED BY <1>1, <1>2, PlannerStarts, PTL DEF PlannerSpec
-----------------------------------------------------------------------------
(* The plan transition.                                                    *)

(* A work order is a record of six fields; one that a draft describes is   *)
(* pending, and asks for an access of the enumeration.                     *)
Shaped(w) ==
    w = [revision |-> w.revision, obligations |-> w.obligations, deps |-> w.deps,
         targets |-> w.targets, access |-> w.access, state |-> w.state]
Drafted(w) == Shaped(w) /\ w.access \in {NoAccess, ReadOnly, WorkspaceWrite} /\ w.state = "Pending"

(* What a patch may do to an order that is there: a replacement or a       *)
(* cancellation, one revision further.                                     *)
Revised(old, new) ==
    /\ Mutable(old) /\ old.revision < OrderRevisionLimit
    /\ new.revision = old.revision + 1
    /\ Drafted(new) \/ new = [old EXCEPT !.state = "Cancelled", !.revision = @ + 1]

(* There are as many numbers from one to n.                                *)
LEMMA UpTo ==
    ASSUME NEW n \in Nat
    PROVE  IsFiniteSet(1..n) /\ Cardinality(1..n) = n
<1>1. 1 \in Int /\ n \in Int
  OBVIOUS
<1>2. IsFiniteSet(1..n) /\ Cardinality(1..n) = IF 1 > n THEN 0 ELSE n - 1 + 1
  BY <1>1, FS_Interval, ZenonT(30)
<1> QED BY <1>2

(* Local ids that are counted once name one item each.                     *)
LEMMA LocalsAreOwn ==
    ASSUME NEW items, Len(items) \in Nat, LocalsValid(items)
    PROVE  \A i, j \in 1..Len(items) : items[i].local = items[j].local => i = j
<1> DEFINE S == 1..Len(items)
           T == Locals(items)
           f == [i \in S |-> items[i].local]
<1>1. IsFiniteSet(S) /\ Cardinality(S) = Len(items)
  BY UpTo, ZenonT(30)
<1>2. f \in Surjection(S, T)
  BY DEF Surjection, Locals
<1>3. Cardinality(S) = Cardinality(T)
  BY <1>1 DEF LocalsValid
<1> HIDE DEF S, T, f
<1>4. f \in Injection(S, T)
  BY <1>1, <1>2, <1>3, FS_SurjSameCardinalityImpliesInj
<1> QED BY <1>4 DEF Injection, IsInjective, f, S

(* An order made from a draft is pending, at the revision it is made       *)
(* for.                                                                    *)
LEMMA DraftIsDrafted ==
    ASSUME NEW base, NEW draft, NEW p, NEW known, NEW revision,
           draft.access \in {NoAccess, ReadOnly, WorkspaceWrite}
    PROVE  Drafted(DraftOrder(base, draft, p, known, revision))
           /\ DraftOrder(base, draft, p, known, revision).revision = revision
BY DEF Drafted, Shaped, DraftOrder

(* What the additions of a patch leave: the orders of the base, and for    *)
(* each new identity an order drafted by one of them.                      *)
LEMMA Added ==
    ASSUME NEW base, NEW p, Len(p.adds) \in Nat, LocalsValid(p.adds),
           \A i \in 1..Len(p.adds) : p.adds[i].draft.access \in {NoAccess, ReadOnly, WorkspaceWrite},
           base.revision \in Nat,
           \A id \in DOMAIN base.works : id[1] \in 1..base.revision
    PROVE  /\ DOMAIN base.works \subseteq DOMAIN AddWorkOrders(base, p)
           /\ \A id \in DOMAIN base.works : AddWorkOrders(base, p)[id] = base.works[id]
           /\ \A id \in DOMAIN AddWorkOrders(base, p) \ DOMAIN base.works :
                 /\ id[1] = base.revision + 1 /\ Len(p.adds) > 0
                 /\ Drafted(AddWorkOrders(base, p)[id])
                 /\ AddWorkOrders(base, p)[id].revision = 1
<1> DEFINE W(id) == {i \in 1..Len(p.adds) : p.adds[i].local # 0 /\ Allocate(base, p.adds[i].local) = id}
           last(id) == CHOOSE j \in W(id) : \A k \in W(id) : k <= j
           added == AddWorkOrders(base, p)
<1>1. /\ DOMAIN added = DOMAIN base.works \cup AllocateAll(base, Locals(p.adds))
      /\ \A id \in DOMAIN added :
            added[id] = IF W(id) = {} THEN base.works[id]
                        ELSE DraftOrder(base, p.adds[last(id)].draft, p, KnownAt(base, p, last(id)), 1)
  BY DEF AddWorkOrders
<1>2. \A id \in DOMAIN base.works : W(id) = {}
  BY DEF Allocate
<1>3. ASSUME NEW id \in DOMAIN added \ DOMAIN base.works
      PROVE  /\ id[1] = base.revision + 1 /\ Len(p.adds) > 0
             /\ Drafted(added[id]) /\ added[id].revision = 1
  <2>1. PICK i \in 1..Len(p.adds) : p.adds[i].local # 0 /\ id = Allocate(base, p.adds[i].local)
    BY <1>1, <1>3 DEF AllocateAll, Locals
  <2>2. i \in W(id)
    BY <2>1
  <2>3. \A k \in W(id) : k = i
    BY <2>1, LocalsAreOwn DEF Allocate
  <2>4. last(id) \in W(id)
    <3>1. \A k \in W(id) : k <= i
      BY <2>3
    <3> HIDE DEF W
    <3> QED BY <2>2, <3>1
  <2>5. last(id) \in 1..Len(p.adds)
    BY <2>4
  <2>6. added[id] = DraftOrder(base, p.adds[last(id)].draft, p, KnownAt(base, p, last(id)), 1)
    BY <1>1, <2>2
  <2> HIDE DEF last, added, W
  <2>7. Drafted(added[id]) /\ added[id].revision = 1
    BY <2>5, <2>6, DraftIsDrafted
  <2> QED BY <2>1, <2>7 DEF Allocate
<1> QED BY <1>1, <1>2, <1>3

(* What replacements and cancellations make of that.                       *)
LEMMA Mutated ==
    ASSUME NEW base, NEW works, NEW p, MutationsValid(base, works, p),
           \A i \in 1..Len(p.replaces) : p.replaces[i].draft.access \in {NoAccess, ReadOnly, WorkspaceWrite},
           \A id \in DOMAIN works : Shaped(works[id])
    PROVE  /\ DOMAIN MutateWorkOrders(base, works, p) = DOMAIN works
           /\ \A id \in DOMAIN works :
                 \/ MutateWorkOrders(base, works, p)[id] = works[id]
                 \/ /\ Revised(works[id], MutateWorkOrders(base, works, p)[id])
                    /\ (\E i \in 1..Len(p.replaces) : TRUE) \/ (\E i \in 1..Len(p.cancels) : TRUE)
<1> DEFINE R(id) == {i \in 1..Len(p.replaces) : p.replaces[i].id = id}
           first(id) == CHOOSE i \in R(id) : TRUE
           mutated == MutateWorkOrders(base, works, p)
<1>1. /\ DOMAIN mutated = DOMAIN works
      /\ \A id \in DOMAIN works :
            mutated[id] = IF R(id) # {}
                          THEN DraftOrder(base, p.replaces[first(id)].draft, p, DOMAIN works, works[id].revision + 1)
                          ELSE IF \E i \in 1..Len(p.cancels) : p.cancels[i].id = id
                          THEN [works[id] EXCEPT !.state = "Cancelled", !.revision = @ + 1]
                          ELSE works[id]
  BY DEF MutateWorkOrders
<1>2. ASSUME NEW id \in DOMAIN works, R(id) # {}
      PROVE  Revised(works[id], mutated[id]) /\ \E i \in 1..Len(p.replaces) : TRUE
  <2>1. first(id) \in R(id)
    BY <1>2
  <2>2. first(id) \in 1..Len(p.replaces) /\ p.replaces[first(id)].id = id
    BY <2>1
  <2>3. mutated[id] = DraftOrder(base, p.replaces[first(id)].draft, p, DOMAIN works, works[id].revision + 1)
    BY <1>1, <1>2
  <2> HIDE DEF first, mutated, R
  <2>4. Mutable(works[id]) /\ works[id].revision < OrderRevisionLimit
    BY <2>2 DEF MutationsValid, MutationValid
  <2>5. Drafted(mutated[id]) /\ mutated[id].revision = works[id].revision + 1
    BY <2>2, <2>3, DraftIsDrafted
  <2> QED BY <2>2, <2>4, <2>5 DEF Revised
<1>3. ASSUME NEW id \in DOMAIN works, R(id) = {}, NEW i \in 1..Len(p.cancels), p.cancels[i].id = id
      PROVE  Revised(works[id], mutated[id])
  <2>1. mutated[id] = [works[id] EXCEPT !.state = "Cancelled", !.revision = @ + 1]
    BY <1>1, <1>3
  <2>2. Mutable(works[id]) /\ works[id].revision < OrderRevisionLimit
    BY <1>3 DEF MutationsValid, MutationValid
  <2>3. mutated[id].revision = works[id].revision + 1
    BY <2>1 DEF Shaped
  <2> QED BY <2>1, <2>2, <2>3 DEF Revised
<1> QED BY <1>1, <1>2, <1>3

(* A patch without operations has none of any kind.                        *)
LEMMA EmptyPatches ==
    ASSUME NEW p, Len(p.addTargets) \in Nat, Len(p.adds) \in Nat, Len(p.replaces) \in Nat,
           Len(p.cancels) \in Nat, IsEmptyPatch(p)
    PROVE  Len(p.adds) = 0 /\ Len(p.replaces) = 0 /\ Len(p.cancels) = 0
<1> DEFINE a == IF p.summary THEN 1 ELSE 0
           b == Len(p.addTargets)
           c == Len(p.adds)
           d == Len(p.replaces)
           e == Len(p.cancels)
<1>1. a \in Nat /\ b \in Nat /\ c \in Nat /\ d \in Nat /\ e \in Nat
  OBVIOUS
<1>2. a + b + c + d + e = 0
  BY DEF IsEmptyPatch, OperationCount
<1> HIDE DEF a, b, c, d, e
<1>3. c = 0 /\ d = 0 /\ e = 0
  BY <1>1, <1>2
<1> QED BY <1>3 DEF c, d, e
-----------------------------------------------------------------------------
(* The life of a plan.                                                     *)

(* What the plan of any revision satisfies: the checks of its last turn,   *)
(* and identities that name the revision which created the order.          *)
PlanShaped ==
    /\ plan = [revision |-> plan.revision, parent |-> plan.parent, targets |-> plan.targets, works |-> plan.works]
    /\ plan.works = [id \in DOMAIN plan.works |-> plan.works[id]]
PlanTyped ==
    /\ plan.revision \in 0..PlanRevisionLimit /\ Len(plan.parent) <= 1
    /\ \A id \in DOMAIN plan.works : plan.works[id] \in WorkOrders
IdsFollow == \A id \in DOMAIN plan.works : id[1] \in 1..plan.revision
PlanChecked ==
    /\ DependenciesExist(plan.works) /\ NoDependencyOnCancelled(plan.works) /\ ~HasCycle(plan.works)
    /\ plan.works # <<>> => \A o \in Required : Covered(plan.works, o)
HandedInv == \A id \in handed : id \in DOMAIN plan.works /\ plan.works[id].state = "Pending"

PlanInv ==
    /\ PlanShaped /\ PlanTyped /\ IdsFollow /\ PlanChecked /\ HandedInv
    /\ OrderRevisionsFollowThePlan

(* What a step may do to the orders, the targets and the revision.         *)
OrderMoves(old, new) ==
    \/ new = old
    \/ new.revision = old.revision + 1 /\ old.state \in {"Pending", "Failed"}
    \/ new.revision = old.revision /\ [new EXCEPT !.state = old.state] = old
       /\ <<old.state, new.state>> \in
            {<<"Pending", "Running">>, <<"Running", "Completed">>, <<"Running", "Failed">>}
HistoryKept ==
    /\ DOMAIN plan.works \subseteq DOMAIN plan'.works
    /\ \A id \in DOMAIN plan'.works \ DOMAIN plan.works :
          id[1] = plan'.revision /\ plan'.revision = plan.revision + 1
    /\ \A id \in DOMAIN plan.targets :
          id \in DOMAIN plan'.targets /\ plan'.targets[id] = plan.targets[id]
    /\ \A id \in DOMAIN plan.works : OrderMoves(plan.works[id], plan'.works[id])
    /\ \A id \in DOMAIN plan.works :
          plan.works[id].state = "Cancelled" =>
            \A dep \in plan.works[id].deps : plan'.works[dep].state # "Cancelled"

(* The counters have room for one.                                         *)
LEMMA Limits ==
    /\ PlanRevisionLimit \in Nat \ {0} /\ OrderRevisionLimit \in Nat \ {0}
BY PlanPatchAssumption DEF PlanPatchAssumption

(* The empty plan has no work to check.                                    *)
LEMMA PlanStarts == PlanInit => PlanInv
<1> SUFFICES ASSUME PlanInit PROVE PlanInv
  OBVIOUS
<1>1. /\ plan.revision = 0 /\ plan.parent = <<>> /\ plan.works = <<>> /\ handed = {}
      /\ plan = [revision |-> plan.revision, parent |-> plan.parent, targets |-> plan.targets, works |-> plan.works]
  BY DEF PlanInit, EmptyPlan
<1>2. DOMAIN plan.works = {} /\ Len(plan.parent) = 0
  BY <1>1
<1>3. plan.works = [id \in DOMAIN plan.works |-> plan.works[id]]
  BY <1>1
<1>4. ~HasCycle(plan.works)
  <2>1. SUBSET DOMAIN plan.works = {{}}
    BY <1>2
  <2> QED BY <2>1 DEF HasCycle
<1>5. DependenciesExist(plan.works) /\ NoDependencyOnCancelled(plan.works)
  BY <1>2 DEF DependenciesExist, NoDependencyOnCancelled
<1> QED BY <1>1, <1>2, <1>3, <1>4, <1>5, Limits
        DEF PlanInv, PlanShaped, PlanTyped, IdsFollow, PlanChecked, HandedInv, OrderRevisionsFollowThePlan

(* An order of a plan is a record of six fields.                           *)
LEMMA OrdersAreShaped == ASSUME PlanInv PROVE \A id \in DOMAIN plan.works : Shaped(plan.works[id])
BY DEF PlanInv, PlanTyped, WorkOrders, Shaped

(* What an accepted turn makes of the orders.                              *)
LEMMA TurnMoves ==
    ASSUME PlanInv, NEW turn, DecodedTurn(turn), TurnValid(plan, turn),
           plan' = Apply(plan, turn).plan
    PROVE  /\ PlanShaped' /\ plan' = PatchedPlan(plan, turn.patch)
           /\ plan'.revision \in {plan.revision, plan.revision + 1} /\ plan'.revision <= PlanRevisionLimit
           /\ Len(plan'.parent) <= 1
           /\ DOMAIN plan.works \subseteq DOMAIN plan'.works
           /\ \A id \in DOMAIN plan'.works \ DOMAIN plan.works :
                 /\ id[1] = plan'.revision /\ plan'.revision = plan.revision + 1
                 /\ \E w : Drafted(w) /\ w.revision = 1
                         /\ (plan'.works[id] = w \/ Revised(w, plan'.works[id]))
           /\ \A id \in DOMAIN plan.works :
                 \/ plan'.works[id] = plan.works[id]
                 \/ /\ Revised(plan.works[id], plan'.works[id])
                    /\ plan'.revision = plan.revision + 1
<1> DEFINE p == turn.patch
           added == AddWorkOrders(plan, p)
           works == MutateWorkOrders(plan, added, p)
<1>1. /\ Len(p.addTargets) \in Nat /\ Len(p.adds) \in Nat /\ Len(p.replaces) \in Nat /\ Len(p.cancels) \in Nat
      /\ \A i \in 1..Len(p.adds) : p.adds[i].draft.access \in {NoAccess, ReadOnly, WorkspaceWrite}
      /\ \A i \in 1..Len(p.replaces) : p.replaces[i].draft.access \in {NoAccess, ReadOnly, WorkspaceWrite}
  BY DEF DecodedTurn
<1>2. /\ LocalsValid(p.adds) /\ MutationsValid(plan, added, p)
      /\ ~IsEmptyPatch(p) => plan.revision < PlanRevisionLimit
  BY DEF TurnValid, AddsValid, StructureValid
<1>3. /\ plan' = [revision |-> IF IsEmptyPatch(p) THEN plan.revision ELSE plan.revision + 1,
                   parent   |-> IF IsEmptyPatch(p) THEN plan.parent ELSE <<plan.revision>>,
                   targets  |-> AddTargets(plan, p), works |-> works]
      /\ plan' = PatchedPlan(plan, p)
  BY DEF Apply, PatchedPlan
<1>4. /\ DOMAIN plan.works \subseteq DOMAIN added
      /\ \A id \in DOMAIN plan.works : added[id] = plan.works[id]
      /\ \A id \in DOMAIN added \ DOMAIN plan.works :
            /\ id[1] = plan.revision + 1 /\ Len(p.adds) > 0
            /\ Drafted(added[id]) /\ added[id].revision = 1
  <2>1. plan.revision \in Nat /\ \A id \in DOMAIN plan.works : id[1] \in 1..plan.revision
    BY DEF PlanInv, PlanTyped, IdsFollow
  <2> QED BY <1>1, <1>2, <2>1, Added
<1>5. \A id \in DOMAIN added : Shaped(added[id])
  BY <1>4, OrdersAreShaped DEF Drafted
<1>6. /\ DOMAIN works = DOMAIN added
      /\ \A id \in DOMAIN added :
            \/ works[id] = added[id]
            \/ /\ Revised(added[id], works[id])
               /\ (\E i \in 1..Len(p.replaces) : TRUE) \/ (\E i \in 1..Len(p.cancels) : TRUE)
  <2> HIDE DEF added, p
  <2> QED BY <1>1, <1>2, <1>5, Mutated
<1>7. works = [id \in DOMAIN works |-> works[id]]
  BY DEF MutateWorkOrders
<1>8. IsEmptyPatch(p) => Len(p.adds) = 0 /\ Len(p.replaces) = 0 /\ Len(p.cancels) = 0
  <2> HIDE DEF p
  <2> QED BY <1>1, EmptyPatches
<1> HIDE DEF p, added, works
<1>9. /\ plan'.revision = (IF IsEmptyPatch(p) THEN plan.revision ELSE plan.revision + 1)
      /\ plan'.parent = (IF IsEmptyPatch(p) THEN plan.parent ELSE <<plan.revision>>)
      /\ plan'.works = works
      /\ plan' = [revision |-> plan'.revision, parent |-> plan'.parent, targets |-> plan'.targets, works |-> plan'.works]
  BY <1>3
<1>10. PlanShaped'
  BY <1>7, <1>9 DEF PlanShaped
<1>11. plan'.revision \in {plan.revision, plan.revision + 1} /\ plan'.revision <= PlanRevisionLimit /\ Len(plan'.parent) <= 1
  <2>1. plan.revision \in Nat /\ plan.revision <= PlanRevisionLimit /\ Len(plan.parent) <= 1
    BY Limits DEF PlanInv, PlanTyped
  <2>2. Len(<<plan.revision>>) = 1
    OBVIOUS
  <2> QED BY <1>2, <1>9, <2>1, <2>2, Limits
<1>12. ASSUME NEW id \in DOMAIN works \ DOMAIN plan.works
       PROVE  /\ id[1] = plan.revision + 1 /\ ~IsEmptyPatch(p)
              /\ Drafted(added[id]) /\ added[id].revision = 1
              /\ works[id] = added[id] \/ Revised(added[id], works[id])
  <2>1. id \in DOMAIN added \ DOMAIN plan.works
    BY <1>6
  <2>2. ~IsEmptyPatch(p)
    BY <1>4, <1>8, <2>1
  <2> QED BY <1>4, <1>6, <2>1, <2>2
<1>13. ASSUME NEW id \in DOMAIN plan.works
       PROVE  \/ works[id] = plan.works[id]
              \/ Revised(plan.works[id], works[id]) /\ ~IsEmptyPatch(p)
  <2>1. id \in DOMAIN added /\ added[id] = plan.works[id]
    BY <1>4
  <2>2. (\E i \in 1..Len(p.replaces) : TRUE) \/ (\E i \in 1..Len(p.cancels) : TRUE) => ~IsEmptyPatch(p)
    BY <1>1, <1>8
  <2> QED BY <1>6, <2>1, <2>2
<1>14. DOMAIN plan.works \subseteq DOMAIN works
  BY <1>4, <1>6
<1>15. plan' = PatchedPlan(plan, turn.patch)
  BY <1>3 DEF p
<1> QED BY <1>9, <1>10, <1>11, <1>12, <1>13, <1>14, <1>15

(* What validation checks of the plan a turn leaves.                       *)
LEMMA TurnChecked ==
    ASSUME NEW turn, TurnValid(plan, turn), plan' = PatchedPlan(plan, turn.patch)
    PROVE  /\ PlanChecked'
           /\ \A id \in DOMAIN plan'.works :
                 /\ plan'.works[id].access <= ReadOnly
                 /\ plan'.works[id].targets \subseteq DOMAIN plan'.targets
                 /\ plan'.works[id].obligations \in (SUBSET Obligations) \ {{}}
                 /\ plan'.works[id].deps \subseteq DOMAIN plan'.works
<1>1. PlanInvariant(plan', InitialPause(plan, turn.patch, turn.directive))
  BY DEF TurnValid
<1>2. /\ DependenciesExist(plan'.works) /\ NoDependencyOnCancelled(plan'.works) /\ ~HasCycle(plan'.works)
      /\ plan'.works # <<>> => \A o \in Required : Covered(plan'.works, o)
  BY <1>1 DEF PlanInvariant
<1>3. PlanChecked'
  BY <1>2 DEF PlanChecked
<1>4. \A id \in DOMAIN plan'.works :
        /\ plan'.works[id].access <= ReadOnly
        /\ plan'.works[id].targets \subseteq DOMAIN plan'.targets
        /\ plan'.works[id].obligations # {} /\ plan'.works[id].obligations \subseteq Obligations
  BY <1>1 DEF PlanInvariant, ObligationsValid
<1>5. \A id \in DOMAIN plan'.works : plan'.works[id].deps \subseteq DOMAIN plan'.works
  BY <1>2 DEF DependenciesExist
<1> QED BY <1>3, <1>4, <1>5

(* What a turn hands out is in the plan it made, and pending there.        *)
LEMMA TurnHands ==
    ASSUME NEW turn, TurnValid(plan, turn), plan' = PatchedPlan(plan, turn.patch),
           handed' = Apply(plan, turn).orders
    PROVE  HandedInv'
<1> DEFINE p == turn.patch
           d == turn.directive
<1>1. DirectiveValid(plan, d, plan', p) /\ handed' = Directed(plan, d, plan', p)
  BY DEF TurnValid, Apply
<1>2. AllocateAll(plan, Locals(p.adds)) \subseteq DOMAIN plan'.works
  BY DEF PatchedPlan, MutateWorkOrders, AddWorkOrders
<1>3. ASSUME NEW selection, SelectionValid(plan, selection, plan', p)
      PROVE  \A id \in Selected(plan, selection, plan', p) :
               id \in DOMAIN plan'.works /\ plan'.works[id].state = "Pending"
  <2>1. AllocateAll(plan, selection.new \cap Locals(p.adds)) \subseteq AllocateAll(plan, Locals(p.adds))
    BY DEF AllocateAll
  <2>2. \A id \in Selected(plan, selection, plan', p) : id \in DOMAIN plan'.works
    BY <1>2, <2>1 DEF Selected
  <2> QED BY <1>3, <2>2 DEF SelectionValid
<1> HIDE DEF p, d
<1>4. CASE d.kind = "Execute"
  <2>1. handed' = Selected(plan, d.execute, plan', p) /\ SelectionValid(plan, d.execute, plan', p)
    BY <1>1, <1>4 DEF Directed, DirectiveValid, ExecuteValid
  <2> QED BY <1>3, <2>1 DEF HandedInv
<1>5. CASE d.kind = "Delegate"
  <2>1. /\ handed' = UNION {Selected(plan, d.delegations[i].work, plan', p) : i \in 1..Len(d.delegations)}
        /\ \A i \in 1..Len(d.delegations) : SelectionValid(plan, d.delegations[i].work, plan', p)
    BY <1>1, <1>5 DEF Directed, DirectiveValid, DelegateValid
  <2>2. ASSUME NEW id \in handed' PROVE id \in DOMAIN plan'.works /\ plan'.works[id].state = "Pending"
    <3>1. PICK i \in 1..Len(d.delegations) : id \in Selected(plan, d.delegations[i].work, plan', p)
      BY <2>1
    <3> QED BY <1>3, <2>1, <3>1
  <2> QED BY <2>2 DEF HandedInv
<1>6. CASE d.kind \notin {"Execute", "Delegate"}
  BY <1>1, <1>6 DEF Directed, HandedInv
<1> QED BY <1>4, <1>5, <1>6

(* An order lands typed if a draft made it, or if it was typed and moved on.  *)
LEMMA Landed ==
    ASSUME NEW old, Shaped(old), NEW new, Revised(old, new)
    PROVE  /\ Shaped(new) /\ new.state \in {"Pending", "Cancelled"} /\ new.revision = old.revision + 1
           /\ old.state \in {"Pending", "Failed"} /\ old.revision < OrderRevisionLimit
           /\ new.access \in {NoAccess, ReadOnly, WorkspaceWrite} \/ new.access = old.access
BY DEF Revised, Mutable, Drafted, Shaped

(* An accepted turn leaves orders of the right type, under identities of   *)
(* revisions that exist.                                                   *)
LEMMA TurnTypes ==
    ASSUME PlanInv, NEW turn, DecodedTurn(turn), TurnValid(plan, turn),
           plan' = Apply(plan, turn).plan
    PROVE  PlanTyped' /\ IdsFollow' /\ OrderRevisionsFollowThePlan'
<1>1. /\ plan' = PatchedPlan(plan, turn.patch)
      /\ plan'.revision \in {plan.revision, plan.revision + 1} /\ plan'.revision <= PlanRevisionLimit
      /\ Len(plan'.parent) <= 1
      /\ DOMAIN plan.works \subseteq DOMAIN plan'.works
      /\ \A id \in DOMAIN plan'.works \ DOMAIN plan.works :
            /\ id[1] = plan'.revision /\ plan'.revision = plan.revision + 1
            /\ \E w : Drafted(w) /\ w.revision = 1
                    /\ (plan'.works[id] = w \/ Revised(w, plan'.works[id]))
      /\ \A id \in DOMAIN plan.works :
            \/ plan'.works[id] = plan.works[id]
            \/ /\ Revised(plan.works[id], plan'.works[id])
               /\ plan'.revision = plan.revision + 1
  BY TurnMoves
<1>2. \A id \in DOMAIN plan'.works :
        /\ plan'.works[id].access <= ReadOnly
        /\ plan'.works[id].targets \subseteq DOMAIN plan'.targets
        /\ plan'.works[id].obligations \in (SUBSET Obligations) \ {{}}
        /\ plan'.works[id].deps \subseteq DOMAIN plan'.works
  BY <1>1, TurnChecked
<1>3. /\ plan.revision \in Nat
      /\ \A id \in DOMAIN plan.works :
            /\ id[1] \in 1..plan.revision /\ Shaped(plan.works[id])
            /\ plan.works[id].revision \in 1..OrderRevisionLimit
            /\ plan.works[id].revision <= plan.revision - id[1] + 2
            /\ plan.works[id].access \in {NoAccess, ReadOnly}
            /\ plan.works[id].state \in PlannedWorkOrderStates
  BY OrdersAreShaped DEF PlanInv, PlanTyped, IdsFollow, WorkOrders, OrderRevisionsFollowThePlan
<1>4. ASSUME NEW id \in DOMAIN plan'.works
      PROVE  /\ Shaped(plan'.works[id]) /\ plan'.works[id].state \in PlannedWorkOrderStates
             /\ plan'.works[id].access \in {NoAccess, ReadOnly, WorkspaceWrite}
             /\ plan'.works[id].revision \in 1..OrderRevisionLimit
             /\ id[1] \in 1..plan'.revision
             /\ plan'.works[id].revision <= plan'.revision - id[1] + 2
  <2>1. CASE id \in DOMAIN plan.works
    <3>1. CASE plan'.works[id] = plan.works[id]
      BY <1>1, <1>3, <2>1, <3>1
    <3>2. CASE Revised(plan.works[id], plan'.works[id]) /\ plan'.revision = plan.revision + 1
      <4>1. /\ Shaped(plan'.works[id]) /\ plan'.works[id].state \in {"Pending", "Cancelled"}
            /\ plan'.works[id].revision = plan.works[id].revision + 1
            /\ plan.works[id].revision < OrderRevisionLimit
            /\ \/ plan'.works[id].access \in {NoAccess, ReadOnly, WorkspaceWrite}
               \/ plan'.works[id].access = plan.works[id].access
        BY <1>3, <2>1, <3>2, Landed
      <4> QED BY <1>3, <2>1, <3>2, <4>1, Limits DEF PlannedWorkOrderStates
    <3> QED BY <1>1, <2>1, <3>1, <3>2
  <2>2. CASE id \notin DOMAIN plan.works
    <3>1. id[1] = plan'.revision /\ plan'.revision = plan.revision + 1
      BY <1>1, <2>2
    <3>2. PICK w : Drafted(w) /\ w.revision = 1 /\ (plan'.works[id] = w \/ Revised(w, plan'.works[id]))
      BY <1>1, <2>2
    <3>3. CASE plan'.works[id] = w
      BY <1>3, <3>1, <3>2, <3>3, Limits DEF Drafted, PlannedWorkOrderStates
    <3>4. CASE Revised(w, plan'.works[id])
      <4>1. /\ Shaped(plan'.works[id]) /\ plan'.works[id].state \in {"Pending", "Cancelled"}
            /\ plan'.works[id].revision = 2 /\ 1 < OrderRevisionLimit
            /\ plan'.works[id].access \in {NoAccess, ReadOnly, WorkspaceWrite}
        BY <3>2, <3>4, Landed DEF Drafted
      <4> QED BY <1>3, <3>1, <4>1, Limits DEF PlannedWorkOrderStates
    <3> QED BY <3>2, <3>3, <3>4
  <2> QED BY <2>1, <2>2
<1>5. ASSUME NEW id \in DOMAIN plan'.works PROVE plan'.works[id] \in WorkOrders'
  <2> DEFINE w == plan'.works[id]
  <2>1. w.access \in {NoAccess, ReadOnly}
    BY <1>2, <1>4 DEF NoAccess, ReadOnly, WorkspaceWrite
  <2>2. /\ Shaped(w) /\ w.state \in PlannedWorkOrderStates /\ w.revision \in 1..OrderRevisionLimit
        /\ w.targets \subseteq DOMAIN plan'.targets /\ w.obligations \in (SUBSET Obligations) \ {{}}
        /\ w.deps \subseteq DOMAIN plan'.works
    BY <1>2, <1>4
  <2> HIDE DEF w
  <2>3. w \in WorkOrders'
    BY <2>1, <2>2 DEF Shaped, WorkOrders
  <2> QED BY <2>3 DEF w
<1>6. plan'.revision \in 0..PlanRevisionLimit
  BY <1>1, <1>3, Limits
<1> QED BY <1>1, <1>4, <1>5, <1>6 DEF PlanTyped, IdsFollow, OrderRevisionsFollowThePlan

(* A turn keeps the targets, and rewrites what may be rewritten.              *)
LEMMA TurnKeepsHistory ==
    ASSUME PlanInv, NEW turn, DecodedTurn(turn), TurnValid(plan, turn),
           plan' = Apply(plan, turn).plan
    PROVE  HistoryKept
<1>1. /\ plan' = PatchedPlan(plan, turn.patch)
      /\ DOMAIN plan.works \subseteq DOMAIN plan'.works
      /\ \A id \in DOMAIN plan'.works \ DOMAIN plan.works :
            id[1] = plan'.revision /\ plan'.revision = plan.revision + 1
      /\ \A id \in DOMAIN plan.works :
            \/ plan'.works[id] = plan.works[id]
            \/ Revised(plan.works[id], plan'.works[id])
  BY TurnMoves
<1>2. \A id \in DOMAIN plan.targets : id \in DOMAIN plan'.targets /\ plan'.targets[id] = plan.targets[id]
  BY <1>1 DEF PatchedPlan, AddTargets
<1>3. \A id \in DOMAIN plan.works : OrderMoves(plan.works[id], plan'.works[id])
  BY <1>1 DEF OrderMoves, Revised, Mutable
<1>4. ASSUME NEW id \in DOMAIN plan.works, plan.works[id].state = "Cancelled", NEW dep \in plan.works[id].deps
      PROVE  plan'.works[dep].state # "Cancelled"
  <2>1. plan'.works[id] = plan.works[id]
    BY <1>1, <1>4 DEF Revised, Mutable
  <2>2. DependenciesExist(plan'.works) /\ NoDependencyOnCancelled(plan'.works)
    BY <1>1, TurnChecked DEF PlanChecked
  <2>3. id \in DOMAIN plan'.works /\ dep \in plan'.works[id].deps
    BY <1>1, <1>4, <2>1
  <2> QED BY <2>2, <2>3 DEF DependenciesExist, NoDependencyOnCancelled
<1> QED BY <1>1, <1>2, <1>3, <1>4 DEF HistoryKept

(* An accepted turn keeps the invariant, and the history.                  *)
LEMMA TurnKeeps ==
    ASSUME PlanInv, TurnsAreDecoded, Turn
    PROVE  PlanInv' /\ HistoryKept
<1>1. PICK turn \in TurnsFor(plan) :
        TurnValid(plan, turn) /\ plan' = Apply(plan, turn).plan /\ handed' = Apply(plan, turn).orders
  BY DEF Turn
<1>2. DecodedTurn(turn)
  BY <1>1 DEF TurnsAreDecoded
<1>3. PlanShaped' /\ plan' = PatchedPlan(plan, turn.patch)
  BY <1>1, <1>2, TurnMoves
<1>4. PlanTyped' /\ IdsFollow' /\ OrderRevisionsFollowThePlan'
  BY <1>1, <1>2, TurnTypes
<1>5. PlanChecked' /\ HandedInv'
  BY <1>1, <1>3, TurnChecked, TurnHands
<1>6. HistoryKept
  BY <1>1, <1>2, TurnKeepsHistory
<1> QED BY <1>3, <1>4, <1>5, <1>6 DEF PlanInv

(* An order in another state differs in nothing else.                        *)
LEMMA OtherState ==
    ASSUME NEW w, Shaped(w), NEW s, NEW v, v = [w EXCEPT !.state = s]
    PROVE  /\ Shaped(v) /\ v.state = s /\ [v EXCEPT !.state = w.state] = w
           /\ v.revision = w.revision /\ v.obligations = w.obligations /\ v.deps = w.deps
           /\ v.targets = w.targets /\ v.access = w.access
<1> DEFINE u == [revision |-> w.revision, obligations |-> w.obligations, deps |-> w.deps,
                 targets |-> w.targets, access |-> w.access, state |-> s]
<1>1. v = u
  BY DEF Shaped
<1>2. Shaped(u) /\ u.state = s /\ u.revision = w.revision /\ u.obligations = w.obligations
      /\ u.deps = w.deps /\ u.targets = w.targets /\ u.access = w.access
  BY DEF Shaped
<1>3. [u EXCEPT !.state = w.state] = w
  BY DEF Shaped
<1> HIDE DEF u
<1> QED BY <1>1, <1>2, <1>3

(* The dispatcher moves one order's state, and what it starts it no longer   *)
(* holds as handed out.                                                      *)
LEMMA StateMoves ==
    ASSUME PlanInv, NEW id \in DOMAIN plan.works, NEW s,
           plan' = [plan EXCEPT !.works[id].state = s],
           <<plan.works[id].state, s>> \in
             {<<"Pending", "Running">>, <<"Running", "Completed">>, <<"Running", "Failed">>},
           \A h \in handed' : h \in handed /\ h # id
    PROVE  PlanInv' /\ HistoryKept
<1>1. PlanShaped /\ PlanTyped /\ IdsFollow /\ PlanChecked /\ HandedInv /\ OrderRevisionsFollowThePlan
  BY DEF PlanInv
<1>2. /\ PlanShaped' /\ plan'.revision = plan.revision /\ plan'.parent = plan.parent
      /\ plan'.targets = plan.targets /\ DOMAIN plan'.works = DOMAIN plan.works
      /\ \A x \in DOMAIN plan.works : x # id => plan'.works[x] = plan.works[x]
      /\ plan'.works[id] = [plan.works[id] EXCEPT !.state = s]
  BY <1>1 DEF PlanShaped
<1>3. plan.works[id].state # "Cancelled" /\ s # "Cancelled" /\ s \in PlannedWorkOrderStates
  BY DEF PlannedWorkOrderStates
<1>4. \A x \in DOMAIN plan.works :
        /\ plan.works[x] \in WorkOrders /\ Shaped(plan.works[x])
        /\ plan.works[x].deps \subseteq DOMAIN plan.works
  BY <1>1, OrdersAreShaped DEF PlanTyped, PlanChecked, DependenciesExist
<1>5. Shaped(plan'.works[id]) /\ plan'.works[id].state = s /\ [plan'.works[id] EXCEPT !.state = plan.works[id].state] = plan.works[id]
      /\ plan'.works[id].revision = plan.works[id].revision /\ plan'.works[id].obligations = plan.works[id].obligations
      /\ plan'.works[id].deps = plan.works[id].deps /\ plan'.works[id].targets = plan.works[id].targets
      /\ plan'.works[id].access = plan.works[id].access
  <2>1. Shaped(plan.works[id]) /\ plan'.works[id] = [plan.works[id] EXCEPT !.state = s]
    BY <1>2, <1>4
  <2> QED BY <2>1, OtherState
<1>6. \A x \in DOMAIN plan.works :
        /\ plan'.works[x].deps = plan.works[x].deps /\ plan'.works[x].obligations = plan.works[x].obligations
        /\ plan'.works[x].revision = plan.works[x].revision
        /\ plan'.works[x].state = "Cancelled" <=> plan.works[x].state = "Cancelled"
  BY <1>2, <1>3, <1>5
<1>7. PlanTyped'
  <2>1. WorkOrders' = WorkOrders
    BY <1>2 DEF WorkOrders
  <2>2. plan'.works[id] \in WorkOrders
    BY <1>3, <1>4, <1>5 DEF WorkOrders, Shaped
  <2> QED BY <1>1, <1>2, <1>4, <2>1, <2>2 DEF PlanTyped
<1>8. IdsFollow' /\ OrderRevisionsFollowThePlan'
  BY <1>1, <1>2, <1>6 DEF IdsFollow, OrderRevisionsFollowThePlan
<1>9. HandedInv'
  BY <1>1, <1>2 DEF HandedInv
<1>10. PlanChecked'
  <2>1. DependenciesExist(plan'.works) /\ NoDependencyOnCancelled(plan'.works)
    BY <1>1, <1>2, <1>6 DEF PlanChecked, DependenciesExist, NoDependencyOnCancelled
  <2>2. ~HasCycle(plan'.works)
    BY <1>1, <1>2, <1>6 DEF PlanChecked, HasCycle
  <2>3. ASSUME NEW o \in Required PROVE Covered(plan'.works, o)
    <3>1. plan.works # <<>>
      <4>1. DOMAIN <<>> = {}
        OBVIOUS
      <4> QED BY <4>1
    <3> QED BY <1>1, <1>2, <1>6, <3>1 DEF PlanChecked, Covered
  <2> QED BY <2>1, <2>2, <2>3 DEF PlanChecked
<1>11. HistoryKept
  <2>1. \A x \in DOMAIN plan.works : OrderMoves(plan.works[x], plan'.works[x])
    BY <1>2, <1>5 DEF OrderMoves
  <2>2. ASSUME NEW x \in DOMAIN plan.works, plan.works[x].state = "Cancelled", NEW dep \in plan.works[x].deps
        PROVE  plan'.works[dep].state # "Cancelled"
    BY <1>1, <1>4, <1>6, <2>2 DEF PlanChecked, NoDependencyOnCancelled
  <2> QED BY <1>2, <2>1, <2>2 DEF HistoryKept
<1> QED BY <1>2, <1>7, <1>8, <1>9, <1>10, <1>11 DEF PlanInv

(* An order that is handed out starts.                                     *)
LEMMA StartOrderKeeps == ASSUME PlanInv, StartOrder PROVE PlanInv' /\ HistoryKept
<1>1. PICK id \in handed :
        /\ plan.works[id].state = "Pending"
        /\ plan' = [plan EXCEPT !.works[id].state = "Running"] /\ handed' = handed \ {id}
  BY DEF StartOrder
<1>2. id \in DOMAIN plan.works
  BY <1>1 DEF PlanInv, HandedInv
<1>3. <<plan.works[id].state, "Running">> = <<"Pending", "Running">>
  BY <1>1
<1> QED BY <1>1, <1>2, <1>3, StateMoves

(* A running order ends.                                                   *)
LEMMA EndOrderKeeps == ASSUME PlanInv, EndOrder PROVE PlanInv' /\ HistoryKept
<1>1. PICK id \in DOMAIN plan.works, outcome \in {"Completed", "Failed"} :
        /\ plan.works[id].state = "Running"
        /\ plan' = [plan EXCEPT !.works[id].state = outcome] /\ UNCHANGED handed
  BY DEF EndOrder
<1>2. \A h \in handed' : h \in handed /\ h # id
  BY <1>1 DEF PlanInv, HandedInv
<1>3. <<plan.works[id].state, outcome>> \in {<<"Running", "Completed">>, <<"Running", "Failed">>}
  BY <1>1
<1> QED BY <1>1, <1>2, <1>3, StateMoves

(* Whatever x waits for, x is not reached from there: the orders from which  *)
(* x is reached through what they wait for would form a ring.                *)
LEMMA NobodyWaitsForItself ==
    ASSUME PlanInv, NEW x \in DOMAIN plan.works, NEW dep \in plan.works[x].deps
    PROVE  x \notin Cone(dep)
<1>1. DependenciesExist(plan.works) /\ ~HasCycle(plan.works)
  BY DEF PlanInv, PlanChecked
<1> SUFFICES ASSUME x \in Cone(dep) PROVE FALSE
  OBVIOUS
<1> DEFINE ring == {y \in DOMAIN plan.works : \E d \in plan.works[y].deps : x \in Cone(d)}
<1>2. x \in ring /\ ring \in (SUBSET DOMAIN plan.works) \ {{}}
  OBVIOUS
<1>3. ASSUME NEW y \in ring PROVE plan.works[y].deps \cap ring # {}
  <2>1. PICK d \in plan.works[y].deps : x \in Cone(d)
    OBVIOUS
  <2>2. d \in DOMAIN plan.works
    BY <1>1, <2>1 DEF DependenciesExist
  <2>3. CASE d = x
    BY <1>2, <2>1, <2>3
  <2>4. CASE d # x
    <3> DEFINE closed == {ids \in SUBSET DOMAIN plan.works : Waited(ids) /\ x \notin ids}
               reached == {d} \cup UNION closed
    <3>1. reached \subseteq DOMAIN plan.works /\ d \in reached /\ x \notin reached
      BY <2>2, <2>4
    <3>2. ~Waited(reached)
      BY <2>1, <3>1 DEF Cone
    <3>3. PICK z \in reached : ~(plan.works[z].deps \subseteq reached)
      BY <3>2 DEF Waited
    <3>4. z = d
      <4>1. SUFFICES ASSUME NEW ids \in closed, z \in ids PROVE FALSE
        BY <3>3
      <4>2. plan.works[z].deps \subseteq ids
        BY <4>1 DEF Waited
      <4> QED BY <3>3, <4>1, <4>2
    <3>5. PICK e \in plan.works[d].deps : e \notin reached
      BY <3>3, <3>4
    <3>6. x \in Cone(e)
      <4>1. \A ids \in SUBSET DOMAIN plan.works : e \in ids /\ Waited(ids) => x \in ids
        BY <3>5
      <4> QED BY <4>1 DEF Cone
    <3> QED BY <2>1, <2>2, <3>5, <3>6
  <2> QED BY <2>3, <2>4
<1> QED BY <1>1, <1>2, <1>3 DEF HasCycle

(* What a live order waits for is alive, so the whole cone is.               *)
LEMMA ReachableWork == PlanInv => RequiredWorkIsReachable
<1> SUFFICES ASSUME PlanInv, plan.works # <<>>, NEW o \in Required
             PROVE  \E id \in DOMAIN plan.works :
                      /\ o \in plan.works[id].obligations
                      /\ \A x \in Cone(id) :
                           /\ plan.works[x].state # "Cancelled"
                           /\ \A dep \in plan.works[x].deps : x \notin Cone(dep)
  BY DEF RequiredWorkIsReachable
<1>1. /\ DependenciesExist(plan.works) /\ NoDependencyOnCancelled(plan.works) /\ Covered(plan.works, o)
  BY DEF PlanInv, PlanChecked
<1>2. PICK id \in DOMAIN plan.works : plan.works[id].state # "Cancelled" /\ o \in plan.works[id].obligations
  BY <1>1 DEF Covered
<1> DEFINE alive == {x \in DOMAIN plan.works : plan.works[x].state # "Cancelled"}
<1>3. Waited(alive)
  BY <1>1 DEF Waited, DependenciesExist, NoDependencyOnCancelled
<1>4. Cone(id) \subseteq alive
  BY <1>2, <1>3 DEF Cone
<1>5. \A x \in Cone(id) : \A dep \in plan.works[x].deps : x \notin Cone(dep)
  BY <1>4, NobodyWaitsForItself
<1> QED BY <1>2, <1>4, <1>5

(* Whatever the step.                                                      *)
LEMMA PlanStepKeeps ==
    ASSUME PlanInv, TurnsAreDecoded, [PlanNext]_planVars
    PROVE  PlanInv' /\ (HistoryKept \/ UNCHANGED planVars)
<1>1. CASE UNCHANGED planVars
  BY <1>1 DEF planVars, PlanInv, PlanShaped, PlanTyped, IdsFollow, PlanChecked, HandedInv,
              OrderRevisionsFollowThePlan, WorkOrders
<1>2. CASE PlanNext
  BY <1>2, TurnKeeps, StartOrderKeeps, EndOrderKeeps DEF PlanNext
<1> QED BY <1>1, <1>2

(* Whatever decoded turns are answered, at whatever limits: once a plan has  *)
(* work, every required obligation is carried by an order that can still be  *)
(* finished, the order counters follow the plan counter, and what is handed  *)
(* out is pending.                                                           *)
THEOREM PlanSound == PlanSpec /\ []TurnsAreDecoded => []PlanIsSound
<1>1. PlanInv /\ TurnsAreDecoded /\ [PlanNext]_planVars => PlanInv'
  BY PlanStepKeeps
<1>2. PlanInv /\ TurnsAreDecoded => PlanIsSound
  <2> SUFFICES ASSUME PlanInv, TurnsAreDecoded PROVE PlanIsSound
    OBVIOUS
  <2>1. PlanTypeOK /\ HandedOutIsPending /\ OrderRevisionsFollowThePlan
    BY DEF PlanInv, PlanTyped, HandedInv, PlanTypeOK, HandedOutIsPending
  <2> QED BY <2>1, ReachableWork DEF PlanIsSound
<1> QED BY <1>1, <1>2, PlanStarts, PTL DEF PlanSpec

(* No decoded turn loses an order or a target, or rewrites one that runs or  *)
(* is done, and every rewrite takes the next revision of its order.          *)
THEOREM HistoryIsKept == PlanSpec /\ []TurnsAreDecoded => TurnsKeepHistory
<1>1. PlanInv /\ TurnsAreDecoded /\ [PlanNext]_planVars => PlanInv'
  BY PlanStepKeeps
<1>2. PlanInv /\ TurnsAreDecoded /\ [PlanNext]_planVars => [HistoryKept]_planVars
  BY PlanStepKeeps
<1>3. PlanSpec /\ []TurnsAreDecoded => [][HistoryKept]_planVars
  BY <1>1, <1>2, PlanStarts, PTL DEF PlanSpec
<1> QED BY <1>3 DEF TurnsKeepHistory, HistoryKept, OrderMoves
=============================================================================
