------------------------- MODULE RunDispatch_proofs -------------------------
(***************************************************************************)
(* That a daemon process never executes a run twice at a time nor loses    *)
(* its registration, for every set of runs, every capacity and page size;  *)
(* and that the model-call lane those runs share never leaks or duplicates *)
(* a permit and never lets a call through that was cancelled while it      *)
(* waited, for every set of calls and every capacity.                      *)
(***************************************************************************)
EXTENDS RunDispatch, ModelCallScheduler, FiniteSetTheorems, TLAPS

(* What a submission and a reservation are about.                          *)
SubmissionsNameRuns ==
    server.op \in {"submit", "send", "refused"} => server.run \in Runs
ReservationsNameRuns == dispatcher \in {"reserve", "register"} => page # <<>>

(* A slot is reserved exactly between the wait for it and its use.         *)
PermitInUse == permit = (dispatcher = "register")

DispatchInv ==
    /\ TypeOK
    /\ SubmissionsNameRuns
    /\ ReservationsNameRuns
    /\ PermitInUse
    /\ ActiveMatchesWork
    /\ QueuesBounded

-----------------------------------------------------------------------------
(* The elements of a queue when a command enters it.                       *)
LEMMA ElementsOfAppend ==
    ASSUME NEW S, NEW s \in Seq(S), NEW x \in S
    PROVE  /\ Append(s, x) \in Seq(S)
           /\ Len(Append(s, x)) = Len(s) + 1
           /\ Elements(Append(s, x)) = Elements(s) \cup {x}
           /\ Distinct(s) /\ x \notin Elements(s) => Distinct(Append(s, x))
<1> DEFINE t == Append(s, x)
<1>1. /\ t \in Seq(S) /\ Len(t) = Len(s) + 1 /\ Len(s) \in Nat
      /\ DOMAIN s = 1..Len(s) /\ DOMAIN t = 1..Len(s) + 1
      /\ \A i \in 1..Len(s) : t[i] = s[i]
      /\ t[Len(s) + 1] = x
  OBVIOUS
<1> HIDE DEF t
<1>2. Elements(t) \subseteq Elements(s) \cup {x}
  BY <1>1 DEF Elements
<1>3. Elements(s) \cup {x} \subseteq Elements(t)
  BY <1>1 DEF Elements
<1>4. ASSUME Distinct(s), x \notin Elements(s) PROVE Distinct(t)
  BY <1>1, <1>4 DEF Distinct, Elements
<1> QED BY <1>1, <1>2, <1>3, <1>4 DEF t

(* When its head leaves, the rest of a queue without repetitions does not  *)
(* hold it any more.                                                       *)
LEMMA ElementsOfTail ==
    ASSUME NEW S, NEW s \in Seq(S), s # <<>>
    PROVE  /\ Head(s) \in S
           /\ Head(s) \in Elements(s)
           /\ Tail(s) \in Seq(S)
           /\ Len(Tail(s)) = Len(s) - 1
           /\ Distinct(s) => /\ Distinct(Tail(s))
                             /\ Elements(Tail(s)) = Elements(s) \ {Head(s)}
<1> DEFINE t == Tail(s)
<1>1. /\ t \in Seq(S) /\ Len(s) \in Nat \ {0} /\ Len(t) = Len(s) - 1
      /\ DOMAIN s = 1..Len(s) /\ DOMAIN t = 1..Len(s) - 1
      /\ \A i \in 1..Len(s) - 1 : t[i] = s[i + 1]
      /\ Head(s) = s[1] /\ s[1] \in S
  OBVIOUS
<1> HIDE DEF t
<1>2. Head(s) \in Elements(s)
  BY <1>1 DEF Elements
<1>3. ASSUME Distinct(s) PROVE Distinct(t)
  BY <1>1, <1>3 DEF Distinct
<1>4. ASSUME Distinct(s) PROVE Elements(t) = Elements(s) \ {Head(s)}
  <2>1. ASSUME NEW y \in Elements(t) PROVE y \in Elements(s) \ {Head(s)}
    BY <1>1, <1>4 DEF Elements, Distinct
  <2>2. ASSUME NEW y \in Elements(s) \ {Head(s)} PROVE y \in Elements(t)
    <3>1. PICK i \in 1..Len(s) : y = s[i]
      BY <1>1 DEF Elements
    <3>2. i - 1 \in 1..Len(s) - 1 /\ t[i - 1] = s[i]
      BY <1>1, <3>1
    <3> QED BY <1>1, <3>1, <3>2 DEF Elements
  <2> QED BY <2>1, <2>2
<1> QED BY <1>1, <1>2, <1>3, <1>4 DEF t

-----------------------------------------------------------------------------
(* Steps that leave the queues, the tasks and the submission alone.        *)
LEMMA WorkFrame ==
    ASSUME ActiveMatchesWork, UNCHANGED <<active, channel, pending, tasks>>,
           Submitting' = Submitting
    PROVE  ActiveMatchesWork'
BY DEF ActiveMatchesWork, Elements, Distinct

(* The same for the bounds of the queues.                                  *)
LEMMA QueueFrame ==
    ASSUME QueuesBounded, UNCHANGED <<channel, pending, tasks, permit>>
    PROVE  QueuesBounded'
BY DEF QueuesBounded, Slots

(* Tasks are finitely many, so one more or one less counts as one.         *)
LEMMA TaskCount ==
    ASSUME NEW T \in SUBSET Runs, NEW r \in Runs
    PROVE  /\ Cardinality(T) \in Nat
           /\ Cardinality(T \cup {r}) <= Cardinality(T) + 1
           /\ Cardinality(T \cup {r}) \in Nat
           /\ Cardinality(T \ {r}) <= Cardinality(T)
           /\ Cardinality(T \ {r}) \in Nat
<1>1. IsFiniteSet(T)
  BY RunsAssumption, FS_Subset
<1>2. Cardinality(T) \in Nat
  BY <1>1, FS_CardinalityType
<1>3. /\ IsFiniteSet(T \cup {r})
      /\ Cardinality(T \cup {r}) = IF r \in T THEN Cardinality(T) ELSE Cardinality(T) + 1
  BY <1>1, FS_AddElement
<1>4. /\ IsFiniteSet(T \ {r})
      /\ Cardinality(T \ {r}) = IF r \in T THEN Cardinality(T) - 1 ELSE Cardinality(T)
  BY <1>1, FS_RemoveElement
<1>5. Cardinality(T \cup {r}) \in Nat /\ Cardinality(T \ {r}) \in Nat
  BY <1>3, <1>4, FS_CardinalityType
<1> QED BY <1>2, <1>3, <1>4, <1>5

(* A page of the scan is a sequence of runs.                               *)
LEMMA PagesAreSequences == Pages \subseteq Seq(Runs)
<1> SUFFICES ASSUME NEW p \in Pages PROVE p \in Seq(Runs)
  OBVIOUS
<1>1. PICK n \in 0..PageSize : p \in [1..n -> Runs]
  BY DEF Pages
<1>2. n \in Nat
  BY <1>1, CapacityAssumption
<1> QED BY <1>1, <1>2

-----------------------------------------------------------------------------
(* The server thread keeps the invariant.                                  *)
LEMMA ServerKeeps ==
    ASSUME DispatchInv,
           \/ ServerStep \/ discover_models \/ stop_and_join
           \/ \E r \in Runs : create_run(r)
    PROVE  DispatchInv'
<1> USE CapacityAssumption
<1>1. ASSUME NEW r \in Runs, create_run(r) PROVE DispatchInv'
  <2>1. TypeOK' /\ SubmissionsNameRuns'
    BY <1>1 DEF DispatchInv, TypeOK, SubmissionsNameRuns, create_run, Idle, ServerOps,
                ServerOnly, dispatcherVars, loopVars
  <2>2. ReservationsNameRuns' /\ PermitInUse'
    BY <1>1 DEF DispatchInv, ReservationsNameRuns, PermitInUse, create_run, ServerOnly,
                dispatcherVars
  <2>3. Submitting' = Submitting
    BY <1>1 DEF create_run, Submitting, Idle
  <2>4. UNCHANGED <<active, channel, pending, tasks, permit>>
    BY <1>1 DEF create_run, ServerOnly, dispatcherVars, loopVars
  <2> QED BY <2>1, <2>2, <2>3, <2>4, WorkFrame, QueueFrame DEF DispatchInv
<1>2. CASE submit
  <2>1. TypeOK' /\ SubmissionsNameRuns'
    BY <1>2 DEF DispatchInv, TypeOK, SubmissionsNameRuns, submit, Idle, ServerOps,
                ServerOnly, dispatcherVars, loopVars
  <2>2. ReservationsNameRuns' /\ PermitInUse'
    BY <1>2 DEF DispatchInv, ReservationsNameRuns, PermitInUse, submit, ServerOnly,
                dispatcherVars
  <2>3. UNCHANGED <<channel, pending, tasks, permit>>
    BY <1>2 DEF submit, ServerOnly, dispatcherVars, loopVars
  <2>4. ActiveMatchesWork'
    <3>1. CASE server.run \in active /\ server' = Idle /\ UNCHANGED active
      <4>1. Submitting' = Submitting
        BY <1>2, <3>1 DEF submit, Submitting, Idle
      <4> QED BY <2>3, <3>1, <4>1, WorkFrame DEF DispatchInv
    <3>2. CASE /\ server.run \notin active
               /\ active' = active \cup {server.run}
               /\ server' = [server EXCEPT !.op = "send"]
      <4>1. Submitting = {} /\ Submitting' = {server.run}
        BY <1>2, <3>2 DEF submit, Submitting, DispatchInv, TypeOK
      <4> QED BY <2>3, <3>2, <4>1 DEF DispatchInv, ActiveMatchesWork
    <3> QED BY <1>2, <3>1, <3>2 DEF submit
  <2> QED BY <2>1, <2>2, <2>3, <2>4, QueueFrame DEF DispatchInv
<1>3. CASE try_send
  <2>1. CASE /\ ~closed /\ Slots < CommandCapacity
             /\ channel' = Append(channel, server.run)
             /\ server' = Idle
    <3>1. /\ server.run \in Runs /\ channel \in Seq(Runs)
          /\ UNCHANGED <<active, pending, tasks, permit>>
      BY <1>3 DEF try_send, ServerOnly, dispatcherVars, loopVars, DispatchInv,
                  SubmissionsNameRuns, TypeOK
    <3>2. /\ channel' \in Seq(Runs)
          /\ Len(channel') = Len(channel) + 1
          /\ Elements(channel') = Elements(channel) \cup {server.run}
          /\ Distinct(channel) /\ server.run \notin Elements(channel) => Distinct(channel')
      BY <2>1, <3>1, ElementsOfAppend
    <3>3. TypeOK' /\ SubmissionsNameRuns'
      BY <1>3, <2>1, <3>2 DEF DispatchInv, TypeOK, SubmissionsNameRuns, try_send, Idle,
                  ServerOps, ServerOnly, dispatcherVars, loopVars
    <3>4. ReservationsNameRuns' /\ PermitInUse'
      BY <1>3 DEF DispatchInv, ReservationsNameRuns, PermitInUse, try_send, ServerOnly,
                  dispatcherVars
    <3>5. Submitting = {server.run} /\ Submitting' = {}
      BY <1>3, <2>1 DEF try_send, Submitting, Idle
    <3>6. ActiveMatchesWork'
      BY <3>1, <3>2, <3>5 DEF DispatchInv, ActiveMatchesWork
    <3>7. QueuesBounded'
      BY <2>1, <3>1, <3>2 DEF DispatchInv, QueuesBounded, Slots, TypeOK
    <3> QED BY <3>3, <3>4, <3>6, <3>7 DEF DispatchInv
  <2>2. CASE /\ server' = [server EXCEPT !.op = "refused"]
             /\ UNCHANGED channel
    <3>1. TypeOK' /\ SubmissionsNameRuns'
      BY <1>3, <2>2 DEF DispatchInv, TypeOK, SubmissionsNameRuns, try_send, ServerOps,
                  ServerOnly, dispatcherVars, loopVars
    <3>2. ReservationsNameRuns' /\ PermitInUse'
      BY <1>3 DEF DispatchInv, ReservationsNameRuns, PermitInUse, try_send, ServerOnly,
                  dispatcherVars
    <3>3. UNCHANGED <<active, channel, pending, tasks, permit>>
      BY <1>3, <2>2 DEF try_send, ServerOnly, dispatcherVars, loopVars
    <3>4. Submitting' = Submitting
      BY <1>3, <2>2 DEF try_send, Submitting, DispatchInv, TypeOK
    <3> QED BY <3>1, <3>2, <3>3, <3>4, WorkFrame, QueueFrame DEF DispatchInv
  <2> QED BY <1>3, <2>1, <2>2 DEF try_send
<1>4. CASE rollback
  <2>1. TypeOK' /\ SubmissionsNameRuns'
    BY <1>4 DEF DispatchInv, TypeOK, SubmissionsNameRuns, rollback, Idle, ServerOps,
                ServerOnly, dispatcherVars, loopVars
  <2>2. ReservationsNameRuns' /\ PermitInUse'
    BY <1>4 DEF DispatchInv, ReservationsNameRuns, PermitInUse, rollback, ServerOnly,
                dispatcherVars
  <2>3. /\ UNCHANGED <<channel, pending, tasks, permit>>
        /\ active' = active \ {server.run}
    BY <1>4 DEF rollback, ServerOnly, dispatcherVars, loopVars
  <2>4. Submitting = {server.run} /\ Submitting' = {}
    BY <1>4 DEF rollback, Submitting, Idle
  <2>5. ActiveMatchesWork'
    BY <2>3, <2>4 DEF DispatchInv, ActiveMatchesWork
  <2> QED BY <2>1, <2>2, <2>3, <2>5, QueueFrame DEF DispatchInv
<1>5. CASE discovery_returns \/ discover_models \/ stop_and_join
  <2>1. TypeOK' /\ SubmissionsNameRuns'
    <3>1. CASE discovery_returns
      BY <3>1 DEF DispatchInv, TypeOK, SubmissionsNameRuns, discovery_returns, Idle,
                  ServerOps, ServerOnly, dispatcherVars, loopVars
    <3>2. CASE discover_models
      <4>1. discoveries' \in 0..CommandCapacity
        BY <3>2 DEF DispatchInv, TypeOK, discover_models
      <4> QED BY <3>2, <4>1 DEF DispatchInv, TypeOK, SubmissionsNameRuns, discover_models,
                  Idle, ServerOps, ServerOnly, dispatcherVars, loopVars
    <3>3. CASE stop_and_join
      BY <3>3 DEF DispatchInv, TypeOK, SubmissionsNameRuns, stop_and_join, Idle,
                  ServerOps, dispatcherVars, loopVars
    <3> QED BY <1>5, <3>1, <3>2, <3>3
  <2>2. ReservationsNameRuns' /\ PermitInUse'
    BY <1>5 DEF DispatchInv, ReservationsNameRuns, PermitInUse, discovery_returns,
                discover_models, stop_and_join, ServerOnly, dispatcherVars
  <2>3. UNCHANGED <<active, channel, pending, tasks, permit>>
    BY <1>5 DEF discovery_returns, discover_models, stop_and_join, ServerOnly,
                dispatcherVars, loopVars
  <2>4. Submitting' = Submitting
    BY <1>5 DEF discovery_returns, discover_models, stop_and_join, Submitting, Idle
  <2> QED BY <2>1, <2>2, <2>3, <2>4, WorkFrame, QueueFrame DEF DispatchInv
<1> QED BY <1>1, <1>2, <1>3, <1>4, <1>5 DEF ServerStep

(* The dispatcher keeps it: only register touches the queue, and it looks  *)
(* the run up again after the wait for the slot.                           *)
LEMMA DispatcherKeeps ==
    ASSUME DispatchInv, DispatcherStep \/ DispatcherFails
    PROVE  DispatchInv'
<1>1. SubmissionsNameRuns' /\ Submitting' = Submitting /\ UNCHANGED <<pending, tasks>>
  BY DEF DispatchInv, SubmissionsNameRuns, Submitting, DispatcherStep, DispatcherFails,
         load_nonterminal_page, load_fails, visit_run, reserve, register,
         wait_for_durable_dispatch, DispatcherOnly, serverVars, loopVars
<1>2. CASE load_nonterminal_page
  <2>1. page' \in Seq(Runs) /\ cursor' \in Runs \cup {0} /\ hasMore' \in BOOLEAN
    <3>1. CASE UNCHANGED <<page, hasMore, cursor>>
      BY <3>1 DEF DispatchInv, TypeOK
    <3>2. CASE /\ page' \in {p \in Pages : IsPage(p, cursor)}
               /\ hasMore' = (Cardinality(NonTerminal(cursor)) > PageSize)
               /\ cursor' = IF page' = <<>> THEN 0 ELSE cursor
      <4>1. page' \in Seq(Runs)
        BY <3>2, PagesAreSequences
      <4>2. cursor' \in Runs \cup {0}
        BY <3>2 DEF DispatchInv, TypeOK
      <4>3. hasMore' \in BOOLEAN
        BY <3>2
      <4> QED BY <4>1, <4>2, <4>3
    <3> QED BY <1>2, <3>1, <3>2 DEF load_nonterminal_page
  <2>2. TypeOK' /\ ReservationsNameRuns' /\ PermitInUse'
    BY <1>2, <2>1 DEF DispatchInv, TypeOK, ReservationsNameRuns, PermitInUse,
       load_nonterminal_page, Stops, DispatcherOnly, serverVars, loopVars
  <2>3. UNCHANGED <<active, channel, permit>>
    BY <1>2 DEF load_nonterminal_page, Stops, DispatchInv, PermitInUse, TypeOK
  <2> QED BY <1>1, <2>2, <2>3, WorkFrame, QueueFrame DEF DispatchInv
<1>3. CASE load_fails \/ wait_for_durable_dispatch
  <2>1. TypeOK' /\ ReservationsNameRuns' /\ PermitInUse'
    BY <1>3 DEF DispatchInv, TypeOK, ReservationsNameRuns, PermitInUse, load_fails,
       wait_for_durable_dispatch, Stops, DispatcherOnly, serverVars, loopVars
  <2>2. UNCHANGED <<active, channel, permit>>
    BY <1>3 DEF load_fails, wait_for_durable_dispatch, Stops, DispatchInv, PermitInUse,
       TypeOK
  <2> QED BY <1>1, <2>1, <2>2, WorkFrame, QueueFrame DEF DispatchInv
<1>4. CASE visit_run
  <2>1. page' \in Seq(Runs) /\ cursor' \in Runs \cup {0}
    <3>1. page \in Seq(Runs)
      BY DEF DispatchInv, TypeOK
    <3>2. page # <<>> => Tail(page) \in Seq(Runs) /\ Head(page) \in Runs
      BY <3>1, ElementsOfTail
    <3>3. cursor \in Runs \cup {0}
      BY DEF DispatchInv, TypeOK
    <3>4. \/ UNCHANGED <<page, cursor>>
          \/ cursor' = 0 /\ UNCHANGED page
          \/ page # <<>> /\ page' = Tail(page) /\ cursor' = Head(page)
      BY <1>4 DEF visit_run, Visited
    <3> QED BY <3>1, <3>2, <3>3, <3>4
  <2>2. TypeOK' /\ ReservationsNameRuns' /\ PermitInUse'
    BY <1>4, <2>1 DEF DispatchInv, TypeOK, ReservationsNameRuns, PermitInUse, visit_run,
       Visited, DispatcherOnly, serverVars, loopVars
  <2>3. UNCHANGED <<active, channel, permit>>
    BY <1>4 DEF visit_run
  <2> QED BY <1>1, <2>2, <2>3, WorkFrame, QueueFrame DEF DispatchInv
<1>5. CASE reserve
  <2>1. TypeOK' /\ ReservationsNameRuns' /\ PermitInUse'
    BY <1>5 DEF DispatchInv, TypeOK, ReservationsNameRuns, PermitInUse, reserve, Stops,
       DispatcherOnly, serverVars, loopVars
  <2>2. UNCHANGED <<active, channel>>
    BY <1>5 DEF reserve
  <2>3. QueuesBounded'
    <3>1. permit = FALSE
      <4>1. dispatcher # "register"
        BY <1>5 DEF reserve
      <4> QED BY <4>1, Zenon DEF DispatchInv, PermitInUse, TypeOK
    <3>2. Len(channel) \in Nat
      BY DEF DispatchInv, TypeOK
    <3>3. Slots' <= CommandCapacity
      BY <1>5, <2>2, <3>1, <3>2, CapacityAssumption DEF reserve, Stops, Slots, DispatchInv,
         QueuesBounded
    <3> QED BY <1>1, <3>3 DEF DispatchInv, QueuesBounded
  <2> QED BY <1>1, <2>1, <2>2, <2>3, WorkFrame DEF DispatchInv
<1>6. CASE register
  <2>1. /\ page \in Seq(Runs) /\ page # <<>> /\ channel \in Seq(Runs)
        /\ permit = TRUE /\ permit' = FALSE
    BY <1>6 DEF register, Stops, DispatchInv, TypeOK, ReservationsNameRuns, PermitInUse
  <2>2. Head(page) \in Runs /\ Tail(page) \in Seq(Runs)
    BY <2>1, ElementsOfTail
  <2>3. /\ Append(channel, Head(page)) \in Seq(Runs)
        /\ Len(Append(channel, Head(page))) = Len(channel) + 1
        /\ Elements(Append(channel, Head(page))) = Elements(channel) \cup {Head(page)}
        /\ Distinct(channel) /\ Head(page) \notin Elements(channel)
           => Distinct(Append(channel, Head(page)))
    BY <2>1, <2>2, ElementsOfAppend
  <2>4. PermitInUse' /\ ReservationsNameRuns'
    BY <1>6, <2>1 DEF register, Stops, Visited, PermitInUse, ReservationsNameRuns
  <2>5. CASE UNCHANGED <<active, channel>>
    <3>1. TypeOK'
      BY <1>6, <2>1, <2>2, <2>5 DEF DispatchInv, TypeOK, register, Stops, Visited,
         DispatcherOnly, serverVars, loopVars
    <3>2. QueuesBounded'
      BY <1>1, <2>1, <2>5, CapacityAssumption DEF DispatchInv, TypeOK, QueuesBounded, Slots
    <3> QED BY <1>1, <2>4, <2>5, <3>1, <3>2, WorkFrame DEF DispatchInv
  <2>6. CASE /\ Head(page) \notin active
             /\ active' = active \cup {Head(page)}
             /\ channel' = Append(channel, Head(page))
             /\ Visited
    <3>1. TypeOK'
      BY <1>6, <2>1, <2>2, <2>3, <2>6 DEF DispatchInv, TypeOK, register, Visited,
         DispatcherOnly, serverVars, loopVars
    <3>2. QueuesBounded'
      BY <1>1, <2>1, <2>3, <2>6, CapacityAssumption DEF DispatchInv, TypeOK, QueuesBounded,
         Slots
    <3>3. ActiveMatchesWork'
      BY <1>1, <2>3, <2>6 DEF DispatchInv, ActiveMatchesWork
    <3> QED BY <1>1, <2>4, <3>1, <3>2, <3>3 DEF DispatchInv
  <2> QED BY <1>6, <2>5, <2>6 DEF register
<1>7. CASE DispatcherFails
  <2>1. TypeOK' /\ ReservationsNameRuns' /\ PermitInUse'
    BY <1>7 DEF DispatchInv, TypeOK, ReservationsNameRuns, PermitInUse, DispatcherFails,
       DispatcherOnly, serverVars, loopVars
  <2>2. UNCHANGED <<active, channel>> /\ permit' = FALSE
    BY <1>7 DEF DispatcherFails
  <2>3. QueuesBounded'
    BY <1>1, <2>2, CapacityAssumption DEF DispatchInv, TypeOK, QueuesBounded, Slots
  <2> QED BY <1>1, <2>1, <2>2, <2>3, WorkFrame DEF DispatchInv
<1> QED BY <1>2, <1>3, <1>4, <1>5, <1>6, <1>7 DEF DispatcherStep

(* The end of a task takes its run out of the tasks and the registry.      *)
LEMMA ReleaseKeeps ==
    ASSUME DispatchInv, NEW r \in ended, Release(r), Submitting' = Submitting,
           UNCHANGED <<channel, pending, permit>>
    PROVE  /\ active' \subseteq Runs /\ tasks' \subseteq Runs /\ ended' \subseteq tasks'
           /\ ActiveMatchesWork' /\ QueuesBounded'
<1>1. r \in tasks /\ r \in Runs /\ tasks \in SUBSET Runs
  BY DEF DispatchInv, TypeOK
<1>2. active' \subseteq Runs /\ tasks' \subseteq Runs /\ ended' \subseteq tasks'
  BY DEF Release, DispatchInv, TypeOK
<1>3. ActiveMatchesWork'
  BY <1>1 DEF Release, DispatchInv, ActiveMatchesWork
<1>4. Cardinality(tasks') <= MaxConcurrent
  <2>1. /\ Cardinality(tasks) \in Nat
        /\ Cardinality(tasks \ {r}) \in Nat
        /\ Cardinality(tasks \ {r}) <= Cardinality(tasks)
    BY <1>1, TaskCount
  <2> QED BY <2>1, CapacityAssumption DEF Release, DispatchInv, QueuesBounded
<1> QED BY <1>2, <1>3, <1>4 DEF DispatchInv, QueuesBounded, Slots

(* The supervisor's loop keeps it: a command moves from the channel to the *)
(* pending queue to a task, and leaves the registry only when it ends or   *)
(* is drained.                                                             *)
LEMMA LoopKeeps ==
    ASSUME DispatchInv, LoopStep
    PROVE  DispatchInv'
<1>1. /\ SubmissionsNameRuns' /\ Submitting' = Submitting
      /\ UNCHANGED <<durable, server, dispatcher, permit, page, hasMore, cursor>>
  BY DEF DispatchInv, SubmissionsNameRuns, Submitting, LoopStep, spawn_run_task, leave_loop,
         receive_command, discover_for_protocol, discovery_done, close_channel,
         drain_commands, join_remaining, join_task, LoopOnly, serverVars, dispatcherVars
<1>2. ReservationsNameRuns' /\ PermitInUse'
  BY <1>1 DEF DispatchInv, ReservationsNameRuns, PermitInUse
<1>3. pending \in Seq(Runs) /\ channel \in Seq(Runs)
  BY DEF DispatchInv, TypeOK
<1>4. CASE spawn_run_task
  <2>1. /\ Head(pending) \in Runs /\ Head(pending) \in Elements(pending)
        /\ Tail(pending) \in Seq(Runs) /\ Len(Tail(pending)) = Len(pending) - 1
        /\ Distinct(Tail(pending))
        /\ Elements(Tail(pending)) = Elements(pending) \ {Head(pending)}
    BY <1>3, <1>4, ElementsOfTail DEF spawn_run_task, CanSpawn, DispatchInv, ActiveMatchesWork
  <2>2. TypeOK'
    BY <1>1, <1>4, <2>1 DEF DispatchInv, TypeOK, spawn_run_task
  <2>3. ActiveMatchesWork'
    BY <1>1, <1>4, <2>1 DEF DispatchInv, ActiveMatchesWork, spawn_run_task
  <2>4. QueuesBounded'
    <3>1. /\ Cardinality(tasks) \in Nat /\ Cardinality(tasks') \in Nat
          /\ Cardinality(tasks') <= Cardinality(tasks) + 1
      <4>1. tasks \in SUBSET Runs /\ tasks' = tasks \cup {Head(pending)}
        BY <1>4 DEF DispatchInv, TypeOK, spawn_run_task
      <4> QED BY <2>1, <4>1, TaskCount
    <3>2. Cardinality(tasks') <= MaxConcurrent
      BY <1>4, <3>1, CapacityAssumption DEF spawn_run_task, CanSpawn
    <3>3. Len(pending') <= CommandCapacity
      BY <1>3, <1>4, <2>1, CapacityAssumption DEF spawn_run_task, DispatchInv, QueuesBounded
    <3> QED BY <1>1, <1>4, <3>2, <3>3 DEF DispatchInv, QueuesBounded, Slots, spawn_run_task
  <2> QED BY <1>1, <1>2, <2>2, <2>3, <2>4 DEF DispatchInv
<1>5. ASSUME NEW r \in Runs, join_task(r) PROVE DispatchInv'
  <2>1. r \in ended /\ Release(r) /\ UNCHANGED <<channel, discoveries, pending, closed, loop, shutdown>>
    BY <1>5 DEF join_task
  <2>2. /\ active' \subseteq Runs /\ tasks' \subseteq Runs /\ ended' \subseteq tasks'
        /\ ActiveMatchesWork' /\ QueuesBounded'
    BY <1>1, <2>1, ReleaseKeeps
  <2>3. TypeOK'
    BY <1>1, <2>1, <2>2 DEF DispatchInv, TypeOK
  <2> QED BY <1>1, <1>2, <2>2, <2>3 DEF DispatchInv
<1>6. CASE receive_command
  <2>1. /\ Head(channel) \in Runs /\ Head(channel) \in Elements(channel)
        /\ Tail(channel) \in Seq(Runs) /\ Len(Tail(channel)) = Len(channel) - 1
        /\ Distinct(Tail(channel))
        /\ Elements(Tail(channel)) = Elements(channel) \ {Head(channel)}
    BY <1>3, <1>6, ElementsOfTail DEF receive_command, CanReceive, DispatchInv,
       ActiveMatchesWork
  <2>2. /\ Append(pending, Head(channel)) \in Seq(Runs)
        /\ Len(Append(pending, Head(channel))) = Len(pending) + 1
        /\ Elements(Append(pending, Head(channel))) = Elements(pending) \cup {Head(channel)}
        /\ Distinct(pending) /\ Head(channel) \notin Elements(pending)
           => Distinct(Append(pending, Head(channel)))
    BY <1>3, <2>1, ElementsOfAppend
  <2>3. TypeOK'
    BY <1>1, <1>6, <2>1, <2>2 DEF DispatchInv, TypeOK, receive_command
  <2>4. ActiveMatchesWork'
    BY <1>1, <1>6, <2>1, <2>2 DEF DispatchInv, ActiveMatchesWork, receive_command
  <2>5. QueuesBounded'
    BY <1>1, <1>3, <1>6, <2>1, <2>2, CapacityAssumption DEF DispatchInv, QueuesBounded,
       Slots, receive_command, CanReceive
  <2> QED BY <1>1, <1>2, <2>3, <2>4, <2>5 DEF DispatchInv
<1>7. CASE leave_loop \/ discovery_done \/ close_channel
  <2>1. TypeOK'
    BY <1>1, <1>7 DEF DispatchInv, TypeOK, leave_loop, discovery_done, close_channel
  <2>2. UNCHANGED <<active, channel, pending, tasks>>
    BY <1>7 DEF leave_loop, discovery_done, close_channel
  <2> QED BY <1>1, <1>2, <2>1, <2>2, WorkFrame, QueueFrame DEF DispatchInv
<1>8. CASE discover_for_protocol
  <2>1. discoveries' \in 0..CommandCapacity
    BY <1>8, CapacityAssumption DEF DispatchInv, TypeOK, discover_for_protocol
  <2>2. TypeOK'
    BY <1>1, <1>8, <2>1 DEF DispatchInv, TypeOK, discover_for_protocol
  <2>3. UNCHANGED <<active, channel, pending, tasks>>
    BY <1>8 DEF discover_for_protocol
  <2> QED BY <1>1, <1>2, <2>2, <2>3, WorkFrame, QueueFrame DEF DispatchInv
<1>9. CASE drain_commands
  <2>1. UNCHANGED <<discoveries, closed, tasks, ended, shutdown>> /\ loop' \in {loop, "joining"}
    BY <1>9 DEF drain_commands
  <2>2. CASE /\ pending # <<>> /\ active' = active \ {Head(pending)}
             /\ pending' = Tail(pending) /\ UNCHANGED channel
    <3>1. /\ Head(pending) \in Elements(pending)
          /\ Tail(pending) \in Seq(Runs) /\ Len(Tail(pending)) = Len(pending) - 1
          /\ Distinct(Tail(pending))
          /\ Elements(Tail(pending)) = Elements(pending) \ {Head(pending)}
      BY <1>3, <2>2, ElementsOfTail DEF DispatchInv, ActiveMatchesWork
    <3>2. TypeOK'
      BY <1>1, <2>1, <2>2, <3>1 DEF DispatchInv, TypeOK
    <3>3. ActiveMatchesWork'
      BY <1>1, <2>1, <2>2, <3>1 DEF DispatchInv, ActiveMatchesWork
    <3>4. QueuesBounded'
      BY <1>1, <1>3, <2>1, <2>2, <3>1, CapacityAssumption DEF DispatchInv, QueuesBounded,
         Slots
    <3> QED BY <1>1, <1>2, <3>2, <3>3, <3>4 DEF DispatchInv
  <2>3. CASE /\ channel # <<>> /\ active' = active \ {Head(channel)}
             /\ channel' = Tail(channel) /\ UNCHANGED pending
    <3>1. /\ Head(channel) \in Elements(channel)
          /\ Tail(channel) \in Seq(Runs) /\ Len(Tail(channel)) = Len(channel) - 1
          /\ Distinct(Tail(channel))
          /\ Elements(Tail(channel)) = Elements(channel) \ {Head(channel)}
      BY <1>3, <2>3, ElementsOfTail DEF DispatchInv, ActiveMatchesWork
    <3>2. TypeOK'
      BY <1>1, <2>1, <2>3, <3>1 DEF DispatchInv, TypeOK
    <3>3. ActiveMatchesWork'
      BY <1>1, <2>1, <2>3, <3>1 DEF DispatchInv, ActiveMatchesWork
    <3>4. QueuesBounded'
      BY <1>1, <1>3, <2>1, <2>3, <3>1, CapacityAssumption DEF DispatchInv, QueuesBounded,
         Slots
    <3> QED BY <1>1, <1>2, <3>2, <3>3, <3>4 DEF DispatchInv
  <2>4. CASE UNCHANGED <<active, pending, channel>>
    <3>1. TypeOK'
      BY <1>1, <2>1, <2>4 DEF DispatchInv, TypeOK
    <3> QED BY <1>1, <1>2, <2>1, <2>4, <3>1, WorkFrame, QueueFrame DEF DispatchInv
  <2> QED BY <1>9, <2>2, <2>3, <2>4 DEF drain_commands
<1>10. CASE join_remaining
  <2>1. UNCHANGED <<channel, discoveries, pending, closed, shutdown>>
    BY <1>10 DEF join_remaining
  <2>2. ASSUME NEW r \in ended, Release(r), UNCHANGED loop PROVE DispatchInv'
    <3>1. /\ active' \subseteq Runs /\ tasks' \subseteq Runs /\ ended' \subseteq tasks'
          /\ ActiveMatchesWork' /\ QueuesBounded'
      BY <1>1, <2>1, <2>2, ReleaseKeeps
    <3>2. TypeOK'
      BY <1>1, <2>1, <2>2, <3>1 DEF DispatchInv, TypeOK
    <3> QED BY <1>1, <1>2, <3>1, <3>2 DEF DispatchInv
  <2>3. CASE loop' = "done" /\ UNCHANGED <<tasks, ended, active>>
    <3>1. TypeOK'
      BY <1>1, <2>1, <2>3 DEF DispatchInv, TypeOK
    <3> QED BY <1>1, <1>2, <2>1, <2>3, <3>1, WorkFrame, QueueFrame DEF DispatchInv
  <2> QED BY <1>10, <2>2, <2>3 DEF join_remaining
<1> QED BY <1>4, <1>5, <1>6, <1>7, <1>8, <1>9, <1>10 DEF LoopStep

-----------------------------------------------------------------------------
(* The process starts with nothing registered, queued or running.          *)
LEMMA DispatchInit == Init => DispatchInv
<1> SUFFICES ASSUME Init PROVE DispatchInv
  OBVIOUS
<1>1. TypeOK
  <2>1. durable \in [Runs -> {"absent", "live", "terminal"}]
    BY DEF Init
  <2>2. channel \in Seq(Runs) /\ pending \in Seq(Runs) /\ page \in Seq(Runs)
    BY DEF Init
  <2>3. discoveries \in 0..CommandCapacity
    BY CapacityAssumption DEF Init
  <2>4. server \in [op : ServerOps, run : Runs \cup {0}]
    BY DEF Init, Idle, ServerOps
  <2> QED BY <2>1, <2>2, <2>3, <2>4 DEF Init, TypeOK
<1>2. SubmissionsNameRuns /\ ReservationsNameRuns
  BY DEF Init, Idle, SubmissionsNameRuns, ReservationsNameRuns
<1>5. PermitInUse
  <2>1. permit = FALSE /\ dispatcher # "register"
    BY DEF Init
  <2> QED BY <2>1, Zenon DEF PermitInUse
<1>3. ActiveMatchesWork
  BY DEF Init, Idle, ActiveMatchesWork, Elements, Distinct, Submitting
<1>4. QueuesBounded
  <2>1. Cardinality(tasks) = 0
    BY FS_EmptySet DEF Init
  <2> QED BY <2>1, CapacityAssumption DEF Init, QueuesBounded, Slots
<1> QED BY <1>1, <1>2, <1>3, <1>4, <1>5 DEF DispatchInv

(* What happens to a run in the store moves nothing in the process.        *)
LEMMA RunsKeep ==
    ASSUME DispatchInv, NEW r \in Runs, TaskEnds(r) \/ RunEndsElsewhere(r)
    PROVE  DispatchInv'
<1>1. /\ UNCHANGED <<active, channel, discoveries, server, dispatcher, permit, page>>
      /\ UNCHANGED <<hasMore, cursor, closed, pending, tasks, loop, shutdown>>
  BY DEF TaskEnds, RunEndsElsewhere, serverVars, dispatcherVars, loopVars
<1>2. /\ durable' \in [Runs -> {"absent", "live", "terminal"}]
      /\ ended' \subseteq tasks'
  BY DEF DispatchInv, TypeOK, TaskEnds, RunEndsElsewhere, loopVars
<1>3. TypeOK'
  BY <1>1, <1>2 DEF DispatchInv, TypeOK
<1>4. /\ SubmissionsNameRuns' /\ ReservationsNameRuns' /\ PermitInUse'
      /\ Submitting' = Submitting
  BY <1>1 DEF DispatchInv, SubmissionsNameRuns, ReservationsNameRuns, PermitInUse, Submitting
<1> QED BY <1>1, <1>3, <1>4, WorkFrame, QueueFrame DEF DispatchInv

(* Every step of every thread keeps the invariant.                         *)
LEMMA DispatchStep == DispatchInv /\ [Next]_vars => DispatchInv'
<1> SUFFICES ASSUME DispatchInv, [Next]_vars PROVE DispatchInv'
  OBVIOUS
<1>1. CASE UNCHANGED vars
  BY <1>1 DEF vars, serverVars, dispatcherVars, loopVars, DispatchInv, TypeOK,
     SubmissionsNameRuns, ReservationsNameRuns, PermitInUse, ActiveMatchesWork,
     QueuesBounded, Slots, Submitting
<1>2. CASE Next
  BY <1>2, ServerKeeps, DispatcherKeeps, LoopKeeps, RunsKeep DEF Next
<1> QED BY <1>1, <1>2

(* The process keeps one inductive invariant.                              *)
THEOREM DispatchInvariant == Spec => []DispatchInv
<1> QED BY DispatchInit, DispatchStep, PTL DEF Spec

(* Every variable keeps its type, in every interleaving of the server, the *)
(* dispatcher and the loop.                                                *)
THEOREM DispatchTypeCorrect == Spec => []TypeOK
<1>1. DispatchInv => TypeOK
  BY DEF DispatchInv
<1> QED BY <1>1, DispatchInvariant, PTL

(* active_cancellations holds exactly the runs with a submission, a        *)
(* command or a task, and no run has two of these.                         *)
THEOREM OneWorkerPerRun == Spec => []ActiveMatchesWork
<1>1. DispatchInv => ActiveMatchesWork
  BY DEF DispatchInv
<1> QED BY <1>1, DispatchInvariant, PTL

(* The channel with its reserved slot, the pending queue and the set of    *)
(* tasks never exceed the configured bounds.                               *)
THEOREM DispatchBounded == Spec => []QueuesBounded
<1>1. DispatchInv => QueuesBounded
  BY DEF DispatchInv
<1> QED BY <1>1, DispatchInvariant, PTL

-----------------------------------------------------------------------------
(* The model-call lane.                                                    *)

(* A call that was cancelled in the store stays cancelled there.           *)
DoomedStayRevoked == doomed \subseteq revoked

(* The claim is renewed only for a call that waits.                        *)
RenewingWait == \A c \in renewing : pc[c] \in Waiting

LaneInv == LaneIsSound /\ DoomedStayRevoked /\ RenewingWait

Members(q) == {q[i] : i \in DOMAIN q}
Once(q)    == \A i, j \in DOMAIN q : q[i] = q[j] => i = j

-----------------------------------------------------------------------------
(* A queue of distinct calls when a call joins it.                         *)
LEMMA JoinQueue ==
    ASSUME NEW S, NEW q \in Seq(S), NEW c \in S, Once(q), c \notin Members(q)
    PROVE  /\ Append(q, c) \in Seq(S)
           /\ Members(Append(q, c)) = Members(q) \cup {c}
           /\ Once(Append(q, c))
<1> DEFINE t == Append(q, c)
<1>1. /\ t \in Seq(S) /\ Len(t) = Len(q) + 1 /\ Len(q) \in Nat
      /\ DOMAIN q = 1..Len(q) /\ DOMAIN t = 1..Len(q) + 1
      /\ \A i \in 1..Len(q) : t[i] = q[i]
      /\ t[Len(q) + 1] = c
  OBVIOUS
<1> HIDE DEF t
<1>2. Members(t) = Members(q) \cup {c}
  BY <1>1 DEF Members
<1>3. Once(t)
  BY <1>1 DEF Once, Members
<1> QED BY <1>1, <1>2, <1>3 DEF t

(* The same queue when its oldest waiter is given a permit.                *)
LEMMA ServeQueue ==
    ASSUME NEW S, NEW q \in Seq(S), Once(q), q # <<>>
    PROVE  /\ Head(q) \in Members(q) /\ Head(q) \in S
           /\ Tail(q) \in Seq(S)
           /\ Members(Tail(q)) = Members(q) \ {Head(q)}
           /\ Once(Tail(q))
<1> DEFINE t == Tail(q)
<1>1. /\ t \in Seq(S) /\ Len(q) \in Nat \ {0} /\ Len(t) = Len(q) - 1
      /\ DOMAIN q = 1..Len(q) /\ DOMAIN t = 1..Len(q) - 1
      /\ \A i \in 1..Len(q) - 1 : t[i] = q[i + 1]
      /\ Head(q) = q[1] /\ q[1] \in S
  OBVIOUS
<1> HIDE DEF t
<1>2. Once(t)
  BY <1>1 DEF Once
<1>3. ASSUME NEW x \in Members(t) PROVE x \in Members(q) \ {Head(q)}
  BY <1>1, <1>3 DEF Members, Once
<1>4. ASSUME NEW x \in Members(q) \ {Head(q)} PROVE x \in Members(t)
  <2>1. PICK i \in 1..Len(q) : x = q[i]
    BY <1>1 DEF Members
  <2>2. i - 1 \in 1..Len(q) - 1 /\ t[i - 1] = q[i]
    BY <1>1, <2>1
  <2> QED BY <1>1, <2>1, <2>2 DEF Members
<1>5. Head(q) \in Members(q)
  BY <1>1 DEF Members
<1> QED BY <1>1, <1>2, <1>3, <1>4, <1>5 DEF t

(* The same queue when a waiting future is dropped.                        *)
LEMMA LeaveQueue ==
    ASSUME NEW S, NEW q \in Seq(S), NEW c \in S, Once(q)
    PROVE  /\ Without(q, c) \in Seq(S)
           /\ Members(Without(q, c)) = Members(q) \ {c}
           /\ Once(Without(q, c))
<1> DEFINE t == Without(q, c)
<1>0. Len(q) \in Nat /\ DOMAIN q = 1..Len(q) /\ \A i \in 1..Len(q) : q[i] \in S
  OBVIOUS
<1>1. CASE \A i \in DOMAIN q : q[i] # c
  BY <1>1 DEF Without, Members
<1>2. CASE ~ \A i \in DOMAIN q : q[i] # c
  <2>1. PICK k \in 1..Len(q) : 
           /\ q[k] = c
           /\ t = [i \in 1..Len(q) - 1 |-> IF i < k THEN q[i] ELSE q[i + 1]]
    BY <1>0, <1>2 DEF Without
  <2> HIDE DEF t
  <2>2. Len(q) - 1 \in Nat
    BY <1>0, <2>1
  <2>3. DOMAIN t = 1..Len(q) - 1
    BY <2>1
  <2>4. \A i \in 1..Len(q) - 1 : t[i] = (IF i < k THEN q[i] ELSE q[i + 1]) /\ t[i] \in S
    BY <1>0, <2>1, <2>2
  <2>5. t \in Seq(S)
    BY <2>1, <2>2, <2>3, <2>4
  <2>6. Once(t)
    <3> SUFFICES ASSUME NEW i \in 1..Len(q) - 1, NEW j \in 1..Len(q) - 1, t[i] = t[j]
                 PROVE  i = j
      BY <2>3 DEF Once
    <3> DEFINE at(n) == IF n < k THEN n ELSE n + 1
    <3>1. at(i) \in DOMAIN q /\ at(j) \in DOMAIN q /\ q[at(i)] = q[at(j)]
      BY <1>0, <2>1, <2>2, <2>4
    <3>2. at(i) = at(j)
      BY <3>1 DEF Once
    <3> QED BY <1>0, <3>2
  <2>7. ASSUME NEW x \in Members(t) PROVE x \in Members(q) \ {c}
    <3>1. PICK i \in 1..Len(q) - 1 : x = t[i]
      BY <2>3 DEF Members
    <3>2. PICK j \in 1..Len(q) : x = q[j] /\ j # k
      BY <1>0, <2>1, <2>2, <2>4, <3>1
    <3> QED BY <1>0, <2>1, <3>2 DEF Members, Once
  <2>8. ASSUME NEW x \in Members(q) \ {c} PROVE x \in Members(t)
    <3>1. PICK j \in 1..Len(q) : x = q[j] /\ j # k
      BY <1>0, <2>1 DEF Members
    <3>2. CASE j < k
      <4>1. j \in 1..Len(q) - 1 /\ t[j] = x
        BY <1>0, <2>1, <2>4, <3>1, <3>2
      <4> QED BY <2>3, <4>1 DEF Members
    <3>3. CASE j > k
      <4>1. j - 1 \in 1..Len(q) - 1 /\ ~(j - 1 < k) /\ (j - 1) + 1 = j
        BY <1>0, <2>1, <3>1, <3>3
      <4>2. t[j - 1] = x
        BY <2>4, <3>1, <4>1
      <4> QED BY <2>3, <4>1, <4>2 DEF Members
    <3> QED BY <3>1, <3>2, <3>3
  <2>9. Members(t) = Members(q) \ {c}
    BY <2>7, <2>8
  <2> QED BY <2>5, <2>6, <2>9 DEF t
<1> QED BY <1>1, <1>2

-----------------------------------------------------------------------------
(* The holders of permits are finitely many: one more or one less counts.  *)
LEMMA HolderCount ==
    ASSUME NEW H \in SUBSET Calls, NEW c \in Calls
    PROVE  /\ Cardinality(H) \in Nat
           /\ c \notin H => Cardinality(H \cup {c}) = Cardinality(H) + 1
           /\ c \in H => /\ Cardinality(H \ {c}) = Cardinality(H) - 1
                         /\ Cardinality(H \ {c}) \in Nat
<1>1. IsFiniteSet(H)
  BY LaneAssumption, FS_Subset
<1> QED BY <1>1, FS_CardinalityType, FS_AddElement, FS_RemoveElement

(* Steps that touch neither the calls nor the queue nor the permits.       *)
LEMMA LaneFrame ==
    ASSUME LaneInv, UNCHANGED <<pc, queue, available, doomed>>,
           renewing' \subseteq renewing, revoked \subseteq revoked',
           cancelled' \subseteq Calls, revoked' \subseteq Calls, expired' \subseteq Calls,
           stopping' \in BOOLEAN
    PROVE  LaneInv'
<1>1. LaneTypeOK' /\ DoomedStayRevoked' /\ RenewingWait'
  BY DEF LaneInv, LaneIsSound, LaneTypeOK, DoomedStayRevoked, RenewingWait
<1>2. CapacityConserved' /\ QueueMatchesWaiters' /\ QueuedCancellationPreventsCall'
  BY DEF LaneInv, LaneIsSound, CapacityConserved, Holders, QueueMatchesWaiters,
         QueuedCancellationPreventsCall
<1> QED BY <1>1, <1>2 DEF LaneInv, LaneIsSound

(* Whoever leaves, from wherever it stands, gives back what it holds.      *)
LEMMA LeaveKeeps ==
    ASSUME LaneInv, NEW c \in Calls, NEW exit \in Exits, Leave(c, exit), SlotUnchanged,
           doomed' = doomed, exit = "Called" => c \notin doomed
    PROVE  LaneInv'
<1> USE DEF LaneInv, LaneIsSound
<1>1. /\ pc \in [Calls -> LaneSteps] /\ queue \in Seq(Calls)
      /\ Members(queue) = {d \in Calls : pc[d] = "queued"} /\ Once(queue)
  BY DEF LaneTypeOK, QueueMatchesWaiters, Members, Once
<1>2. /\ pc' \in [Calls -> LaneSteps]
      /\ pc'[c] = exit /\ \A d \in Calls \ {c} : pc'[d] = pc[d]
  BY <1>1 DEF Leave, LaneSteps
<1>3. exit \notin Holding \cup Waiting
  BY DEF Exits, Holding, Waiting
<1>4. /\ queue' \in Seq(Calls) /\ Once(queue')
      /\ Members(queue') = Members(queue) \ {c}
  BY <1>1, LeaveQueue DEF Leave
<1>5. QueueMatchesWaiters'
  <2>1. Members(queue') = {d \in Calls : pc'[d] = "queued"}
    BY <1>1, <1>2, <1>3, <1>4 DEF Waiting
  <2> QED BY <1>4, <2>1 DEF QueueMatchesWaiters, Members, Once
<1>6. CapacityConserved' /\ available' \in 0..MaxParallel
  <2>1. Holders \in SUBSET Calls /\ Holders' = Holders \ {c}
    BY <1>1, <1>2, <1>3 DEF Holders
  <2>2. available' = available + (IF c \in Holders THEN 1 ELSE 0)
    BY DEF Leave, Holders
  <2>3. CASE c \in Holders
    <3>1. /\ Cardinality(Holders') = Cardinality(Holders) - 1
          /\ Cardinality(Holders') \in Nat /\ Cardinality(Holders) \in Nat
      BY <2>1, <2>3, HolderCount
    <3>2. /\ available' = available + 1 /\ available \in Nat
          /\ available + Cardinality(Holders) = MaxParallel /\ MaxParallel \in Nat
      BY <2>2, <2>3, LaneAssumption DEF CapacityConserved, LaneTypeOK
    <3> QED BY <3>1, <3>2 DEF CapacityConserved
  <2>4. CASE c \notin Holders
    <3>1. Holders' = Holders
      BY <2>1, <2>4
    <3> QED BY <2>2, <2>4, <3>1 DEF CapacityConserved, LaneTypeOK
  <2> QED BY <2>3, <2>4
<1>7. LaneTypeOK'
  BY <1>2, <1>4, <1>6 DEF LaneTypeOK, Leave, SlotUnchanged
<1>8. QueuedCancellationPreventsCall'
  BY <1>2 DEF QueuedCancellationPreventsCall, Exits, LaneTypeOK
<1>9. DoomedStayRevoked' /\ RenewingWait'
  BY <1>2 DEF DoomedStayRevoked, RenewingWait, Leave, SlotUnchanged, LaneTypeOK
<1> QED BY <1>5, <1>6, <1>7, <1>8, <1>9

(* A permit's holder moves on towards the provider.                        *)
LEMMA HolderAdvances ==
    ASSUME LaneInv, NEW c \in Calls, NEW step \in {"granted", "checked", "calling"},
           pc[c] \in Holding, c \notin renewing, pc' = [pc EXCEPT ![c] = step],
           SlotUnchanged, UNCHANGED <<queue, available, renewing, doomed>>,
           step = "calling" => c \notin revoked
    PROVE  LaneInv'
<1> USE DEF LaneInv, LaneIsSound
<1>1. /\ pc' \in [Calls -> LaneSteps]
      /\ pc'[c] = step /\ \A d \in Calls \ {c} : pc'[d] = pc[d]
      /\ pc'[c] \in Holding /\ pc'[c] # "queued" /\ pc[c] # "queued"
  BY DEF LaneTypeOK, LaneSteps, Holding
<1>2. LaneTypeOK' /\ DoomedStayRevoked' /\ RenewingWait'
  BY <1>1 DEF LaneTypeOK, DoomedStayRevoked, RenewingWait, SlotUnchanged
<1>3. Holders' = Holders
  BY <1>1 DEF Holders
<1>4. {d \in Calls : pc'[d] = "queued"} = {d \in Calls : pc[d] = "queued"}
  BY <1>1
<1>5. QueuedCancellationPreventsCall'
  BY <1>1 DEF QueuedCancellationPreventsCall, DoomedStayRevoked, LaneTypeOK
<1> QED BY <1>2, <1>3, <1>4, <1>5 DEF CapacityConserved, QueueMatchesWaiters

(* A call joins the queue.                                                 *)
LEMMA JoinKeeps ==
    ASSUME LaneInv, NEW c \in Calls, pc[c] = "idle", pc' = [pc EXCEPT ![c] = "queued"],
           queue' = Append(queue, c), SlotUnchanged, UNCHANGED <<available, renewing, doomed>>
    PROVE  LaneInv'
<1> USE DEF LaneInv, LaneIsSound
<1>1. /\ pc \in [Calls -> LaneSteps] /\ queue \in Seq(Calls)
      /\ Members(queue) = {d \in Calls : pc[d] = "queued"} /\ Once(queue)
  BY DEF LaneTypeOK, QueueMatchesWaiters, Members, Once
<1>2. /\ pc' \in [Calls -> LaneSteps]
      /\ pc'[c] = "queued" /\ \A d \in Calls \ {c} : pc'[d] = pc[d]
  BY <1>1 DEF LaneSteps
<1>3. /\ queue' \in Seq(Calls) /\ Once(queue') /\ Members(queue') = Members(queue) \cup {c}
  BY <1>1, JoinQueue
<1>4. QueueMatchesWaiters'
  <2>1. Members(queue') = {d \in Calls : pc'[d] = "queued"}
    BY <1>1, <1>2, <1>3
  <2> QED BY <1>3, <2>1 DEF QueueMatchesWaiters, Members, Once
<1>5. Holders' = Holders
  BY <1>2 DEF Holders, Holding
<1>6. LaneTypeOK' /\ DoomedStayRevoked' /\ RenewingWait'
  BY <1>2, <1>3 DEF LaneTypeOK, DoomedStayRevoked, RenewingWait, SlotUnchanged, Waiting
<1>7. QueuedCancellationPreventsCall'
  BY <1>2 DEF QueuedCancellationPreventsCall, LaneTypeOK
<1> QED BY <1>4, <1>5, <1>6, <1>7 DEF CapacityConserved

(* The semaphore serves its oldest waiter.                                 *)
LEMMA AssignKeeps ==
    ASSUME LaneInv, Assign
    PROVE  LaneInv'
<1> USE DEF LaneInv, LaneIsSound
<1> DEFINE c == Head(queue)
<1>1. /\ pc \in [Calls -> LaneSteps] /\ queue \in Seq(Calls)
      /\ Members(queue) = {d \in Calls : pc[d] = "queued"} /\ Once(queue)
  BY DEF LaneTypeOK, QueueMatchesWaiters, Members, Once
<1>2. /\ c \in Calls /\ pc[c] = "queued"
      /\ queue' \in Seq(Calls) /\ Once(queue') /\ Members(queue') = Members(queue) \ {c}
  BY <1>1, ServeQueue DEF Assign
<1>3. /\ pc' \in [Calls -> LaneSteps]
      /\ pc'[c] = "assigned" /\ \A d \in Calls \ {c} : pc'[d] = pc[d]
  BY <1>1, <1>2 DEF Assign, LaneSteps, Holding
<1>4. doomed' = IF c \in revoked THEN doomed \cup {c} ELSE doomed
  BY DEF Assign
<1> HIDE DEF c
<1>5. QueueMatchesWaiters'
  <2>1. Members(queue') = {d \in Calls : pc'[d] = "queued"}
    BY <1>1, <1>2, <1>3
  <2> QED BY <1>2, <2>1 DEF QueueMatchesWaiters, Members, Once
<1>6. CapacityConserved' /\ available' \in 0..MaxParallel
  <2>1. Holders \in SUBSET Calls /\ c \notin Holders /\ Holders' = Holders \cup {c}
    BY <1>2, <1>3 DEF Holders, Holding
  <2>2. available' = available - 1 /\ available > 0
    BY DEF Assign
  <2> QED BY <1>2, <2>1, <2>2, HolderCount, LaneAssumption DEF CapacityConserved, LaneTypeOK
<1>7. LaneTypeOK'
  BY <1>2, <1>3, <1>4, <1>6 DEF LaneTypeOK, Assign, SlotUnchanged
<1>8. QueuedCancellationPreventsCall'
  BY <1>3, <1>4 DEF QueuedCancellationPreventsCall, LaneTypeOK
<1>9. DoomedStayRevoked' /\ RenewingWait'
  BY <1>3, <1>4 DEF DoomedStayRevoked, RenewingWait, Assign, SlotUnchanged, LaneTypeOK, Waiting
<1> QED BY <1>5, <1>6, <1>7, <1>8, <1>9

-----------------------------------------------------------------------------
(* The lane starts empty with every permit free.                           *)
LEMMA LaneStarts == LaneInit => LaneInv
<1> SUFFICES ASSUME LaneInit PROVE LaneInv
  OBVIOUS
<1>1. LaneTypeOK
  <2>1. pc \in [Calls -> LaneSteps] /\ available \in 0..MaxParallel
    BY LaneAssumption DEF LaneInit, LaneSteps
  <2>2. queue \in Seq(Calls)
    BY DEF LaneInit
  <2>3. stopping \in BOOLEAN
    BY DEF LaneInit
  <2>4. /\ renewing \subseteq Calls /\ cancelled \subseteq Calls /\ revoked \subseteq Calls
        /\ expired \subseteq Calls /\ doomed \subseteq Calls
    BY DEF LaneInit
  <2> QED BY <2>1, <2>2, <2>3, <2>4 DEF LaneTypeOK
<1>2. Holders = {}
  BY DEF LaneInit, Holders, Holding
<1>3. CapacityConserved
  BY <1>2, FS_EmptySet, LaneAssumption DEF CapacityConserved, LaneInit
<1>4. QueueMatchesWaiters /\ QueuedCancellationPreventsCall
  BY DEF LaneInit, QueueMatchesWaiters, QueuedCancellationPreventsCall
<1> QED BY <1>1, <1>3, <1>4 DEF LaneInv, LaneIsSound, DoomedStayRevoked, RenewingWait, LaneInit

(* Every step keeps the invariant, action by action.                       *)
LEMMA LaneKeeps == LaneInv /\ [LaneNext]_laneVars => LaneInv'
<1> SUFFICES ASSUME LaneInv, [LaneNext]_laneVars PROVE LaneInv'
  OBVIOUS
<1>0. LaneTypeOK /\ RenewingWait /\ QueuedCancellationPreventsCall
  BY DEF LaneInv, LaneIsSound
<1>1. CASE UNCHANGED laneVars
  BY <1>0, <1>1, LaneFrame DEF laneVars, LaneTypeOK
<1>2. CASE Assign
  BY <1>2, AssignKeeps
<1>3. CASE StopLane
  BY <1>0, <1>3, LaneFrame DEF StopLane, LaneTypeOK
<1>4. ASSUME NEW c \in Calls,
             \/ Enter(c) \/ PollDeadline(c) \/ HeartbeatStart(c) \/ Progress(c) \/ Env(c)
      PROVE  LaneInv'
  <2>0. TokenExit(c) \in Exits \ {"Called"}
    BY DEF TokenExit, Exits
  <2>1. CASE Enter(c)
    BY <2>0, <2>1, LeaveKeeps, JoinKeeps DEF Enter
  <2>2. CASE PollDeadline(c)
    BY <2>2, LeaveKeeps DEF PollDeadline, Exits
  <2>3. CASE HeartbeatStart(c)
    <3>1. LaneTypeOK' /\ RenewingWait'
      BY <1>0, <2>3 DEF HeartbeatStart, LaneTypeOK, RenewingWait, SlotUnchanged, Waiting
    <3>2. /\ CapacityConserved' /\ QueueMatchesWaiters' /\ QueuedCancellationPreventsCall'
          /\ DoomedStayRevoked'
      BY <2>3 DEF HeartbeatStart, SlotUnchanged, LaneInv, LaneIsSound, CapacityConserved,
                  Holders, QueueMatchesWaiters, QueuedCancellationPreventsCall,
                  DoomedStayRevoked
    <3> QED BY <3>1, <3>2 DEF LaneInv, LaneIsSound
  <2>4. CASE PollTokens(c)
    BY <2>0, <2>4, LeaveKeeps DEF PollTokens
  <2>5. CASE PollPermit(c)
    BY <2>5, HolderAdvances DEF PollPermit, Holding
  <2>6. CASE HeartbeatEnd(c)
    <3>1. ASSUME NEW exit \in {"ClaimRenewalFailed", "StoreError", "Cancelled"}, Leave(c, exit)
          PROVE  LaneInv'
      BY <2>6, <3>1, LeaveKeeps DEF HeartbeatEnd, Exits
    <3>2. CASE renewing' = renewing \ {c} /\ UNCHANGED <<pc, queue, available>>
      BY <1>0, <2>6, <3>2, LaneFrame DEF HeartbeatEnd, SlotUnchanged, LaneTypeOK
    <3> QED BY <2>6, <3>1, <3>2 DEF HeartbeatEnd
  <2>7. CASE Recheck(c)
    <3>1. CASE Leave(c, TokenExit(c)) \/ Leave(c, "Deadline")
      BY <2>0, <2>7, <3>1, LeaveKeeps DEF Recheck, Exits
    <3>2. CASE pc' = [pc EXCEPT ![c] = "checked"] /\ UNCHANGED <<queue, available, renewing>>
      BY <1>0, <2>7, <3>2, HolderAdvances DEF Recheck, Holding, RenewingWait, Waiting
    <3> QED BY <2>7, <3>1, <3>2 DEF Recheck
  <2>8. CASE DurableCheck(c)
    <3>1. ASSUME NEW exit \in Exits \ {"Called"}, Leave(c, exit) PROVE LaneInv'
      BY <2>8, <3>1, LeaveKeeps DEF DurableCheck
    <3>2. CASE /\ c \notin revoked /\ pc' = [pc EXCEPT ![c] = "calling"]
               /\ UNCHANGED <<queue, available, renewing>>
      BY <1>0, <2>8, <3>2, HolderAdvances DEF DurableCheck, Holding, RenewingWait, Waiting
    <3> QED BY <2>8, <3>1, <3>2 DEF DurableCheck, Exits
  <2>9. CASE CallEnds(c)
    BY <1>0, <2>9, LeaveKeeps DEF CallEnds, Exits, QueuedCancellationPreventsCall
  <2>10. CASE Env(c)
    BY <1>0, <2>10, LaneFrame DEF Env, CancelToken, DurableCancel, Expire, LaneTypeOK
  <2> QED BY <1>4, <2>1, <2>2, <2>3, <2>4, <2>5, <2>6, <2>7, <2>8, <2>9, <2>10 DEF Progress
<1> QED BY <1>1, <1>2, <1>3, <1>4 DEF LaneNext

(* No permit of the model-call lane is ever lost or handed out twice,      *)
(* whichever exit a waiting or calling future takes; the queue holds each  *)
(* waiting call once; and a call whose run was cancelled in the store      *)
(* while it waited never reaches the provider.                             *)
THEOREM LaneSound == LaneSpec => []LaneIsSound
<1>1. LaneInv => LaneIsSound
  BY DEF LaneInv
<1> QED BY LaneStarts, LaneKeeps, <1>1, PTL DEF LaneSpec
=============================================================================
