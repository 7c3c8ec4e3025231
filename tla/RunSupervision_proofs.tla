------------------------ MODULE RunSupervision_proofs ------------------------
(***************************************************************************)
(* What the store's admission rules guarantee for every set of actors,     *)
(* every number of claims and every length of the log.                     *)
(*                                                                         *)
(* That no stage's provider call is made twice, that the retained evidence *)
(* tells which calls were made, and that a supervised run follows the      *)
(* review protocol: for any number of daemon processes, crashes,           *)
(* takeovers, store faults and cancellations.                              *)
(***************************************************************************)
EXTENDS RunSupervision, TLAPS

USE DEF Observations

-----------------------------------------------------------------------------
(* The log and its admission rules.                                       *)

(* What the invariants rest on: an outcome points back at the preparation  *)
(* of its attempt, and a preparation was made before any cancellation.     *)
OutcomesPointBack ==
    \A i \in DOMAIN log : log[i].kind \in Outcomes =>
        /\ log[i].parent \in 1..i - 1
        /\ log[log[i].parent].kind = "Prepared"

PreparedUncancelled ==
    \A i \in DOMAIN log : log[i].kind = "Prepared" => log[i].cgen = 0

(* All attempts but the latest are decided before the next is prepared:    *)
(* the candidate or the repair authorisation it is bound to decides the    *)
(* previous one.                                                           *)
EarlierAttemptsDecided ==
    \A i, j \in DOMAIN log :
        log[i].kind = "Prepared" /\ log[j].kind = "Prepared" /\ j < i
        => DecisionsOf(j) # {}

FirstIsCreated == 1 \in DOMAIN log /\ log[1].kind = "Created"

(* Where any event of some kinds is, there is a latest one.                *)
LatestExists == \A K \in SUBSET Kinds : Has(K) => Latest(K) # {}

(* A review decides on the plan that was current when it was made, and     *)
(* that plan had been accepted.                                            *)
ReviewsDecideOnBase ==
    \A i \in DOMAIN log : log[i].kind \in ReviewDecisions =>
        /\ log[AttemptOf(i)].stage \in ReviewStages
        /\ log[AttemptOf(i)].ref \in 1..i - 1
        /\ log[log[AttemptOf(i)].ref].kind = "PlanAccepted"
        /\ \A j \in 1..i : log[j].kind = "PlanAccepted" => j <= log[AttemptOf(i)].ref

(* A review is prepared on an accepted plan.                               *)
ReviewsHaveBase ==
    \A i \in DOMAIN log : log[i].kind = "Prepared" /\ log[i].stage \in ReviewStages =>
        log[i].ref # 0

LogInv ==
    /\ LogTypeOK
    /\ OutcomesPointBack
    /\ PreparedUncancelled
    /\ StageOnceInOrder
    /\ CancellationDominates
    /\ OutcomesAreFinal
    /\ EarlierAttemptsDecided
    /\ FirstIsCreated
    /\ LatestExists
    /\ ReviewsHaveBase
    /\ ReviewsDecideOnBase
    /\ CompletedIsReviewed

-----------------------------------------------------------------------------
(* A step of the log is a lease expiry or one admitted event.              *)
LEMMA LogSteps ==
    ASSUME LogTypeOK, LogNext
    PROVE  ExpireLease \/ \E e \in Event : append_event(e)
BY DEF LogNext

(* append_event extends the log by exactly the event it admits.            *)
LEMMA AppendExtends ==
    ASSUME LogTypeOK, NEW e \in Event, append_event(e)
    PROVE  /\ LogTypeOK'
           /\ Len(log) \in Nat
           /\ DOMAIN log = 1..Len(log)
           /\ DOMAIN log' = 1..Len(log) + 1
           /\ \A i \in 1..Len(log) : log'[i] = log[i]
           /\ log'[Len(log) + 1] = e
<1>1. log' \in Seq(Event)
  BY DEF LogTypeOK, append_event
<1>2. state' \in RunStates /\ leaseLive' \in BOOLEAN
  BY DEF LogTypeOK, append_event, StateChanges
<1>3. LogTypeOK'
  BY <1>1, <1>2 DEF LogTypeOK
<1>4. log \in Seq(Event) /\ log' = Append(log, e)
  BY DEF LogTypeOK, append_event
<1>5. /\ Len(log) \in Nat
      /\ DOMAIN log = 1..Len(log)
      /\ DOMAIN log' = 1..Len(log) + 1
  BY <1>4
<1>6. \A i \in 1..Len(log) : log'[i] = log[i]
  BY <1>4
<1>7. log'[Len(log) + 1] = e
  BY <1>4
<1> QED BY <1>3, <1>5, <1>6, <1>7

(* validate_generic_event routes an event to the validator of its payload. *)
LEMMA Admission ==
    ASSUME NEW e, append_event(e)
    PROVE  /\ e.kind # "Created"
           /\ e.kind \in StateChanges => validate_run_state_change(e)
           /\ e.kind = "Claimed" => validate_run_claim(e)
           /\ e.kind = "CancelRequested" => validate_cancellation(e)
           /\ e.kind = "Prepared" => validate_planner_inference_prepared(e)
           /\ e.kind \in Observations => validate_planner_inference_observed(e)
           /\ e.kind = "Unknown" => validate_planner_inference_unknown(e)
           /\ e.kind \in PlanDecisions => validate_decision(e, PlanStages)
           /\ e.kind \in ReviewDecisions => validate_decision(e, ReviewStages)
           /\ e.kind = "PlanningFailed" => validate_root_planning_failed(e)
           /\ e.kind = "StageFailed" => validate_root_planning_stage_failed(e)
           /\ root_planning_failure_fence(e)
<1> USE DEF append_event, validate_generic_event
<1> USE DEF StateChanges, RunStates, PlanDecisions, ReviewDecisions
<1> QED BY DEF validate_plan_decision, validate_semantic_review

-----------------------------------------------------------------------------
LEMMA LogInitInv == LogInit => LogInv
<1> SUFFICES ASSUME NEW a \in Actors, log = <<create_run(a)>>,
                    state = "Queued", leaseLive = FALSE
             PROVE  LogInv
  BY DEF LogInit
<1>1. /\ create_run(a) \in Event
      /\ create_run(a).kind = "Created"
  BY DEF create_run, Plain, Entry, Event, Kinds
<1>a. log \in Seq(Event)
  BY <1>1
<1>b. LogTypeOK
  BY <1>a DEF LogTypeOK, RunStates
<1>2. DOMAIN log = {1} /\ log[1].kind = "Created" /\ LogTypeOK
  BY <1>1, <1>b
<1>3. OutcomesPointBack /\ PreparedUncancelled
  BY <1>2 DEF OutcomesPointBack, PreparedUncancelled, Outcomes
<1>4. StageOnceInOrder /\ CancellationDominates
  BY <1>2 DEF StageOnceInOrder, CancellationDominates
<1>5. OutcomesAreFinal
  BY <1>2 DEF OutcomesAreFinal, Outcomes, Decisions, PlanDecisions,
              ReviewDecisions
<1>6. EarlierAttemptsDecided
  BY <1>2 DEF EarlierAttemptsDecided
<1>7. LatestExists
  BY <1>2 DEF LatestExists, Has, Latest
<1>8. FirstIsCreated
  BY <1>2 DEF FirstIsCreated
<1>9. ReviewsHaveBase /\ ReviewsDecideOnBase /\ CompletedIsReviewed
  BY <1>2 DEF ReviewsHaveBase, ReviewsDecideOnBase, CompletedIsReviewed, ReviewDecisions
<1> QED BY <1>2, <1>3, <1>4, <1>5, <1>6, <1>7, <1>8, <1>9 DEF LogInv

(* Every validator refuses an event of a terminal run.                     *)
LEMMA TerminalRefuses ==
    ASSUME state \in Terminal, NEW e \in Event, append_event(e)
    PROVE  FALSE
<1>1. e.kind \notin StateChanges
  BY Admission DEF validate_run_state_change, valid_run_transition, Terminal, Inactive
<1>2. e.kind \notin Outcomes \cup {"Claimed", "CancelRequested", "Prepared"}
  BY Admission DEF Outcomes, Terminal, validate_run_claim,
     validate_cancellation, validate_planner_inference_prepared,
     validate_planner_inference_observed, validate_planner_inference_unknown
<1>3. e.kind \notin Decisions \cup Failures
  BY Admission DEF Decisions, Failures, Terminal, validate_decision,
     validate_root_planning_failed, validate_root_planning_stage_failed
<1>4. e.kind # "Created" /\ e.kind \in Kinds
  BY Admission DEF Event
<1> QED BY <1>1, <1>2, <1>3, <1>4 DEF Kinds

(* The latest event of some kinds is the greatest of them.                 *)
LEMMA LastIsGreatest ==
    ASSUME LogTypeOK, LatestExists, NEW K \in SUBSET Kinds, Has(K)
    PROVE  /\ LastOf(K) \in DOMAIN log /\ log[LastOf(K)].kind \in K
           /\ \A i \in DOMAIN log : log[i].kind \in K => i <= LastOf(K)
<1>1. LastOf(K) \in Latest(K)
  BY DEF LatestExists, LastOf
<1>2. /\ LastOf(K) \in DOMAIN log /\ log[LastOf(K)].kind \in K
      /\ \A j \in LastOf(K) + 1..Len(log) : log[j].kind \notin K
  BY <1>1 DEF Latest
<1>3. ASSUME NEW i \in DOMAIN log, log[i].kind \in K PROVE i <= LastOf(K)
  BY <1>2, <1>3 DEF LogTypeOK
<1> QED BY <1>2, <1>3

(* Every admitted event preserves the invariant.                           *)
LEMMA LogAppendInv ==
    ASSUME LogInv, NEW e \in Event, append_event(e)
    PROVE  LogInv'
<1> DEFINE n == Len(log) + 1
<1>0. LogTypeOK
  BY DEF LogInv
<1>1. /\ LogTypeOK'
      /\ Len(log) \in Nat
      /\ DOMAIN log = 1..Len(log)
      /\ DOMAIN log' = 1..n
      /\ \A i \in 1..Len(log) : log'[i] = log[i]
      /\ log'[n] = e
  BY <1>0, AppendExtends
<1>2. ASSUME e.kind \in Outcomes
      PROVE  /\ e.parent \in DOMAIN log
             /\ log[e.parent].kind = "Prepared"
             /\ inference_terminal_count(e.parent) = {}
  <2>1. CASE e.kind = "Unknown"
    BY <2>1, Admission DEF validate_planner_inference_unknown
  <2>2. CASE e.kind \in Observations
    BY <2>2, Admission DEF validate_planner_inference_observed
  <2> QED BY <1>2, <2>1, <2>2 DEF Outcomes
<1>3. ASSUME e.kind = "Prepared"
      PROVE  /\ ~Cancelled
             /\ e.cgen = 0
             /\ e.stage \in Stages
             /\ validate_planner_stage_context(e)
  BY <1>3, Admission DEF Event, validate_planner_inference_prepared,
     require_current_claim_owner, Cancelled, latest_cancellation_generation
<1>4. ASSUME e.kind \in Decisions
      PROVE  /\ e.parent \in DOMAIN log
             /\ log[e.parent].kind = "Succeeded"
             /\ latest_cancellation_generation = log[log[e.parent].parent].cgen
             /\ DecisionsOf(log[e.parent].parent) = {}
  <2>1. validate_decision(e, PlanStages) \/ validate_decision(e, ReviewStages)
    BY <1>4, Admission DEF Decisions
  <2> QED BY <2>1 DEF validate_decision, require_current_claim_owner
<1>5. OutcomesPointBack'
  BY <1>1, <1>2 DEF LogInv, OutcomesPointBack
<1>6. PreparedUncancelled'
  BY <1>1, <1>3 DEF LogInv, PreparedUncancelled
<1>7. StageOnceInOrder'
  <2> DEFINE After(s) == {i \in 1..n : log'[i].kind = "Prepared" /\ log'[i].stage = s}
  <2>1. \A s : After(s) = Prepared(s) \cup
                (IF e.kind = "Prepared" /\ e.stage = s THEN {n} ELSE {})
    BY <1>1 DEF Prepared
  <2>2. \A s : Prepared(s) \subseteq 1..Len(log)
    BY <1>1 DEF Prepared
  <2> SUFFICES ASSUME NEW i \in 1..n, log'[i].kind = "Prepared"
               PROVE  /\ After(log'[i].stage) = {i}
                      /\ \A s \in Before[log'[i].stage] :
                           \E j \in After(s) : j < i
    BY <1>1 DEF StageOnceInOrder, Prepared
  <2> HIDE DEF After
  <2>3. CASE i = n
    <3>1. e.kind = "Prepared" /\ log'[i] = e
      BY <1>1, <2>3
    <3>2. e.stage \in Stages /\ e.stage \notin Before[e.stage]
      BY <1>3, <3>1 DEF Stages, Before
    <3>3. \A s \in Stages : Prepared(s) # {} <=> s \in Before[e.stage]
      BY <1>3, <3>1 DEF validate_planner_stage_context
    <3>4. Before[e.stage] \subseteq Stages
      BY <3>2 DEF Stages, Before
    <3>5. After(e.stage) = {n}
      BY <2>1, <3>1, <3>2, <3>3
    <3>6. ASSUME NEW s \in Before[e.stage]
          PROVE  \E j \in After(s) : j < n
      <4>1. PICK j \in Prepared(s) : TRUE
        BY <3>3, <3>4
      <4> QED BY <1>1, <2>1, <2>2, <4>1
    <3> QED BY <2>3, <3>1, <3>5, <3>6
  <2>4. CASE i \in 1..Len(log)
    <3>1. log'[i] = log[i] /\ log[i].kind = "Prepared" /\ i \in DOMAIN log
      BY <1>1, <2>4
    <3>2. /\ Prepared(log[i].stage) = {i}
          /\ \A s \in Before[log[i].stage] : \E j \in Prepared(s) : j < i
      BY <3>1 DEF LogInv, StageOnceInOrder
    <3>3. ~(e.kind = "Prepared" /\ e.stage = log[i].stage)
      <4> SUFFICES ASSUME e.kind = "Prepared", e.stage = log[i].stage
                   PROVE  FALSE
        OBVIOUS
      <4>1. e.stage \in Stages /\ e.stage \notin Before[e.stage]
        BY <1>3 DEF Stages, Before
      <4>2. Prepared(e.stage) = {}
        BY <1>3, <4>1 DEF validate_planner_stage_context, StageCandidate
      <4> QED BY <3>2, <4>2
    <3> QED BY <2>1, <3>1, <3>2, <3>3
  <2> QED BY <1>1, <2>3, <2>4
<1>8. CancellationDominates'
  <2>1. ASSUME Cancelled
        PROVE  e.kind \in {"Claimed", "Cancelled"} \cup Outcomes
    <3>1. e.kind \notin Decisions
      <4> SUFFICES ASSUME e.kind \in Decisions PROVE FALSE
        OBVIOUS
      <4>1. log[log[e.parent].parent].cgen = 0
        BY <1>1, <1>4 DEF LogInv, OutcomesPointBack, PreparedUncancelled,
                          Outcomes
      <4> QED BY <1>4, <2>1, <4>1 DEF Cancelled
    <3>2. e.kind \in StateChanges => e.kind = "Cancelled"
      BY <2>1, Admission DEF validate_run_state_change
    <3>3. e.kind # "CancelRequested" /\ e.kind # "Prepared"
      BY <1>3, <2>1, Admission DEF validate_cancellation
    <3>4. e.kind \notin Failures
      BY <2>1, Admission DEF Failures, validate_root_planning_failed, Cancelled,
         validate_root_planning_stage_failed, require_current_claim_owner
    <3>5. e.kind # "Created" /\ e.kind \in Kinds
      BY Admission DEF Event
    <3> QED BY <3>1, <3>2, <3>3, <3>4, <3>5 DEF Kinds
  <2> SUFFICES ASSUME NEW i \in 1..n, NEW j \in 1..n, i < j,
                      log'[i].kind = "CancelRequested"
               PROVE  log'[j].kind \in {"Claimed", "Cancelled"} \cup Outcomes
    BY <1>1 DEF CancellationDominates
  <2>2. i \in DOMAIN log /\ log[i].kind = "CancelRequested"
    BY <1>1
  <2>3. CASE j = n
    <3>1. Cancelled
      BY <2>2 DEF Cancelled, latest_cancellation_generation, Has
    <3> QED BY <1>1, <2>1, <2>3, <3>1
  <2>4. CASE j \in DOMAIN log
    BY <1>1, <2>2, <2>4 DEF LogInv, CancellationDominates
  <2> QED BY <1>1, <2>3, <2>4
<1>9. OutcomesAreFinal'
  <2>1. ASSUME NEW i \in 1..n, NEW j \in 1..n,
               log'[i].kind \in Outcomes, log'[j].kind \in Outcomes,
               log'[i].parent = log'[j].parent
        PROVE  i = j
    <3>1. ASSUME NEW k \in 1..Len(log), log[k].kind \in Outcomes,
                 e.kind \in Outcomes
          PROVE  log[k].parent # e.parent
      BY <1>1, <1>2, <3>1 DEF inference_terminal_count
    <3>2. CASE i \in 1..Len(log) /\ j \in 1..Len(log)
      BY <1>1, <2>1, <3>2 DEF LogInv, OutcomesAreFinal
    <3> QED BY <1>1, <2>1, <3>1, <3>2
  <2>2. ASSUME NEW i \in 1..n, NEW j \in 1..n,
               log'[i].kind \in Decisions, log'[j].kind \in Decisions,
               log'[i].parent = log'[j].parent
        PROVE  i = j
    <3>1. ASSUME NEW k \in 1..Len(log), log[k].kind \in Decisions,
                 e.kind \in Decisions
          PROVE  log[k].parent # e.parent
      BY <1>1, <1>4, <3>1 DEF DecisionsOf, AttemptOf
    <3>2. CASE i \in 1..Len(log) /\ j \in 1..Len(log)
      BY <1>1, <2>2, <3>2 DEF LogInv, OutcomesAreFinal
    <3> QED BY <1>1, <2>2, <3>1, <3>2
  <2>3. ASSUME NEW i \in 1..n, log'[i].kind \in Decisions
        PROVE  /\ log'[i].parent \in 1..n
               /\ log'[log'[i].parent].kind = "Succeeded"
    <3>1. CASE i = n
      BY <1>1, <1>4, <2>3, <3>1
    <3>2. CASE i \in 1..Len(log)
      BY <1>1, <2>3, <3>2 DEF LogInv, OutcomesAreFinal
    <3> QED BY <1>1, <3>1, <3>2
  <2> QED BY <1>1, <2>1, <2>2, <2>3 DEF OutcomesAreFinal
<1>10. EarlierAttemptsDecided'
  <2> USE <1>1
  <2>1. ASSUME NEW p \in 1..Len(log), DecisionsOf(p) # {}
        PROVE  DecisionsOf(p)' # {}
    <3>1. PICK i \in DOMAIN log : log[i].kind \in Decisions /\ AttemptOf(i) = p
      BY <2>1 DEF DecisionsOf
    <3>2. log[i].parent \in DOMAIN log
      BY <3>1 DEF LogInv, OutcomesAreFinal
    <3>3. log'[i].kind \in Decisions /\ log'[log'[i].parent].parent = p
      BY <3>1, <3>2 DEF AttemptOf
    <3> QED BY <3>3 DEF DecisionsOf, AttemptOf
  <2>2. ASSUME NEW c \in DOMAIN log, log[c].kind \in Decisions
        PROVE  /\ AttemptOf(c) \in DOMAIN log
               /\ log[AttemptOf(c)].kind = "Prepared"
               /\ DecisionsOf(AttemptOf(c)) # {}
    <3>1. log[c].parent \in DOMAIN log /\ log[log[c].parent].kind = "Succeeded"
      BY <2>2 DEF LogInv, OutcomesAreFinal
    <3>2. /\ log[log[c].parent].parent \in DOMAIN log
          /\ log[log[log[c].parent].parent].kind = "Prepared"
      BY <3>1 DEF LogInv, OutcomesPointBack, Outcomes
    <3>3. AttemptOf(c) = log[log[c].parent].parent
      BY <2>2 DEF AttemptOf
    <3> QED BY <2>2, <3>2, <3>3 DEF DecisionsOf
  <2>3. ASSUME NEW p \in DOMAIN log, NEW q \in DOMAIN log,
               log[p].kind = "Prepared", log[q].kind = "Prepared",
               log[p].stage = log[q].stage
        PROVE  p = q
    BY <2>3 DEF LogInv, StageOnceInOrder, Prepared
  <2>4. ASSUME e.kind = "Prepared", NEW j \in DOMAIN log, log[j].kind = "Prepared"
        PROVE  DecisionsOf(j) # {}
    <3>1. /\ e.stage \in Stages
          /\ validate_planner_stage_context(e)
          /\ log[j].stage \in Stages
      BY <1>3, <2>4 DEF LogInv, LogTypeOK, Event
    <3>2. log[j].stage \in Before[e.stage]
      BY <2>4, <3>1 DEF validate_planner_stage_context, StageCandidate, Prepared
    <3>3. ASSUME NEW c \in DOMAIN log, log[c].kind \in Decisions,
                 log[AttemptOf(c)].stage = log[j].stage
          PROVE  DecisionsOf(j) # {}
      BY <2>2, <2>3, <2>4, <3>3
    <3>4. CASE e.stage = "InitialPlan"
      BY <3>2, <3>4 DEF Before, Stages
    <3>5. CASE e.stage = "InitialReview"
      <4>1. validate_candidate_binding(e.ref, "InitialPlan")
        BY <3>1, <3>5 DEF validate_planner_stage_context, StageCandidate
      <4>2. log[j].stage = "InitialPlan"
        BY <3>2, <3>5 DEF Before, Stages
      <4> QED BY <3>3, <4>1, <4>2
           DEF validate_candidate_binding, Decisions, PlanDecisions
    <3>6. CASE e.stage = "Repair"
      <4>1. /\ validate_candidate_binding(e.ref, "InitialPlan")
            /\ \E r \in DOMAIN log :
                 /\ log[r].kind = "RepairOnceAuthorized"
                 /\ log[AttemptOf(r)].stage = "InitialReview"
        BY <3>1, <3>6 DEF validate_planner_stage_context, StageCandidate
      <4>2. log[j].stage \in {"InitialPlan", "InitialReview"}
        BY <3>2, <3>6 DEF Before, Stages
      <4> QED BY <3>3, <4>1, <4>2 DEF validate_candidate_binding, Decisions,
                                      PlanDecisions, ReviewDecisions
    <3>7. CASE e.stage = "FinalReview"
      <4>1. validate_candidate_binding(e.ref, "Repair")
        BY <3>1, <3>7 DEF validate_planner_stage_context, StageCandidate
      <4>2. CASE log[j].stage = "Repair"
        BY <3>3, <4>1, <4>2
           DEF validate_candidate_binding, Decisions, PlanDecisions
      <4>3. CASE log[j].stage \in {"InitialPlan", "InitialReview"}
        <5>1. PICK r \in DOMAIN log : log[r].kind = "Prepared" /\ log[r].stage = "Repair"
          BY <2>2, <4>1 DEF validate_candidate_binding, Decisions, PlanDecisions
        <5>2. log[j].stage \in Before[log[r].stage]
          BY <4>3, <5>1 DEF Before, Stages
        <5>3. PICK k \in Prepared(log[j].stage) : k < r
          BY <5>1, <5>2 DEF LogInv, StageOnceInOrder
        <5>4. k = j
          BY <2>3, <2>4, <5>3 DEF Prepared
        <5> QED BY <2>4, <5>1, <5>3, <5>4 DEF LogInv, EarlierAttemptsDecided
      <4>4. log[j].stage \in {"InitialPlan", "InitialReview", "Repair"}
        BY <3>2, <3>7 DEF Before, Stages
      <4> QED BY <4>2, <4>3, <4>4
    <3> QED BY <3>1, <3>4, <3>5, <3>6, <3>7 DEF Stages
  <2> SUFFICES ASSUME NEW i \in 1..n, NEW j \in 1..n, j < i,
                      log'[i].kind = "Prepared", log'[j].kind = "Prepared"
               PROVE  DecisionsOf(j)' # {}
    BY DEF EarlierAttemptsDecided
  <2>5. j \in DOMAIN log /\ log[j].kind = "Prepared"
    OBVIOUS
  <2>6. DecisionsOf(j) # {}
    <3>1. CASE i = n
      BY <2>4, <2>5, <3>1
    <3>2. CASE i \in 1..Len(log)
      BY <2>5, <3>2 DEF LogInv, EarlierAttemptsDecided
    <3> QED BY <3>1, <3>2
  <2> QED BY <2>1, <2>5, <2>6
<1>11. LatestExists'
  <2> SUFFICES ASSUME NEW K \in SUBSET Kinds, Has(K)' PROVE Latest(K)' # {}
    BY DEF LatestExists
  <2>1. CASE e.kind \in K
    <3>1. n \in DOMAIN log' /\ log'[n].kind \in K /\ Len(log') = n
      BY <1>1, <2>1
    <3>2. \A j \in n + 1..n : log'[j].kind \notin K
      BY <1>1
    <3> QED BY <3>1, <3>2 DEF Latest
  <2>2. CASE e.kind \notin K
    <3>1. Has(K)
      BY <1>1, <2>2 DEF Has
    <3>2. PICK i \in DOMAIN log : log[i].kind \in K /\ \A j \in i + 1..Len(log) : log[j].kind \notin K
      BY <3>1 DEF LogInv, LatestExists, Latest
    <3>3. Len(log') = n /\ i \in DOMAIN log' /\ log'[i].kind \in K
      BY <1>1, <3>2
    <3>4. \A j \in i + 1..n : log'[j].kind \notin K
      BY <1>1, <2>2, <3>2
    <3> QED BY <3>3, <3>4 DEF Latest
  <2> QED BY <2>1, <2>2
<1>12. ReviewsHaveBase'
  <2>1. ASSUME e.kind = "Prepared", e.stage \in ReviewStages PROVE e.ref # 0
    <3>1. StageCandidate(e)
      BY <1>3, <2>1 DEF validate_planner_stage_context
    <3>2. CASE e.stage = "InitialReview"
      BY <1>1, <3>1, <3>2 DEF StageCandidate, validate_candidate_binding
    <3>3. CASE e.stage = "FinalReview"
      BY <1>1, <3>1, <3>3 DEF StageCandidate, validate_candidate_binding
    <3> QED BY <2>1, <3>2, <3>3 DEF ReviewStages
  <2> QED BY <1>1, <2>1 DEF LogInv, ReviewsHaveBase
<1>13. ReviewsDecideOnBase'
  <2>1. ASSUME NEW i \in DOMAIN log, log[i].kind \in ReviewDecisions
        PROVE  /\ AttemptOf(i) \in DOMAIN log /\ log'[log'[i].parent].parent = AttemptOf(i)
    <3>1. log[i].parent \in DOMAIN log /\ log[log[i].parent].kind = "Succeeded"
      BY <2>1 DEF LogInv, OutcomesAreFinal, Decisions
    <3>2. log[log[i].parent].parent \in DOMAIN log
      BY <1>1, <3>1 DEF LogInv, OutcomesPointBack, Outcomes
    <3>3. AttemptOf(i) = log[log[i].parent].parent
      BY <2>1 DEF AttemptOf, Decisions
    <3> QED BY <1>1, <3>1, <3>2, <3>3
  <2>2. ASSUME e.kind \in ReviewDecisions
        PROVE  LET p == log[e.parent].parent IN
               /\ p \in DOMAIN log /\ e.parent \in DOMAIN log /\ log[p].stage \in ReviewStages
               /\ log[p].ref \in DOMAIN log /\ log[log[p].ref].kind = "PlanAccepted"
               /\ \A j \in DOMAIN log : log[j].kind = "PlanAccepted" => j <= log[p].ref
    <3> DEFINE p == log[e.parent].parent
    <3>1. /\ e.parent \in DOMAIN log /\ log[e.parent].kind = "Succeeded"
          /\ log[p].stage \in ReviewStages /\ log[p].ref = current_plan_base
      BY <2>2, Admission DEF validate_decision
    <3>2. p \in DOMAIN log /\ log[p].kind = "Prepared"
      BY <1>1, <3>1 DEF LogInv, OutcomesPointBack, Outcomes
    <3>3. log[p].ref # 0
      BY <3>1, <3>2 DEF LogInv, ReviewsHaveBase
    <3>4. Has({"PlanAccepted"}) /\ log[p].ref = LastOf({"PlanAccepted"})
      BY <3>1, <3>3 DEF current_plan_base
    <3>5. {"PlanAccepted"} \in SUBSET Kinds
      BY DEF Kinds, Decisions, PlanDecisions
    <3>6. /\ log[p].ref \in DOMAIN log /\ log[log[p].ref].kind = "PlanAccepted"
          /\ \A j \in DOMAIN log : log[j].kind = "PlanAccepted" => j <= log[p].ref
      BY <3>4, <3>5, LastIsGreatest DEF LogInv
    <3> QED BY <3>1, <3>2, <3>6
  <2> SUFFICES ASSUME NEW i \in 1..n, log'[i].kind \in ReviewDecisions
               PROVE  LET p == log'[log'[i].parent].parent IN
                      /\ log'[p].stage \in ReviewStages
                      /\ log'[p].ref \in 1..i - 1
                      /\ log'[log'[p].ref].kind = "PlanAccepted"
                      /\ \A j \in 1..i : log'[j].kind = "PlanAccepted" => j <= log'[p].ref
    BY <1>1 DEF ReviewsDecideOnBase, AttemptOf, Decisions
  <2>3. CASE i = n
    <3> DEFINE p == log[e.parent].parent
    <3>1. /\ p \in DOMAIN log /\ e.parent \in DOMAIN log /\ log[p].stage \in ReviewStages
          /\ log[p].ref \in DOMAIN log /\ log[log[p].ref].kind = "PlanAccepted"
          /\ \A j \in DOMAIN log : log[j].kind = "PlanAccepted" => j <= log[p].ref
      BY <1>1, <2>2, <2>3
    <3>2. log'[i] = e /\ log'[e.parent] = log[e.parent] /\ log'[p] = log[p] /\ log'[log[p].ref] = log[log[p].ref]
      BY <1>1, <2>3, <3>1
    <3> HIDE DEF p
    <3>3. e.kind # "PlanAccepted"
      BY <1>1, <2>3 DEF ReviewDecisions
    <3>4. \A j \in 1..i : log'[j].kind = "PlanAccepted" => j <= log[p].ref
      BY <1>1, <2>3, <3>1, <3>2, <3>3
    <3>5. log[p].ref \in 1..i - 1
      BY <1>1, <2>3, <3>1
    <3> QED BY <3>1, <3>2, <3>4, <3>5 DEF p
  <2>4. CASE i \in DOMAIN log
    <3> DEFINE p == AttemptOf(i)
    <3>1. log'[i] = log[i] /\ log[i].kind \in ReviewDecisions
      BY <1>1, <2>4
    <3>2. p \in DOMAIN log /\ log'[log'[i].parent].parent = p
      BY <2>1, <2>4, <3>1
    <3>3. /\ log[p].stage \in ReviewStages /\ log[p].ref \in 1..i - 1
          /\ log[log[p].ref].kind = "PlanAccepted"
          /\ \A j \in 1..i : log[j].kind = "PlanAccepted" => j <= log[p].ref
      BY <2>4, <3>1 DEF LogInv, ReviewsDecideOnBase
    <3> HIDE DEF p
    <3>4. log'[p] = log[p] /\ log'[log[p].ref] = log[log[p].ref] /\ \A j \in 1..i : log'[j] = log[j]
      BY <1>1, <2>4, <3>2, <3>3
    <3> QED BY <3>2, <3>3, <3>4
  <2>5. i = n \/ i \in DOMAIN log
    BY <1>1
  <2> QED BY <2>3, <2>4, <2>5, Zenon
<1>14. CompletedIsReviewed'
  <2> SUFFICES ASSUME state' = "Completed" PROVE CompletedIsReviewed'
    BY DEF CompletedIsReviewed
  <2>1. state \notin Terminal
    BY TerminalRefuses
  <2>2. e.kind = "Completed"
    BY <2>1 DEF append_event, Terminal
  <2>3. log[latest_non_claim_event].kind = "ReviewAccepted"
    BY <2>2, Admission DEF validate_run_state_change, valid_terminal_cause, StateChanges, RunStates
  <2> DEFINE K == Kinds \ {"Claimed"}
             i == latest_non_claim_event
             p == AttemptOf(i)
             c == log[p].ref
  <2>4. Has(K)
    <3>1. "Created" \in K
      BY DEF Kinds
    <3> QED BY <3>1 DEF Has, LogInv, FirstIsCreated
  <2>5. /\ i \in DOMAIN log /\ \A j \in DOMAIN log : log[j].kind \in K => j <= i
    BY <1>0, <2>4, LastIsGreatest DEF LogInv, latest_non_claim_event
  <2>6. /\ log[p].stage \in ReviewStages /\ c \in 1..i - 1
        /\ log[c].kind = "PlanAccepted"
        /\ \A j \in 1..i : log[j].kind = "PlanAccepted" => j <= c
    BY <2>3, <2>5 DEF LogInv, ReviewsDecideOnBase, ReviewDecisions
  <2>7. p = log[log[i].parent].parent /\ log[i].parent \in DOMAIN log /\ p \in DOMAIN log
    <3>1. log[i].kind \in Decisions
      BY <2>3 DEF Decisions, ReviewDecisions
    <3>2. log[i].parent \in DOMAIN log /\ log[log[i].parent].kind = "Succeeded"
      BY <2>5, <3>1 DEF LogInv, OutcomesAreFinal
    <3>3. log[log[i].parent].parent \in DOMAIN log
      BY <1>1, <3>2 DEF LogInv, OutcomesPointBack, Outcomes
    <3> QED BY <3>1, <3>2, <3>3 DEF AttemptOf
  <2> HIDE DEF i, p, c, K
  <2>8. \A j \in 1..n : log'[j].kind = "PlanAccepted" => j <= c
    BY <1>1, <2>2, <2>5, <2>6 DEF K, Kinds, Decisions, PlanDecisions
  <2>9. c \in DOMAIN log' /\ log'[c].kind = "PlanAccepted" /\ c # 0 /\ log'[c] = log[c]
    BY <1>1, <2>5, <2>6
  <2>10. Has({"PlanAccepted"})' /\ {"PlanAccepted"} \in SUBSET Kinds
    BY <2>9 DEF Has, Kinds, Decisions, PlanDecisions
  <2>11. current_plan_base' = c
    <3>1. Latest({"PlanAccepted"})' = {c}
      BY <1>1, <2>8, <2>9 DEF Latest
    <3> QED BY <2>10, <3>1 DEF current_plan_base, LastOf
  <2>12. /\ i \in DOMAIN log' /\ log'[i].kind = "ReviewAccepted" /\ log'[p] = log[p]
         /\ log'[log'[i].parent].parent = p
    BY <1>1, <2>3, <2>5, <2>7 DEF i
  <2> QED BY <2>6, <2>9, <2>11, <2>12 DEF CompletedIsReviewed, AttemptOf, Decisions, ReviewDecisions, c
<1>15. FirstIsCreated'
  BY <1>1 DEF LogInv, FirstIsCreated
<1> QED BY <1>1, <1>5, <1>6, <1>7, <1>8, <1>9, <1>10, <1>11, <1>12, <1>13, <1>14, <1>15 DEF LogInv

LEMMA LogStepInv == LogInv /\ [LogNext]_logVars => LogInv'
<1> SUFFICES ASSUME LogInv, [LogNext]_logVars PROVE LogInv'
  OBVIOUS
<1>1. CASE LogNext
  <2>1. CASE \E e \in Event : append_event(e)
    BY <2>1, LogAppendInv
  <2>2. CASE ExpireLease
    <3>1. log' = log /\ state' = state /\ leaseLive' \in BOOLEAN
      BY <2>2 DEF ExpireLease
    <3>2. LogTypeOK'
      BY <3>1 DEF LogInv, LogTypeOK
    <3>3. OutcomesPointBack' /\ PreparedUncancelled'
      BY <3>1 DEF LogInv, OutcomesPointBack, PreparedUncancelled
    <3>4. StageOnceInOrder' /\ CancellationDominates'
      BY <3>1 DEF LogInv, StageOnceInOrder, CancellationDominates, Prepared
    <3>5. OutcomesAreFinal'
      BY <3>1 DEF LogInv, OutcomesAreFinal
    <3>6. EarlierAttemptsDecided'
      BY <3>1 DEF LogInv, EarlierAttemptsDecided, DecisionsOf, AttemptOf
    <3>7. LatestExists' /\ ReviewsHaveBase'
      BY <3>1 DEF LogInv, LatestExists, ReviewsHaveBase, Has, Latest
    <3>8. ReviewsDecideOnBase'
      BY <3>1 DEF LogInv, ReviewsDecideOnBase, AttemptOf
    <3>9. CompletedIsReviewed'
      <4>1. current_plan_base' = current_plan_base
        BY <3>1 DEF current_plan_base, Has, LastOf, Latest
      <4> QED BY <3>1, <4>1 DEF LogInv, CompletedIsReviewed, AttemptOf
    <3>10. FirstIsCreated'
      BY <3>1 DEF LogInv, FirstIsCreated
    <3> QED BY <3>2, <3>3, <3>4, <3>5, <3>6, <3>7, <3>8, <3>9, <3>10 DEF LogInv
  <2> QED BY <1>1, <2>1, <2>2, LogSteps DEF LogInv
<1>2. CASE UNCHANGED logVars
  <2>1. log' = log /\ state' = state /\ leaseLive' = leaseLive
    BY <1>2 DEF logVars
  <2>2. LogTypeOK'
    BY <2>1 DEF LogInv, LogTypeOK
  <2>3. OutcomesPointBack' /\ PreparedUncancelled'
    BY <2>1 DEF LogInv, OutcomesPointBack, PreparedUncancelled
  <2>4. StageOnceInOrder' /\ CancellationDominates'
    BY <2>1 DEF LogInv, StageOnceInOrder, CancellationDominates, Prepared
  <2>5. OutcomesAreFinal'
    BY <2>1 DEF LogInv, OutcomesAreFinal
  <2>6. EarlierAttemptsDecided'
    BY <2>1 DEF LogInv, EarlierAttemptsDecided, DecisionsOf, AttemptOf
  <2>7. LatestExists' /\ ReviewsHaveBase'
    BY <2>1 DEF LogInv, LatestExists, ReviewsHaveBase, Has, Latest
  <2>8. ReviewsDecideOnBase'
    BY <2>1 DEF LogInv, ReviewsDecideOnBase, AttemptOf
  <2>9. CompletedIsReviewed'
    <3>1. current_plan_base' = current_plan_base
      BY <2>1 DEF current_plan_base, Has, LastOf, Latest
    <3> QED BY <2>1, <3>1 DEF LogInv, CompletedIsReviewed, AttemptOf
  <2>10. FirstIsCreated'
    BY <2>1 DEF LogInv, FirstIsCreated
  <2> QED BY <2>2, <2>3, <2>4, <2>5, <2>6, <2>7, <2>8, <2>9, <2>10 DEF LogInv
<1> QED BY <1>1, <1>2

(* The inductive invariant holds in every state of every behaviour in      *)
(* which the store admits the appends of any number of actors.             *)
THEOREM LogInvariant == LogSpec => []LogInv
<1> QED BY LogInitInv, LogStepInv, PTL DEF LogSpec

(* Type correctness of the run's log and of its state projection.          *)
THEOREM LogTypeCorrect == LogSpec => []LogTypeOK
<1>1. LogInv => LogTypeOK
  BY DEF LogInv
<1> QED BY <1>1, LogInvariant, PTL

(* The store admits at most one preparation per stage, in stage order, so  *)
(* no sequence of crashes, takeovers and retries prepares a call twice.    *)
THEOREM StagePreparedOnce == LogSpec => []StageOnceInOrder
<1>1. LogInv => StageOnceInOrder
  BY DEF LogInv
<1> QED BY <1>1, LogInvariant, PTL

(* No event of the store overtakes a durable cancellation.                 *)
THEOREM CancellationFence == LogSpec => []CancellationDominates
<1>1. LogInv => CancellationDominates
  BY DEF LogInv
<1> QED BY <1>1, LogInvariant, PTL

(* An attempt is resolved once: one outcome, one decision, on a success.   *)
THEOREM AttemptResolvedOnce == LogSpec => []OutcomesAreFinal
<1>1. LogInv => OutcomesAreFinal
  BY DEF LogInv
<1> QED BY <1>1, LogInvariant, PTL

(* The earlier of two attempts is resolved, so one at most is not.         *)
LEMMA OneOpen == ASSUME LogInv PROVE OneUnresolvedAttempt
<1> SUFFICES ASSUME NEW p \in DOMAIN log, NEW q \in DOMAIN log,
                    log[p].kind = "Prepared", log[q].kind = "Prepared",
                    ~Resolved(p), ~Resolved(q)
             PROVE  p = q
  BY DEF OneUnresolvedAttempt
<1>1. p \in Nat /\ q \in Nat
  BY DEF LogInv, LogTypeOK
<1>2. ~(p < q) /\ ~(q < p)
  BY DEF LogInv, EarlierAttemptsDecided, Resolved
<1> QED BY <1>1, <1>2

(* At most one attempt is open, so a restarted daemon always finds exactly *)
(* one place to resume from.                                               *)
THEOREM SingleOpenAttempt == LogSpec => []OneUnresolvedAttempt
<1> QED BY OneOpen, LogInvariant, PTL

(* Whatever anyone proposes, the store admits one orderly history, and a   *)
(* run it records as completed was accepted by a review of the very plan   *)
(* that is current (validate_generic_event and its validators).            *)
THEOREM LogSound == LogSpec => []LogIsSound
<1>1. LogInv => LogTypeOK /\ StageOnceInOrder /\ CancellationDominates /\ OutcomesAreFinal /\ CompletedIsReviewed
  BY DEF LogInv
<1>2. LogTypeOK /\ StageOnceInOrder /\ CancellationDominates /\ OneUnresolvedAttempt /\ OutcomesAreFinal
      /\ CompletedIsReviewed => LogIsSound
  BY DEF LogIsSound
<1> QED BY <1>1, <1>2, LogInvariant, SingleOpenAttempt, PTL

(* Nothing is ever appended to a run that completed, failed or was         *)
(* cancelled: every validator refuses a terminal run.                      *)
THEOREM TerminalFrozen == LogSpec => TerminalIsFinal
<1>1. LogInv /\ [LogNext]_logVars => [(state \in Terminal) => Frozen]_logVars
  <2> SUFFICES ASSUME LogInv, LogNext, state \in Terminal PROVE Frozen
    BY DEF Frozen
  <2>1. CASE ExpireLease
    BY <2>1 DEF ExpireLease, Frozen
  <2>2. ASSUME NEW e \in Event, append_event(e) PROVE FALSE
    BY <2>2, TerminalRefuses
  <2> QED BY <2>1, <2>2, LogSteps DEF LogInv
<1> QED BY <1>1, LogInvariant, PTL DEF LogSpec, TerminalIsFinal

-----------------------------------------------------------------------------
(* The supervisor.                                                         *)

(* The task works on a stage, or renews its claim to go on with it.        *)
InStage(t) == \/ t.pc \in {"compile", "prepare", "calling", "beat", "observeSucceeded", "decide"}
              \/ t.pc \in {"claim", "toRunning"} /\ t.after \in {"prepare", "beat"}

(* The task has prepared a stage and not called the provider for it, be it *)
(* that it still may or that it records that it did not.                   *)
BeforeCall(t) ==
    \/ t.pc \in {"dispatch", "slot", "slotBeat", "granted", "notDispatched", "cancelledBeforeCall"}
    \/ t.pc \in {"claim", "toRunning"} /\ t.after \in {"slotBeat", "cancelledBeforeCall"}
    \/ t.pc = "ensure" /\ t.after = "cancelledBeforeCall"

(* Where no renewal of the claim returns to.                               *)
NoReturn == {"compile", "dispatch", "slot", "granted", "ensure", "claim", "toRunning",
             "calling", "observeSucceeded", "decide", "reload", "notDispatched", "observeFailed"}
InCall == {"prepare", "slotBeat", "beat"}

(* What a task that may go on with the present log and calls looks like.   *)
Held(t) ==
    /\ t \in Task
    /\ t.pc # "none" => t.owner \in Actors
    /\ t.hist <= Len(log)
    /\ t.pc \in {"claim", "toRunning"} => t.after \notin NoReturn
    /\ t.pc = "ensure" => t.after \notin NoReturn \cup InCall
    /\ InStage(t) => t.stage \in Stages
    /\ BeforeCall(t) => /\ t.stage \in Stages /\ calls[t.stage] = 0
                        /\ Prepared(t.stage) # {}

SupervisorInv == TypeOK /\ LogInv /\ Held(task) /\ NoDuplicateCall

-----------------------------------------------------------------------------
(* The log and the preparations in it only grow.                           *)
Grows == /\ Len(log) <= Len(log')
         /\ \A s \in Stages : Prepared(s) # {} => Prepared(s)' # {}

LEMMA AppendGrows == ASSUME LogTypeOK, NEW e \in Event, append_event(e) PROVE Grows
<1>1. /\ Len(log) \in Nat /\ DOMAIN log = 1..Len(log) /\ DOMAIN log' = 1..Len(log) + 1
      /\ \A i \in 1..Len(log) : log'[i] = log[i]
  BY AppendExtends
<1>2. Len(log') = Len(log) + 1
  BY DEF append_event, LogTypeOK
<1>3. ASSUME NEW s \in Stages, Prepared(s) # {} PROVE Prepared(s)' # {}
  <2>1. PICK i \in DOMAIN log : log[i].kind = "Prepared" /\ log[i].stage = s
    BY <1>3 DEF Prepared
  <2>2. i \in DOMAIN log' /\ log'[i] = log[i]
    BY <1>1
  <2> QED BY <2>1, <2>2 DEF Prepared
<1> QED BY <1>1, <1>2, <1>3 DEF Grows

LEMMA StillGrows == ASSUME LogTypeOK, UNCHANGED log PROVE Grows
BY DEF Grows, Prepared, LogTypeOK

(* A task that may go on may still go on when the log has grown.           *)
LEMMA HeldLater ==
    ASSUME LogTypeOK, LogTypeOK', Grows, UNCHANGED calls, NEW t, Held(t) PROVE Held(t)'
<1>1. t.hist <= Len(log')
  <2>1. t.hist \in Nat /\ Len(log) \in Nat /\ Len(log') \in Nat
    BY DEF Held, Task, LogTypeOK
  <2> QED BY <2>1 DEF Held, Grows
<1> QED BY <1>1 DEF Held, Grows

(* The fields of a task are of their types.                                *)
LEMMA TaskFields ==
    ASSUME NEW t \in Task
    PROVE  /\ t.owner \in Actors \cup {"none"} /\ t.pc \in PCs /\ t.after \in PCs /\ t.hist \in Nat
           /\ t.stage \in Stages \cup {"none"} /\ t.goal \in RunStates \cup {"none"} /\ t.recover \in BOOLEAN
BY DEF Task

(* Everywhere else nothing is asked of a task but its owner.               *)
Calm == PCs \ {"none", "compile", "prepare", "dispatch", "slot", "slotBeat", "granted",
               "notDispatched", "cancelledBeforeCall", "claim", "toRunning", "ensure",
               "calling", "beat", "observeSucceeded", "decide"}

LEMMA CalmHeld ==
    ASSUME SupervisorInv, NEW t \in Task, t.owner \in Actors, t.hist <= Len(log),
           \/ t.pc \in Calm
           \/ /\ t.pc \in {"claim", "toRunning", "ensure"}
              /\ t.after \notin NoReturn \cup InCall /\ t.after # "cancelledBeforeCall"
    PROVE  Held(t)
BY DEF Held, InStage, BeforeCall, Calm, NoReturn, InCall

LEMMA EndedHeld == ASSUME SupervisorInv PROVE Held(Ended)
<1>1. Len(log) \in Nat
  BY DEF SupervisorInv, TypeOK, LogTypeOK
<1>2. "none" \in PCs
  BY DEF PCs
<1>3. Ended \in Task
  BY <1>2 DEF Ended, Task
<1>4. Ended.pc = "none" /\ Ended.hist = 0
  BY DEF Ended
<1> QED BY <1>1, <1>3, <1>4 DEF Held, InStage, BeforeCall

(* The places a running task goes to.                                      *)
LEMMA GotoHeld ==
    ASSUME SupervisorInv, task.pc # "none", NEW pc \in Calm PROVE Held(Goto(pc))
<1> DEFINE t == Goto(pc)
<1>1. task \in Task /\ task.owner \in Actors /\ task.hist <= Len(log) /\ pc \in PCs
  BY DEF SupervisorInv, Held, Calm
<1>2. t \in Task /\ t.owner = task.owner /\ t.hist = task.hist /\ t.pc = pc
  BY <1>1 DEF Goto, Task
<1> QED BY <1>1, <1>2, CalmHeld

LEMMA StageHeld ==
    ASSUME SupervisorInv, task.pc # "none", task.stage \in Stages,
           NEW pc \in {"calling", "observeSucceeded", "decide"}
    PROVE  Held(Goto(pc))
<1> DEFINE t == Goto(pc)
<1>1. task \in Task /\ task.owner \in Actors /\ task.hist <= Len(log) /\ pc \in PCs
  BY DEF SupervisorInv, Held, PCs
<1>2. t \in Task /\ t.owner = task.owner /\ t.hist = task.hist /\ t.pc = pc /\ t.stage = task.stage
  BY <1>1 DEF Goto, Task
<1> HIDE DEF t
<1>3. Held(t)
  BY <1>1, <1>2 DEF Held, InStage, BeforeCall
<1> QED BY <1>3 DEF t

LEMMA TransitionHeld ==
    ASSUME SupervisorInv, task.pc # "none", NEW to \in RunStates \cup {"none"} PROVE Held(Transition(to))
<1> DEFINE t == Transition(to)
<1>1. task \in Task /\ task.owner \in Actors /\ Len(log) \in Nat
  BY DEF SupervisorInv, Held, TypeOK, LogTypeOK
<1>2. "transition" \in PCs /\ "transition" \in Calm
  BY DEF PCs, Calm
<1>3. t \in Task /\ t.owner = task.owner /\ t.hist = 0 /\ t.pc = "transition"
  BY <1>1, <1>2 DEF Transition, Task
<1> QED BY <1>1, <1>2, <1>3, CalmHeld

LEMMA RenewHeld ==
    ASSUME SupervisorInv, task.pc # "none", NEW after \in PCs, after \notin NoReturn,
           after \in {"prepare", "beat"} => task.stage \in Stages,
           after \in {"slotBeat", "cancelledBeforeCall"} => BeforeCall(task)
    PROVE  Held(Renew(after))
<1> DEFINE t == Renew(after)
<1>1. /\ task \in Task /\ task.owner \in Actors /\ task.hist <= Len(log)
      /\ BeforeCall(task) => /\ task.stage \in Stages /\ calls[task.stage] = 0
                             /\ Prepared(task.stage) # {}
  BY DEF SupervisorInv, Held
<1>2. "claim" \in PCs
  BY DEF PCs
<1>3. t \in Task /\ t.owner = task.owner /\ t.hist = task.hist /\ t.pc = "claim" /\ t.after = after /\ t.stage = task.stage
  BY <1>1, <1>2 DEF Renew, Task
<1> HIDE DEF t
<1>4. Held(t)
  BY <1>1, <1>3 DEF Held, InStage, BeforeCall
<1> QED BY <1>4 DEF t

LEMMA EnsureHeld ==
    ASSUME SupervisorInv, task.pc # "none", NEW after \in PCs, NEW to \in RunStates,
           after \notin NoReturn \cup InCall, after = "cancelledBeforeCall" => BeforeCall(task)
    PROVE  Held(Ensure(after, to))
<1> DEFINE t == Ensure(after, to)
<1>1. /\ task \in Task /\ task.owner \in Actors /\ task.hist <= Len(log)
      /\ BeforeCall(task) => /\ task.stage \in Stages /\ calls[task.stage] = 0
                             /\ Prepared(task.stage) # {}
  BY DEF SupervisorInv, Held
<1>2. "ensure" \in PCs
  BY DEF PCs
<1>3. t \in Task /\ t.owner = task.owner /\ t.hist = task.hist /\ t.pc = "ensure" /\ t.after = after
      /\ t.stage = task.stage
  BY <1>1, <1>2 DEF Ensure, Task
<1> HIDE DEF t
<1>4. Held(t)
  BY <1>1, <1>3 DEF Held, InStage, BeforeCall
<1> QED BY <1>4 DEF t

LEMMA BoundaryHeld ==
    ASSUME SupervisorInv, task.pc # "none", NEW to \in RunStates, NEW recover \in BOOLEAN
    PROVE  Held(Boundary(to, recover))
<1> DEFINE t == Boundary(to, recover)
<1>1. task \in Task /\ task.owner \in Actors /\ task.hist <= Len(log)
  BY DEF SupervisorInv, Held
<1>2. "unknown" \in PCs /\ "unknown" \in Calm
  BY DEF PCs, Calm
<1>3. t \in Task /\ t.owner = task.owner /\ t.hist = task.hist /\ t.pc = "unknown"
  BY <1>1, <1>2 DEF Boundary, Task
<1> QED BY <1>1, <1>2, <1>3, CalmHeld

LEMMA FailStageHeld ==
    ASSUME SupervisorInv, task.pc # "none", NEW s \in Stages \cup {"none"} PROVE Held(FailStage(s))
<1> DEFINE t == FailStage(s)
<1>1. task \in Task /\ task.owner \in Actors /\ Len(log) \in Nat /\ token \in BOOLEAN
  BY DEF SupervisorInv, Held, TypeOK, LogTypeOK
<1>2. /\ "claim" \in PCs /\ "ensure" \in PCs /\ "stageFailed" \in PCs
      /\ "planningFailed" \in PCs /\ "transition" \in PCs /\ "Cancelled" \in RunStates
  BY DEF PCs, RunStates
<1>3. \/ t = [Renew("stageFailed") EXCEPT !.stage = s, !.hist = 0]
      \/ t = [Ensure("transition", "Cancelled") EXCEPT !.stage = s, !.hist = 0]
      \/ t = [Renew("planningFailed") EXCEPT !.stage = s, !.hist = 0]
  BY <1>1 DEF FailStage
<1>4. /\ t \in Task /\ t.owner = task.owner /\ t.hist = 0
      /\ \/ t.pc = "claim" /\ t.after \in {"stageFailed", "planningFailed"}
         \/ t.pc = "ensure" /\ t.after = "transition"
  <2>1. CASE t = [Renew("stageFailed") EXCEPT !.stage = s, !.hist = 0]
    <3> DEFINE u == Renew("stageFailed")
    <3>1. u \in Task /\ u.owner = task.owner /\ u.pc = "claim" /\ u.after = "stageFailed"
      BY <1>1, <1>2 DEF Renew, Task
    <3>2. t = [u EXCEPT !.stage = s, !.hist = 0]
      BY <2>1
    <3> HIDE DEF u, t
    <3> QED BY <3>1, <3>2 DEF Task
  <2>2. CASE t = [Ensure("transition", "Cancelled") EXCEPT !.stage = s, !.hist = 0]
    <3> DEFINE u == Ensure("transition", "Cancelled")
    <3>1. u \in Task /\ u.owner = task.owner /\ u.pc = "ensure" /\ u.after = "transition"
      BY <1>1, <1>2 DEF Ensure, Task
    <3>2. t = [u EXCEPT !.stage = s, !.hist = 0]
      BY <2>2
    <3> HIDE DEF u, t
    <3> QED BY <3>1, <3>2 DEF Task
  <2>3. CASE t = [Renew("planningFailed") EXCEPT !.stage = s, !.hist = 0]
    <3> DEFINE u == Renew("planningFailed")
    <3>1. u \in Task /\ u.owner = task.owner /\ u.pc = "claim" /\ u.after = "planningFailed"
      BY <1>1, <1>2 DEF Renew, Task
    <3>2. t = [u EXCEPT !.stage = s, !.hist = 0]
      BY <2>3
    <3> HIDE DEF u, t
    <3> QED BY <3>1, <3>2 DEF Task
  <2> QED BY <1>3, <2>1, <2>2, <2>3
<1> HIDE DEF t
<1>5. Held(t)
  BY <1>1, <1>4, CalmHeld DEF NoReturn, InCall
<1> QED BY <1>5 DEF t

(* Where an error leads.                                                   *)
LEMMA OnErrorHeld ==
    ASSUME SupervisorInv, task.pc # "none", NEW t \in OnError PROVE Held(t)
<1>1. /\ "Failed" \in RunStates /\ "Cancelled" \in RunStates /\ "Waiting" \in RunStates
      /\ "unknownAgain" \in PCs \ NoReturn /\ "observedFailed" \in PCs \ NoReturn /\ TRUE \in BOOLEAN
      /\ task.stage \in Stages \cup {"none"}
  BY DEF RunStates, PCs, SupervisorInv, Held, Task, NoReturn
<1>2. /\ Held(Ended) /\ Held(Boundary("Failed", TRUE)) /\ Held(Boundary("Cancelled", TRUE))
      /\ Held(FailStage(task.stage)) /\ Held(Transition("Waiting"))
      /\ Held(Renew("unknownAgain")) /\ Held(Renew("observedFailed"))
  BY <1>1, EndedHeld, BoundaryHeld, FailStageHeld, TransitionHeld, RenewHeld
<1>3. t \in {Ended, Boundary("Failed", TRUE), Boundary("Cancelled", TRUE), FailStage(task.stage),
             Transition("Waiting"), Renew("unknownAgain"), Renew("observedFailed")}
  BY DEF OnError, RenewalError, PrepareError, DecideError
<1> QED BY <1>2, <1>3

(* A task that waits for its call goes on to make it, or not to.           *)
LEMMA WaitHeld ==
    ASSUME SupervisorInv, BeforeCall(task), NEW pc \in {"slot", "slotBeat", "granted", "notDispatched"}
    PROVE  Held(Goto(pc))
<1> DEFINE t == Goto(pc)
<1>1. /\ task \in Task /\ task.owner \in Actors /\ task.hist <= Len(log) /\ task.stage \in Stages
      /\ calls[task.stage] = 0 /\ Prepared(task.stage) # {}
  BY DEF SupervisorInv, Held, BeforeCall
<1>2. pc \in PCs
  BY DEF PCs
<1>3. t \in Task /\ t.owner = task.owner /\ t.hist = task.hist /\ t.pc = pc /\ t.stage = task.stage
  BY <1>1, <1>2 DEF Goto, Task
<1> HIDE DEF t
<1>4. Held(t)
  BY <1>1, <1>3 DEF Held, InStage, BeforeCall
<1> QED BY <1>4 DEF t

(* A renewed claim leads back to where it was needed.                      *)
LEMMA ReturnHeld ==
    ASSUME SupervisorInv, task.pc \in {"claim", "toRunning"}, NEW t \in Task,
           t.owner = task.owner, t.pc = task.after, t.stage = task.stage, t.hist <= Len(log)
    PROVE  Held(t)
<1>1. /\ task \in Task /\ task.owner \in Actors /\ task.after \in PCs \ NoReturn
      /\ task.after \in {"prepare", "beat"} => task.stage \in Stages
      /\ task.after \in {"slotBeat", "cancelledBeforeCall"} =>
           task.stage \in Stages /\ calls[task.stage] = 0 /\ Prepared(task.stage) # {}
  BY DEF SupervisorInv, Held, InStage, BeforeCall, Task
<1> QED BY <1>1 DEF Held, InStage, BeforeCall, NoReturn

LEMMA AfterClaimHeld ==
    ASSUME SupervisorInv, task.pc \in {"claim", "toRunning"}, NEW h \in Nat, h <= Len(log)
    PROVE  Held(AfterClaim(h))
<1> DEFINE u == Goto(task.after)
           t == AfterClaim(h)
           k == IF task.after = "loop" THEN h ELSE 0
<1>1. task \in Task /\ task.after \in PCs /\ "none" \in PCs /\ k \in Nat /\ k <= Len(log)
  BY DEF SupervisorInv, Held, Task, PCs, TypeOK, LogTypeOK
<1>2. u \in Task /\ u.owner = task.owner /\ u.pc = task.after /\ u.stage = task.stage
  BY <1>1 DEF Goto, Task
<1>3. t = [u EXCEPT !.after = "none", !.hist = k]
  BY DEF AfterClaim
<1> HIDE DEF u, t, k
<1>4. t \in Task /\ t.owner = u.owner /\ t.pc = u.pc /\ t.stage = u.stage /\ t.hist = k
  BY <1>1, <1>2, <1>3 DEF Task
<1>5. Held(t)
  BY <1>1, <1>2, <1>4, ReturnHeld
<1> QED BY <1>5 DEF t

LEMMA AlreadyTerminalHeld ==
    ASSUME SupervisorInv, task.pc \in {"claim", "toRunning"} PROVE Held(AlreadyTerminal)
<1> DEFINE t == Goto(task.after)
<1>1. task \in Task /\ task.after \in PCs /\ task.hist <= Len(log)
  BY DEF SupervisorInv, Held, Task
<1>2. t \in Task /\ t.owner = task.owner /\ t.pc = task.after /\ t.stage = task.stage /\ t.hist = task.hist
  BY <1>1 DEF Goto, Task
<1> HIDE DEF t
<1>3. Held(t)
  BY <1>1, <1>2, ReturnHeld
<1> QED BY <1>3, EndedHeld DEF AlreadyTerminal, t

-----------------------------------------------------------------------------
(* An admitted event is one of the log's.                                  *)
LEMMA AdmittedIsEvent ==
    ASSUME LogTypeOK, NEW k, NEW a \in Actors, NEW p, NEW s \in Stages \cup {"none"}, NEW c \in Nat,
           NEW g \in {0, 1}, append_event(Entry(k, a, p, s, c, g)),
           p \in Nat \/ k \in Outcomes \cup Decisions,
           k = "Prepared" => s \in Stages
    PROVE  Entry(k, a, p, s, c, g) \in Event
<1> DEFINE e == Entry(k, a, p, s, c, g)
<1>1. e.kind = k /\ e.parent = p
  BY DEF Entry
<1>2. k \in Kinds
  <2>1. /\ \/ e.kind \in StateChanges \cup Outcomes \cup PlanDecisions \cup ReviewDecisions \cup Failures
           \/ e.kind \in {"Claimed", "CancelRequested", "Prepared"}
    BY DEF append_event, validate_generic_event, Outcomes, Failures
  <2> QED BY <1>1, <2>1 DEF Kinds, Decisions
<1>3. k \in Outcomes \cup Decisions => p \in DOMAIN log
  <2>1. CASE k \in Observations
    BY <1>1, <2>1, Admission DEF validate_planner_inference_observed
  <2>2. CASE k = "Unknown"
    BY <1>1, <2>2, Admission DEF validate_planner_inference_unknown
  <2>3. CASE k \in Decisions
    BY <1>1, <2>3, Admission DEF validate_decision, Decisions
  <2> QED BY <2>1, <2>2, <2>3 DEF Outcomes
<1>4. p \in Nat
  BY <1>3 DEF LogTypeOK
<1> QED BY <1>2, <1>4 DEF Entry, Event

(* An append of an event of the log is a step of the log's specification.  *)
LEMMA AppendIsLogNext == ASSUME LogTypeOK, NEW e \in Event, append_event(e) PROVE LogNext
<1>1. log'[Len(log) + 1] = e
  BY AppendExtends
<1>2. Len(log') = Len(log) + 1
  BY DEF append_event, LogTypeOK
<1> QED BY <1>1, <1>2 DEF LogNext, Appended

-----------------------------------------------------------------------------
(* What every step is to be: it keeps the invariant, and it is a step of   *)
(* the log or leaves the log alone.                                        *)
Good == SupervisorInv' /\ (LogNext \/ UNCHANGED logVars)

(* The state beside the log, the task and the calls.                       *)
OthersTyped ==
    /\ proc' \in [Actors -> {"new", "up", "stopping", "dead"}]
    /\ token' \in BOOLEAN /\ late' \in BOOLEAN
    /\ cancelling' \in [Actors -> {"no", "finish", "signal", "done"}]
    /\ faults' \in 0..MaxFaults

LEMMA OthersUnchanged ==
    ASSUME TypeOK, UNCHANGED <<proc, token, late, cancelling, faults>> PROVE OthersTyped
BY DEF TypeOK, OthersTyped

(* A step that leaves the log and the calls alone.                         *)
LEMMA QuietStep ==
    ASSUME SupervisorInv, UNCHANGED logVars, UNCHANGED calls, OthersTyped, NEW t, Held(t), task' = t
    PROVE  Good
<1>1. UNCHANGED log /\ UNCHANGED state /\ UNCHANGED leaseLive /\ LogTypeOK
  BY DEF logVars, SupervisorInv, TypeOK
<1>2. LogTypeOK'
  BY <1>1 DEF LogTypeOK
<1>3. LogInv'
  BY LogStepInv DEF SupervisorInv
<1>4. Held(t)'
  BY <1>1, <1>2, StillGrows, HeldLater
<1>5. Held(task)'
  BY <1>4
<1>6. task' \in Task
  BY DEF Held
<1>7. TypeOK'
  BY <1>2, <1>6 DEF SupervisorInv, TypeOK, OthersTyped
<1>8. NoDuplicateCall'
  BY <1>1 DEF SupervisorInv, NoDuplicateCall, Prepared
<1> QED BY <1>3, <1>5, <1>7, <1>8 DEF Good, SupervisorInv

(* A step that appends one event and leaves the calls alone.               *)
LEMMA AppendStep ==
    ASSUME SupervisorInv, NEW e \in Event, append_event(e), UNCHANGED calls, OthersTyped,
           NEW t, task' = t, Held(t)'
    PROVE  Good
<1>1. LogTypeOK /\ LogTypeOK'
  BY AppendExtends DEF SupervisorInv, TypeOK
<1>2. LogNext /\ Grows
  BY <1>1, AppendIsLogNext, AppendGrows
<1>3. LogInv'
  BY <1>2, LogStepInv DEF SupervisorInv
<1>4. Held(task)'
  OBVIOUS
<1>5. task' \in Task
  BY DEF Held
<1>6. TypeOK'
  BY <1>1, <1>5 DEF SupervisorInv, TypeOK, OthersTyped
<1>7. NoDuplicateCall'
  BY <1>2 DEF SupervisorInv, NoDuplicateCall, Grows
<1> QED BY <1>2, <1>3, <1>4, <1>6, <1>7 DEF Good, SupervisorInv

(* An append of a phase, admitted or refused.                              *)
LEMMA AppendThenStep ==
    ASSUME SupervisorInv, task.pc # "none", NEW e, NEW next, AppendThen(e, next), Held(next),
           append_event(e) => e \in Event
    PROVE  Good
<1>1. OthersTyped /\ UNCHANGED calls
  BY OthersUnchanged DEF AppendThen, SupervisorInv
<1>2. CASE append_event(e) /\ task' = next
  <2>1. LogTypeOK /\ LogTypeOK' /\ Grows
    BY <1>2, AppendExtends, AppendGrows DEF SupervisorInv, TypeOK
  <2>2. Held(next)'
    BY <1>1, <2>1, HeldLater
  <2> QED BY <1>1, <1>2, <2>2, AppendStep
<1>3. CASE task' \in OnError /\ UNCHANGED logVars
  <2>1. PICK t \in OnError : task' = t
    BY <1>3
  <2>2. Held(t)
    BY OnErrorHeld
  <2> QED BY <1>1, <1>3, <2>1, <2>2, QuietStep
<1> QED BY <1>2, <1>3 DEF AppendThen

(* A step of the task alone.                                               *)
LEMMA TaskOnlyStep ==
    ASSUME SupervisorInv, TaskOnly, NEW t, Held(t), task' = t PROVE Good
<1>1. OthersTyped /\ UNCHANGED calls /\ UNCHANGED logVars
  BY OthersUnchanged DEF TaskOnly, SupervisorInv
<1> QED BY <1>1, QuietStep

(* The events the supervisor appends are the log's.                        *)
LEMMA PlainIsEvent ==
    ASSUME LogTypeOK, NEW k, NEW a \in Actors, NEW p, append_event(Plain(k, a, p)), k # "Prepared",
           p \in Nat \/ k \in Outcomes \cup Decisions
    PROVE  Plain(k, a, p) \in Event
BY AdmittedIsEvent DEF Plain

LEMMA MeActs ==
    ASSUME SupervisorInv, task.pc # "none"
    PROVE  /\ LogTypeOK /\ me \in Actors /\ Len(log) \in Nat /\ task \in Task /\ task.hist \in Nat
           /\ task.hist <= Len(log) /\ task.stage \in Stages \cup {"none"} /\ task.after \in PCs
           /\ task.goal \in RunStates \cup {"none"}
           /\ latest_cancellation_generation \in {0, 1}
BY DEF SupervisorInv, TypeOK, LogTypeOK, Held, Task, me, latest_cancellation_generation

-----------------------------------------------------------------------------
(* The claim.                                                              *)
LEMMA BeginRunGood == ASSUME SupervisorInv, begin_run PROVE Good
<1>1. task.pc = "claim" /\ task.pc # "none"
  BY DEF begin_run, At
<1>2. /\ LogTypeOK /\ me \in Actors /\ Len(log) \in Nat /\ task \in Task /\ task.hist \in Nat
      /\ latest_cancellation_generation \in {0, 1}
  BY <1>1, MeActs
<1>3. CASE task' = AlreadyTerminal /\ TaskOnly
  BY <1>1, <1>3, AlreadyTerminalHeld, TaskOnlyStep
<1>4. CASE FinishInactiveCancelled
  <2> DEFINE e == Plain("Cancelled", me, Len(log))
  <2>1. Held(AlreadyTerminal)
    BY <1>1, AlreadyTerminalHeld
  <2>2. append_event(e) => e \in Event
    BY <1>2, PlainIsEvent
  <2>3. AppendThen(e, AlreadyTerminal)
    BY <1>4 DEF FinishInactiveCancelled
  <2> HIDE DEF e
  <2> QED BY <1>1, <2>1, <2>2, <2>3, AppendThenStep
<1>5. CASE task' \in (IF Waits THEN {Ended} ELSE OnError) /\ TaskOnly
  <2>1. PICK t \in OnError \cup {Ended} : task' = t
    BY <1>5
  <2>2. Held(t)
    BY <1>1, OnErrorHeld, EndedHeld
  <2> QED BY <1>5, <2>1, <2>2, TaskOnlyStep
<1>6. CASE AppendThen(Claim(me, Len(log), latest_cancellation_generation),
                        IF state \in Inactive
                          THEN [task EXCEPT !.pc = "toRunning", !.hist = Len(log)]
                          ELSE AfterClaim(Len(log)))
  <2> DEFINE e == Claim(me, Len(log), latest_cancellation_generation)
             u == [task EXCEPT !.pc = "toRunning", !.hist = Len(log)]
             next == IF state \in Inactive THEN u ELSE AfterClaim(Len(log))
  <2>1. Held(AfterClaim(Len(log)))
    BY <1>1, <1>2, AfterClaimHeld
  <2>2. Held(u)
    <3>1. "toRunning" \in PCs /\ Len(log) <= Len(log)
      BY <1>2 DEF PCs
    <3>2. u \in Task /\ u.owner = task.owner /\ u.pc = "toRunning" /\ u.after = task.after /\ u.stage = task.stage
          /\ u.hist = Len(log)
      BY <1>2, <3>1 DEF Task
    <3> HIDE DEF u
    <3> QED BY <1>1, <3>1, <3>2 DEF SupervisorInv, Held, InStage, BeforeCall
  <2>3. append_event(e) => e \in Event
    BY <1>2, AdmittedIsEvent DEF Claim
  <2>4. AppendThen(e, next)
    BY <1>6
  <2>5. Held(next)
    BY <2>1, <2>2
  <2> HIDE DEF e, next
  <2> QED BY <1>1, <2>3, <2>4, <2>5, AppendThenStep
<1> QED BY <1>3, <1>4, <1>5, <1>6 DEF begin_run

LEMMA BeginRunningGood == ASSUME SupervisorInv, begin_running PROVE Good
<1> DEFINE e == Plain("Running", me, task.hist + 1)
<1>1. task.pc = "toRunning" /\ AppendThen(e, AfterClaim(task.hist))
  BY DEF begin_running, At
<1>2. LogTypeOK /\ me \in Actors /\ task.hist \in Nat /\ task.hist <= Len(log) /\ task.hist + 1 \in Nat
  BY <1>1, MeActs
<1>3. append_event(e) => e \in Event
  BY <1>2, PlainIsEvent
<1>4. Held(AfterClaim(task.hist))
  BY <1>1, <1>2, AfterClaimHeld
<1> HIDE DEF e
<1> QED BY <1>1, <1>3, <1>4, AppendThenStep

(* What a replay tells the supervisor names a stage and a state.           *)
LEMMA RecoveryTyped ==
    ASSUME LogTypeOK, NEW h \in Nat, h <= Len(log)
    PROVE  LET r == recovery_action(h) IN
           /\ r.stage \in Stages \cup {"none"} /\ r.to \in RunStates \cup {"none"}
           /\ r.act \in {"NextStage", "Observed"} => r.stage \in Stages
<1> DEFINE attempts == {i \in 1..h : log[i].kind = "Prepared"}
           prepared == {p \in attempts : OutcomeIn(h, p) = {}}
           observed == {p \in attempts : /\ DecisionIn(h, p) = {}
                                         /\ \E i \in OutcomeIn(h, p) : log[i].kind # "Unknown"}
           resolved == {i \in 1..h : log[i].kind \in Decisions \cup {"Unknown"}}
           replay(act, p) == [act |-> act, stage |-> log[p].stage, to |-> "none"]
           open == replay("Prepared", CHOOSE p \in prepared : TRUE)
           seen == replay("Observed", CHOOSE p \in observed : TRUE)
           last == Following(CHOOSE i \in resolved : \A j \in resolved : j <= i)
           Typed(r) == /\ r.stage \in Stages \cup {"none"} /\ r.to \in RunStates \cup {"none"}
                       /\ r.act \in {"NextStage", "Observed"} => r.stage \in Stages
<1>1. \A p \in attempts : log[p].stage \in Stages
  BY DEF LogTypeOK, Event
<1>2. prepared # {} => Typed(open)
  BY <1>1
<1>3. observed # {} => Typed(seen)
  BY <1>1
<1>4. /\ \A s \in Stages : Typed(NextStage(s))
      /\ Typed(Finish("Failed")) /\ Typed(Finish("Completed"))
  BY DEF NextStage, Finish, RunStates
<1>5. "InitialPlan" \in Stages /\ "InitialReview" \in Stages /\ "Repair" \in Stages /\ "FinalReview" \in Stages
  BY DEF Stages
<1>6. \A i : Following(i) \in {NextStage("InitialReview"), NextStage("FinalReview"), NextStage("Repair"),
                               Finish("Completed"), Finish("Failed")}
  BY DEF Following
<1>7. Typed(last)
  BY <1>4, <1>5, <1>6
<1>8. \/ recovery_action(h) = Finish("Failed")
      \/ prepared # {} /\ recovery_action(h) = open
      \/ observed # {} /\ recovery_action(h) = seen
      \/ recovery_action(h) = last
      \/ recovery_action(h) = NextStage("InitialPlan")
  <2> DEFINE failed == \E i \in 1..h : log[i].kind \in Failures
  <2>1. recovery_action(h) = IF failed THEN Finish("Failed")
                             ELSE IF prepared # {} THEN open
                             ELSE IF observed # {} THEN seen
                             ELSE IF resolved # {} THEN last
                             ELSE NextStage("InitialPlan")
    BY DEF recovery_action
  <2> HIDE DEF open, seen, last, prepared, observed, resolved, failed
  <2> QED BY <2>1
<1> HIDE DEF open, seen, last, prepared, observed, Typed
<1>9. Typed(recovery_action(h))
  BY <1>2, <1>3, <1>4, <1>5, <1>7, <1>8
<1> QED BY <1>9 DEF Typed

(* A recovered attempt is only ever resolved.                              *)
LEMMA ReplayHeld ==
    ASSUME SupervisorInv, task.pc # "none", NEW s \in Stages \cup {"none"}, NEW cancelled \in BOOLEAN
    PROVE  Held(ReplayPrepared(s, cancelled))
<1> DEFINE u == [task EXCEPT !.stage = s, !.hist = 0]
           v == [u EXCEPT !.pc = "ensure", !.after = "replay", !.goal = "Cancelled"]
           w(to) == [u EXCEPT !.pc = "replay", !.goal = to]
<1>1. task \in Task /\ task.owner \in Actors /\ Len(log) \in Nat /\ 0 <= Len(log)
  BY DEF SupervisorInv, Held, TypeOK, LogTypeOK
<1>2. u \in Task /\ u.owner = task.owner /\ u.hist = 0
  BY <1>1 DEF Task
<1> HIDE DEF u
<1>3. /\ "ensure" \in PCs /\ "replay" \in PCs /\ "replay" \in Calm /\ "replay" \notin NoReturn \cup InCall
      /\ "Cancelled" \in RunStates /\ "Failed" \in RunStates
  BY DEF PCs, Calm, NoReturn, InCall, RunStates
<1>4. Held(v)
  <2>1. v \in Task /\ v.owner = u.owner /\ v.hist = 0 /\ v.pc = "ensure" /\ v.after = "replay"
    BY <1>2, <1>3 DEF Task
  <2> HIDE DEF v
  <2> QED BY <1>1, <1>2, <1>3, <2>1, CalmHeld
<1>5. ASSUME NEW to \in {"Cancelled", "Failed"} PROVE Held(w(to))
  <2>1. w(to) \in Task /\ w(to).owner = u.owner /\ w(to).hist = 0 /\ w(to).pc = "replay"
    BY <1>2, <1>3 DEF Task
  <2> HIDE DEF w
  <2> QED BY <1>1, <1>2, <1>3, <2>1, CalmHeld
<1>6. ReplayPrepared(s, cancelled) \in {v, w("Cancelled"), w("Failed")}
  BY DEF ReplayPrepared, u
<1> QED BY <1>4, <1>5, <1>6

(* The head of the loop.                                                   *)
LEMMA SuperviseGood == ASSUME SupervisorInv, supervise_semantic_run PROVE Good
<1> DEFINE r == recovery_action(task.hist)
           cancelled == CancelledBy(task.hist)
           at == [task EXCEPT !.stage = r.stage, !.hist = 0]
           x == [at EXCEPT !.pc = "decide"]
           y == [at EXCEPT !.pc = "ensure", !.after = "transition", !.goal = "Cancelled"]
           z == [at EXCEPT !.pc = "compile"]
<1>1. task.pc = "loop" /\ task.pc # "none" /\ TaskOnly
  BY DEF supervise_semantic_run, At
<1>2. /\ LogTypeOK /\ task \in Task /\ task.hist \in Nat /\ task.hist <= Len(log) /\ Len(log) \in Nat
      /\ task.owner \in Actors /\ 0 <= Len(log)
  BY <1>1, MeActs DEF me
<1>3. /\ r.stage \in Stages \cup {"none"} /\ r.to \in RunStates \cup {"none"}
      /\ r.act \in {"NextStage", "Observed"} => r.stage \in Stages
  BY <1>2, RecoveryTyped
<1>4. /\ "Cancelled" \in RunStates /\ "Failed" \in RunStates /\ "Waiting" \in RunStates /\ "decide" \in PCs
      /\ "ensure" \in PCs /\ "transition" \in PCs /\ "compile" \in PCs
      /\ "transition" \notin NoReturn \cup InCall /\ cancelled \in BOOLEAN
  BY DEF RunStates, PCs, NoReturn, InCall, CancelledBy
<1>4a. at.stage = r.stage
  BY <1>2 DEF Task
<1>5. \/ task' = Transition("Cancelled")
      \/ task' = ReplayPrepared(r.stage, cancelled)
      \/ task' = Transition("Failed")
      \/ r.act = "Observed" /\ task' = x
      \/ task' = Transition(r.to)
      \/ task' = y
      \/ task' = Transition("Waiting")
      \/ task' = FailStage(r.stage)
      \/ r.act = "NextStage" /\ task' = z
  BY <1>4a DEF supervise_semantic_run, ReplayObserved, BeginStage, DiscoveryEnd
<1> HIDE DEF r, cancelled
<1>6. at \in Task /\ at.owner = task.owner /\ at.hist = 0 /\ at.stage = r.stage
  BY <1>2, <1>3 DEF Task
<1> HIDE DEF at
<1>7. r.act = "Observed" => Held(x)
  <2>1. x \in Task /\ x.owner = at.owner /\ x.hist = 0 /\ x.pc = "decide" /\ x.stage = r.stage
    BY <1>4, <1>6 DEF Task
  <2> HIDE DEF x
  <2> QED BY <1>2, <1>3, <1>4, <1>6, <2>1 DEF Held, InStage, BeforeCall
<1>8. Held(y)
  <2>1. y \in Task /\ y.owner = at.owner /\ y.hist = 0 /\ y.pc = "ensure" /\ y.after = "transition"
    BY <1>4, <1>6 DEF Task
  <2> HIDE DEF y
  <2> QED BY <1>2, <1>4, <1>6, <2>1, CalmHeld
<1>9. r.act = "NextStage" => Held(z)
  <2>1. z \in Task /\ z.owner = at.owner /\ z.hist = 0 /\ z.pc = "compile" /\ z.stage = r.stage
    BY <1>4, <1>6 DEF Task
  <2> HIDE DEF z
  <2> QED BY <1>2, <1>3, <1>4, <1>6, <2>1 DEF Held, InStage, BeforeCall
<1>10. \A to \in RunStates \cup {"none"} : Held(Transition(to))
  BY <1>1, TransitionHeld
<1>11. Held(FailStage(r.stage)) /\ Held(ReplayPrepared(r.stage, cancelled))
  BY <1>1, <1>3, <1>4, FailStageHeld, ReplayHeld
<1> HIDE DEF x, y, z
<1>12. PICK t : task' = t /\ Held(t)
  BY <1>3, <1>4, <1>5, <1>7, <1>8, <1>9, <1>10, <1>11
<1> QED BY <1>1, <1>12, TaskOnlyStep

(* The places named by the steps below.                                    *)
LEMMA Places ==
    /\ \A pc \in {"observeFailed", "reload"} : pc \in Calm
    /\ \A pc \in InCall \cup {"transition", "observedFailed", "cancelledBeforeCall", "unknown"} :
          pc \in PCs /\ pc \notin NoReturn
    /\ \A pc \in {"transition", "observedFailed", "cancelledBeforeCall", "unknown"} : pc \notin InCall
    /\ InCall = {"prepare", "slotBeat", "beat"}
    /\ {"Cancelled", "Failed", "Waiting"} \subseteq RunStates
BY DEF PCs, Calm, NoReturn, InCall, RunStates

(* The stage is compiled.                                                  *)
LEMMA CompileGood == ASSUME SupervisorInv, compile_semantic_stage PROVE Good
<1>1. task.pc = "compile" /\ task.pc # "none" /\ TaskOnly
  BY DEF compile_semantic_stage, At
<1>2. task.stage \in Stages
  BY <1>1 DEF SupervisorInv, Held, InStage
<1>3. task' \in {Transition("Cancelled"), FailStage(task.stage), Renew("prepare")} \cup OnError
  BY DEF compile_semantic_stage
<1>4. Held(Transition("Cancelled")) /\ Held(FailStage(task.stage)) /\ Held(Renew("prepare"))
  BY <1>1, <1>2, Places, TransitionHeld, FailStageHeld, RenewHeld
<1>5. PICK t : task' = t /\ Held(t)
  BY <1>1, <1>3, <1>4, OnErrorHeld
<1> QED BY <1>1, <1>5, TaskOnlyStep

(* The stage is prepared: nobody can have called for it before.            *)
LEMMA PrepareGood == ASSUME SupervisorInv, prepare_semantic_stage PROVE Good
<1> DEFINE e == Preparation(me, Len(log), task.stage, semantic_compile_source(task.stage), 0)
           t == Goto("dispatch")
<1>1. task.pc = "prepare" /\ task.pc # "none"
  BY DEF prepare_semantic_stage, At
<1>2. task.stage \in Stages
  BY <1>1 DEF SupervisorInv, Held, InStage
<1>3. CASE TaskOnly /\ task' \in {Transition("Cancelled"), FailStage(task.stage)} \cup OnError
  <2>1. Held(Transition("Cancelled")) /\ Held(FailStage(task.stage))
    BY <1>1, <1>2, Places, TransitionHeld, FailStageHeld
  <2>2. PICK u : task' = u /\ Held(u)
    BY <1>1, <1>3, <2>1, OnErrorHeld
  <2> QED BY <1>3, <2>2, TaskOnlyStep
<1>4. ASSUME AppendThen(e, t) PROVE Good
  <2>1. OthersTyped /\ UNCHANGED calls
    BY <1>4, OthersUnchanged DEF AppendThen, SupervisorInv
  <2>2. CASE task' \in OnError /\ UNCHANGED logVars
    <3>1. PICK u \in OnError : task' = u
      BY <2>2
    <3>2. Held(u)
      BY <1>1, OnErrorHeld
    <3> QED BY <2>1, <2>2, <3>1, <3>2, QuietStep
  <2>3. CASE append_event(e) /\ task' = t
    <3>1. LogTypeOK /\ me \in Actors /\ Len(log) \in Nat /\ task \in Task /\ task.owner \in Actors /\ task.hist \in Nat
          /\ task.hist <= Len(log)
      BY <1>1, MeActs DEF me
    <3>2. current_plan_base \in Nat
      <4>1. {"PlanAccepted"} \in SUBSET Kinds
        BY DEF Kinds, Decisions, PlanDecisions
      <4>2. CASE Has({"PlanAccepted"})
        <5>1. LastOf({"PlanAccepted"}) \in DOMAIN log
          BY <3>1, <4>1, <4>2, LastIsGreatest DEF SupervisorInv, LogInv
        <5> QED BY <3>1, <4>2, <5>1 DEF current_plan_base, LogTypeOK
      <4> QED BY <4>2 DEF current_plan_base
    <3>3. e \in Event
      <4>1. e.kind = "Prepared" /\ e.ref = semantic_compile_source(task.stage)
        BY DEF Preparation, Entry
      <4>2. semantic_compile_source(task.stage) = current_plan_base
        BY <2>3, <4>1, Admission DEF validate_planner_inference_prepared
      <4> QED BY <1>2, <2>3, <3>1, <3>2, <4>2, AdmittedIsEvent DEF Preparation
    <3>4. e.kind = "Prepared" /\ e.stage = task.stage
      BY DEF Preparation, Entry
    <3> HIDE DEF e
    <3>5. LogTypeOK' /\ DOMAIN log' = 1..Len(log) + 1 /\ log'[Len(log) + 1] = e
      BY <2>3, <3>1, <3>3, AppendExtends
    <3>6. validate_planner_stage_context(e)
      BY <2>3, <3>4, Admission DEF validate_planner_inference_prepared
    <3>7. Prepared(task.stage) = {}
      BY <1>2, <3>4, <3>6 DEF validate_planner_stage_context, Before, Stages
    <3>8. calls[task.stage] = 0
      <4>1. calls[task.stage] \in Nat /\ calls[task.stage] <= 1 /\ calls[task.stage] # 1
        BY <1>2, <3>7 DEF SupervisorInv, TypeOK, NoDuplicateCall
      <4> QED BY <4>1
    <3>9. PICK s \in Stages : s = task.stage
      BY <1>2
    <3>10. Prepared(s)' # {}
      <4>1. Len(log) + 1 \in DOMAIN log' /\ log'[Len(log) + 1].kind = "Prepared" /\ log'[Len(log) + 1].stage = s
        BY <3>1, <3>4, <3>5, <3>9
      <4> QED BY <4>1 DEF Prepared
    <3>11. PICK u : u = t
      OBVIOUS
    <3>12. "dispatch" \in PCs
      BY DEF PCs
    <3>13. u \in Task /\ u.owner = task.owner /\ u.hist = task.hist /\ u.pc = "dispatch" /\ u.stage = s
      BY <3>1, <3>9, <3>11, <3>12 DEF Goto, Task
    <3>14. u.hist <= Len(log')
      BY <2>3, <3>1, <3>13 DEF append_event
    <3>15. Held(u)'
      BY <2>1, <3>1, <3>8, <3>9, <3>10, <3>13, <3>14 DEF Held, InStage, BeforeCall
    <3>16. task' = u
      BY <2>3, <3>11
    <3> QED BY <2>1, <2>3, <3>3, <3>4, <3>15, <3>16, AppendStep
  <2> QED BY <1>4, <2>2, <2>3 DEF AppendThen
<1> QED BY <1>3, <1>4 DEF prepare_semantic_stage

(* Up to the provider's call.                                              *)
LEMMA PreDispatchGood == ASSUME SupervisorInv, pre_dispatch PROVE Good
<1>1. task.pc = "dispatch" /\ task.pc # "none" /\ TaskOnly /\ BeforeCall(task)
  BY DEF pre_dispatch, At, BeforeCall
<1>2. task' \in {Ensure("cancelledBeforeCall", "Cancelled"), Goto("notDispatched"), Goto("slot")}
  BY DEF pre_dispatch
<1>3. Held(Ensure("cancelledBeforeCall", "Cancelled")) /\ Held(Goto("notDispatched")) /\ Held(Goto("slot"))
  BY <1>1, Places, EnsureHeld, WaitHeld
<1>4. PICK t : task' = t /\ Held(t)
  BY <1>2, <1>3
<1> QED BY <1>1, <1>4, TaskOnlyStep

LEMMA OutcomeIsEvent ==
    ASSUME LogTypeOK, NEW k \in Observations, NEW a \in Actors, NEW p,
           append_event(Plain(k, a, p))
    PROVE  Plain(k, a, p) \in Event
BY PlainIsEvent DEF Outcomes

(* An observation of the stage's attempt that ends the run.                *)
LEMMA FailureAppended ==
    ASSUME SupervisorInv, task.pc # "none", NEW to \in RunStates, NEW k \in Observations,
           AppendThen(Plain(k, me, prep), Transition(to))
    PROVE  Good
<1> DEFINE e == Plain(k, me, prep)
<1>1. append_event(e) => e \in Event
  BY MeActs, OutcomeIsEvent
<1>2. Held(Transition(to))
  BY TransitionHeld
<1>3. AppendThen(e, Transition(to))
  OBVIOUS
<1> HIDE DEF e
<1> QED BY <1>1, <1>2, <1>3, AppendThenStep

LEMMA NotDispatchedGood ==
    ASSUME SupervisorInv, append_not_dispatched \/ append_cancelled_before_call PROVE Good
<1>1. task.pc # "none" /\ "NotDispatched" \in Observations
  BY DEF append_not_dispatched, append_cancelled_before_call, At
<1>2. PICK to \in RunStates : AppendThen(Plain("NotDispatched", me, prep), Transition(to))
  BY Places DEF append_not_dispatched, append_cancelled_before_call
<1> QED BY <1>1, <1>2, FailureAppended

LEMMA SlotExitHeld ==
    ASSUME SupervisorInv, task.pc # "none", BeforeCall(task), SlotExit
    PROVE  \E t : task' = t /\ Held(t)
<1>1. task' \in {Ensure("cancelledBeforeCall", "Cancelled"), Ended, Boundary("Failed", FALSE)}
  BY DEF SlotExit
<1>2. Held(Ensure("cancelledBeforeCall", "Cancelled")) /\ Held(Ended) /\ Held(Boundary("Failed", FALSE))
  BY Places, EnsureHeld, EndedHeld, BoundaryHeld
<1> QED BY <1>1, <1>2

LEMMA SlotGood == ASSUME SupervisorInv, await_model_call_slot \/ slot_heartbeat PROVE Good
<1>1. task.pc \in {"slot", "slotBeat"} /\ task.pc # "none" /\ TaskOnly /\ BeforeCall(task)
  BY DEF await_model_call_slot, slot_heartbeat, At, BeforeCall
<1>2. SlotExit \/ task' \in {Ensure("cancelledBeforeCall", "Cancelled"), Goto("granted"), Goto("slot")}
  BY DEF await_model_call_slot, slot_heartbeat
<1>3. Held(Ensure("cancelledBeforeCall", "Cancelled")) /\ Held(Goto("granted")) /\ Held(Goto("slot"))
  BY <1>1, Places, EnsureHeld, WaitHeld
<1>4. PICK t : task' = t /\ Held(t)
  BY <1>1, <1>2, <1>3, SlotExitHeld
<1> QED BY <1>1, <1>4, TaskOnlyStep

(* The provider is called, for the first time for this stage.              *)
LEMMA InferGood == ASSUME SupervisorInv, infer_structured PROVE Good
<1>1. /\ task.pc = "granted" /\ task.pc # "none" /\ BeforeCall(task) /\ UNCHANGED logVars
      /\ UNCHANGED <<proc, token, late, cancelling, faults>>
  BY DEF infer_structured, At, BeforeCall
<1>2. OthersTyped
  BY <1>1, OthersUnchanged DEF SupervisorInv
<1>3. CASE SlotExit /\ UNCHANGED calls
  <2>1. PICK t : task' = t /\ Held(t)
    BY <1>1, <1>3, SlotExitHeld
  <2> QED BY <1>1, <1>2, <1>3, <2>1, QuietStep
<1>4. CASE task' = Goto("calling") /\ calls' = [calls EXCEPT ![task.stage] = @ + 1]
  <2>1. /\ task \in Task /\ task.owner \in Actors /\ task.hist <= Len(log) /\ task.stage \in Stages
        /\ calls[task.stage] = 0 /\ Prepared(task.stage) # {} /\ calls \in [Stages -> Nat] /\ LogTypeOK /\ 0 + 1 = 1
    BY <1>1 DEF SupervisorInv, Held, TypeOK
  <2>2. calls' = [calls EXCEPT ![task.stage] = 1]
    BY <1>4, <2>1
  <2>3. calls' \in [Stages -> Nat] /\ \A s \in Stages : calls'[s] = IF s = task.stage THEN 1 ELSE calls[s]
    BY <2>1, <2>2
  <2>4. UNCHANGED log /\ UNCHANGED state /\ UNCHANGED leaseLive
    BY <1>1 DEF logVars
  <2>5. NoDuplicateCall'
    <3>1. \A s \in Stages : Prepared(s)' = Prepared(s)
      BY <2>4 DEF Prepared
    <3>2. \A s \in Stages : calls'[s] <= 1 /\ (calls'[s] = 1 => Prepared(s) # {})
      BY <2>1, <2>3 DEF SupervisorInv, NoDuplicateCall
    <3> QED BY <3>1, <3>2 DEF NoDuplicateCall
  <2>6. "calling" \in PCs
    BY DEF PCs
  <2>7. task' \in Task /\ task'.owner = task.owner /\ task'.hist = task.hist /\ task'.pc = "calling" /\ task'.stage = task.stage
    BY <1>4, <2>1, <2>6 DEF Goto, Task
  <2>8. Held(task)'
    BY <2>1, <2>4, <2>7 DEF Held, InStage, BeforeCall, NoReturn
  <2>9. LogInv' /\ LogTypeOK'
    BY <1>1, LogStepInv DEF SupervisorInv, LogInv
  <2>10. TypeOK'
    BY <1>2, <2>3, <2>7, <2>9 DEF TypeOK, OthersTyped
  <2> QED BY <1>1, <2>5, <2>8, <2>9, <2>10 DEF Good, SupervisorInv
<1> QED BY <1>3, <1>4 DEF infer_structured

(* While the call runs, and after it.                                      *)
LEMMA CallGood == ASSUME SupervisorInv, inference_ends \/ call_heartbeat PROVE Good
<1>1. task.pc # "none" /\ TaskOnly /\ task.stage \in Stages
  BY DEF inference_ends, call_heartbeat, At, SupervisorInv, Held, InStage
<1>2. task' \in {Boundary("Failed", FALSE), Goto("observeSucceeded"), Goto("observeFailed"),
                 Ensure("unknown", "Cancelled"), Goto("calling")}
  BY DEF inference_ends, call_heartbeat
<1>3. /\ Held(Boundary("Failed", FALSE)) /\ Held(Goto("observeSucceeded")) /\ Held(Goto("observeFailed"))
      /\ Held(Ensure("unknown", "Cancelled")) /\ Held(Goto("calling"))
  BY <1>1, Places, BoundaryHeld, GotoHeld, StageHeld, EnsureHeld
<1>4. PICK t : task' = t /\ Held(t)
  BY <1>2, <1>3
<1> QED BY <1>1, <1>4, TaskOnlyStep

LEMMA HeartbeatGood == ASSUME SupervisorInv, heartbeat PROVE Good
<1>1. /\ task.pc \in {"slot", "calling"} /\ task.pc # "none" /\ UNCHANGED logVars /\ UNCHANGED calls
      /\ UNCHANGED <<proc, token, late, cancelling>> /\ task.stage \in Stages
  BY DEF heartbeat, At, SupervisorInv, Held, InStage, BeforeCall
<1>2. faults' \in 0..MaxFaults
  BY FaultsAssumption DEF heartbeat, SupervisorInv, TypeOK
<1>3. OthersTyped
  BY <1>1, <1>2 DEF OthersTyped, SupervisorInv, TypeOK
<1>4. \/ task.pc = "slot" /\ task' = Renew("slotBeat")
      \/ task' = Renew("beat")
  BY DEF heartbeat, At
<1>5. Held(Renew("beat")) /\ (task.pc = "slot" => Held(Renew("slotBeat")))
  BY <1>1, Places, RenewHeld DEF BeforeCall
<1>6. PICK t : task' = t /\ Held(t)
  BY <1>4, <1>5
<1> QED BY <1>1, <1>3, <1>6, QuietStep

(* The call's outcome is recorded.                                         *)
LEMMA ObservationGood == ASSUME SupervisorInv, append_observation PROVE Good
<1>1. task.pc # "none"
  BY DEF append_observation, At
<1>2. CASE At("observeSucceeded") /\ AppendThen(Plain("Succeeded", me, prep), Goto("decide"))
  <2> DEFINE e == Plain("Succeeded", me, prep)
  <2>1. append_event(e) => e \in Event
    BY <1>1, MeActs, OutcomeIsEvent
  <2>2. Held(Goto("decide")) /\ AppendThen(e, Goto("decide"))
    BY <1>1, <1>2, StageHeld DEF At, SupervisorInv, Held, InStage
  <2> HIDE DEF e
  <2> QED BY <1>1, <2>1, <2>2, AppendThenStep
<1>3. CASE AppendThen(Plain("ObservedFailed", me, prep), Transition("Failed"))
  <2>1. "ObservedFailed" \in Observations /\ "Failed" \in RunStates
    BY Places
  <2> QED BY <1>1, <1>3, <2>1, FailureAppended
<1> QED BY <1>2, <1>3 DEF append_observation, AfterObservation

LEMMA UnknownGood == ASSUME SupervisorInv, append_unknown PROVE Good
<1> DEFINE e == UnknownOutcome(me, prep, latest_cancellation_generation)
<1>1. task.pc # "none" /\ AppendThen(e, Transition(task.goal))
  BY DEF append_unknown
<1>2. append_event(e) => e \in Event
  BY <1>1, MeActs, AdmittedIsEvent DEF UnknownOutcome, Outcomes
<1>3. Held(Transition(task.goal))
  BY <1>1, MeActs, TransitionHeld
<1> HIDE DEF e
<1> QED BY <1>1, <1>2, <1>3, AppendThenStep

LEMMA DecideGood == ASSUME SupervisorInv, decide_observed PROVE Good
<1>1. task.pc = "decide" /\ task.pc # "none"
  BY DEF decide_observed, At
<1>2. CASE task' \in {Transition("Cancelled"), Renew("observedFailed")} /\ TaskOnly
  <2>1. Held(Transition("Cancelled")) /\ Held(Renew("observedFailed"))
    BY <1>1, Places, TransitionHeld, RenewHeld
  <2>2. PICK t : task' = t /\ Held(t)
    BY <1>2, <2>1
  <2> QED BY <1>2, <2>2, TaskOnlyStep
<1>3. ASSUME NEW k \in DecisionKinds(task.stage), AppendThen(Plain(k, me, obs), Goto("reload")) PROVE Good
  <2> DEFINE e == Plain(k, me, obs)
  <2>1. append_event(e) => e \in Event
    <3>1. SUFFICES ASSUME append_event(e) PROVE e \in Event
      OBVIOUS
    <3>2. e.kind = k
      BY DEF Plain, Entry
    <3>3. k \in Decisions
      <4>1. task.stage \in Stages
        BY <1>1 DEF SupervisorInv, Held, InStage
      <4> QED BY <1>3, <4>1 DEF DecisionKinds, ReviewKinds, Decisions, PlanDecisions, ReviewDecisions
    <3> QED BY <1>1, <3>1, <3>2, <3>3, MeActs, PlainIsEvent DEF Decisions, PlanDecisions, ReviewDecisions
  <2>2. Held(Goto("reload")) /\ AppendThen(e, Goto("reload"))
    BY <1>1, <1>3, Places, GotoHeld
  <2> HIDE DEF e
  <2> QED BY <1>1, <1>3, <2>1, <2>2, AppendThenStep
<1> QED BY <1>2, <1>3 DEF decide_observed

(* A claim is renewed on the way to a known end.                           *)
LEMMA EndingHeld ==
    ASSUME SupervisorInv, task.pc # "none", NEW to \in RunStates
    PROVE  Held([Renew("transition") EXCEPT !.goal = to])
<1> DEFINE u == Renew("transition")
           t == [u EXCEPT !.goal = to]
<1>1. task \in Task /\ task.owner \in Actors /\ task.hist <= Len(log)
  BY DEF SupervisorInv, Held
<1>2. "claim" \in PCs /\ "transition" \in PCs /\ "transition" \notin NoReturn \cup InCall
  BY DEF PCs, NoReturn, InCall
<1>3. u \in Task /\ u.owner = task.owner /\ u.hist = task.hist /\ u.pc = "claim" /\ u.after = "transition"
  BY <1>1, <1>2 DEF Renew, Task
<1> HIDE DEF u
<1>4. t \in Task /\ t.owner = u.owner /\ t.hist = u.hist /\ t.pc = u.pc /\ t.after = u.after
  BY <1>3 DEF Task
<1> HIDE DEF t
<1>5. Held(t)
  BY <1>1, <1>2, <1>3, <1>4, CalmHeld
<1> QED BY <1>5 DEF t, u

(* A failure of a stage is recorded, then ends the run.                    *)
LEMMA StageFailureAppended ==
    ASSUME SupervisorInv, task.pc # "none", NEW next, Held(next),
           AppendThen(StageFailure(me, Len(log), task.stage), next)
    PROVE  Good
<1> DEFINE e == StageFailure(me, Len(log), task.stage)
<1>1. append_event(e) => e \in Event
  BY MeActs, AdmittedIsEvent DEF StageFailure
<1>2. AppendThen(e, next)
  OBVIOUS
<1> HIDE DEF e
<1> QED BY <1>1, <1>2, AppendThenStep

(* An event that is no preparation is appended on top of the log.          *)
LEMMA PlainAppended ==
    ASSUME SupervisorInv, task.pc # "none", NEW k, k # "Prepared",
           NEW next, Held(next), AppendThen(Plain(k, me, Len(log)), next)
    PROVE  Good
<1> DEFINE e == Plain(k, me, Len(log))
<1>1. append_event(e) => e \in Event
  BY MeActs, PlainIsEvent
<1>2. AppendThen(e, next)
  OBVIOUS
<1> HIDE DEF e
<1> QED BY <1>1, <1>2, AppendThenStep

LEMMA ObservedFailedGood == ASSUME SupervisorInv, fail_observed_semantic_stage PROVE Good
<1> DEFINE EndAs(to) == [Renew("transition") EXCEPT !.goal = to]
<1>1. task.pc # "none"
  BY DEF fail_observed_semantic_stage, At
<1>2. Held(EndAs("Cancelled")) /\ Held(EndAs("Failed")) /\ Held(Ended)
  BY <1>1, Places, EndingHeld, EndedHeld
<1>3. \/ task' \in {EndAs("Cancelled"), Ended} /\ TaskOnly
      \/ AppendThen(StageFailure(me, Len(log), task.stage), EndAs("Failed"))
  BY DEF fail_observed_semantic_stage
<1> HIDE DEF EndAs
<1>4. CASE task' \in {EndAs("Cancelled"), Ended} /\ TaskOnly
  <2>1. PICK t : task' = t /\ Held(t)
    BY <1>2, <1>4
  <2> QED BY <1>4, <2>1, TaskOnlyStep
<1>5. CASE AppendThen(StageFailure(me, Len(log), task.stage), EndAs("Failed"))
  BY <1>1, <1>2, <1>5, StageFailureAppended
<1> QED BY <1>3, <1>4, <1>5

LEMMA PlanningFailedGood == ASSUME SupervisorInv, append_root_planning_failure PROVE Good
<1> DEFINE EndAs(to) == [Renew("transition") EXCEPT !.goal = to]
           next == IF token THEN Ensure("transition", "Cancelled") ELSE EndAs("Failed")
<1>1. task.pc # "none"
  BY DEF append_root_planning_failure, At
<1>2. Held(EndAs("Cancelled")) /\ Held(EndAs("Failed")) /\ Held(Ended) /\ Held(Ensure("transition", "Cancelled"))
  BY <1>1, Places, EndingHeld, EndedHeld, EnsureHeld
<1>3. \/ task' \in {EndAs("Cancelled"), Ended} /\ TaskOnly
      \/ AppendThen(Plain("PlanningFailed", me, Len(log)), next)
  BY DEF append_root_planning_failure
<1> HIDE DEF EndAs
<1>4. Held(next)
  BY <1>2
<1> HIDE DEF next
<1>5. CASE task' \in {EndAs("Cancelled"), Ended} /\ TaskOnly
  <2>1. PICK t : task' = t /\ Held(t)
    BY <1>2, <1>5
  <2> QED BY <1>5, <2>1, TaskOnlyStep
<1>6. CASE AppendThen(Plain("PlanningFailed", me, Len(log)), next)
  BY <1>1, <1>4, <1>6, PlainAppended
<1> QED BY <1>3, <1>5, <1>6

LEMMA StageFailedGood == ASSUME SupervisorInv, append_root_planning_stage_failure PROVE Good
<1>1. task.pc # "none"
  BY DEF append_root_planning_stage_failure, At
<1>2. Held(Transition("Cancelled")) /\ Held(Transition("Failed")) /\ Held(Ended)
  BY <1>1, Places, TransitionHeld, EndedHeld
<1>3. \/ task' \in {Transition("Cancelled"), Ended} /\ TaskOnly
      \/ AppendThen(StageFailure(me, Len(log), task.stage), Transition("Failed"))
  BY DEF append_root_planning_stage_failure
<1>4. CASE task' \in {Transition("Cancelled"), Ended} /\ TaskOnly
  <2>1. PICK t : task' = t /\ Held(t)
    BY <1>2, <1>4
  <2> QED BY <1>4, <2>1, TaskOnlyStep
<1>5. CASE AppendThen(StageFailure(me, Len(log), task.stage), Transition("Failed"))
  BY <1>1, <1>2, <1>5, StageFailureAppended
<1> QED BY <1>3, <1>4, <1>5

(* A cancellation is made durable before the task acts on it.              *)
LEMMA EnsureGood == ASSUME SupervisorInv, ensure_durable_cancellation PROVE Good
<1>1. task.pc = "ensure" /\ task.pc # "none"
  BY DEF ensure_durable_cancellation, At
<1>2. task.after \in PCs /\ task.after \notin NoReturn \cup InCall
  BY <1>1, MeActs DEF SupervisorInv, Held
<1>3. Held(Renew(task.after))
  BY <1>1, <1>2, RenewHeld DEF InCall, BeforeCall
<1>4. \/ task' = Renew(task.after) /\ TaskOnly
      \/ AppendThen(Plain("CancelRequested", me, Len(log)), Renew(task.after))
  BY DEF ensure_durable_cancellation
<1>5. CASE task' = Renew(task.after) /\ TaskOnly
  <2>1. PICK t : task' = t /\ Held(t)
    BY <1>3, <1>5
  <2> QED BY <1>5, <2>1, TaskOnlyStep
<1>6. CASE AppendThen(Plain("CancelRequested", me, Len(log)), Renew(task.after))
  BY <1>1, <1>3, <1>6, PlainAppended
<1> QED BY <1>4, <1>5, <1>6

LEMMA ReloadGood == ASSUME SupervisorInv, reload_run_and_history PROVE Good
<1> DEFINE t == [task EXCEPT !.pc = "loop", !.hist = Len(log), !.stage = "none"]
<1>1. task.pc # "none" /\ TaskOnly /\ task' = t
  BY DEF reload_run_and_history, At
<1>2. task \in Task /\ task.owner \in Actors /\ Len(log) \in Nat
  BY <1>1, MeActs DEF me
<1>3. "loop" \in PCs /\ "loop" \in Calm
  BY DEF PCs, Calm
<1>4. t \in Task /\ t.owner = task.owner /\ t.hist = Len(log) /\ t.pc = "loop"
  BY <1>2, <1>3 DEF Task
<1> HIDE DEF t
<1>5. t.hist <= Len(log)
  BY <1>2, <1>4
<1>6. Held(t)
  BY <1>2, <1>3, <1>4, <1>5, CalmHeld
<1>7. PICK u : u = t
  OBVIOUS
<1> QED BY <1>1, <1>6, <1>7, TaskOnlyStep

(* The run's state changes.                                                *)
LEMMA TransitionGood == ASSUME SupervisorInv, transition_run PROVE Good
<1> DEFINE target == IF Cancelled THEN "Cancelled" ELSE task.goal
<1>1. task.pc # "none"
  BY DEF transition_run, At
<1>2. target \in RunStates \cup {"none"}
  BY <1>1, MeActs, Places
<1>3. Held(Ended)
  BY EndedHeld
<1>4. \/ task' = Ended /\ TaskOnly
      \/ AppendThen(Plain(target, me, Len(log)), Ended)
  BY DEF transition_run
<1> HIDE DEF target
<1>5. target # "Prepared"
  BY <1>2 DEF RunStates
<1>6. CASE task' = Ended /\ TaskOnly
  BY <1>3, <1>6, TaskOnlyStep
<1>7. CASE AppendThen(Plain(target, me, Len(log)), Ended)
  BY <1>1, <1>3, <1>5, <1>7, PlainAppended
<1> QED BY <1>4, <1>6, <1>7

LEMMA StoreErrorGood == ASSUME SupervisorInv, StoreError PROVE Good
<1>1. /\ task.pc # "none" /\ UNCHANGED logVars /\ UNCHANGED calls
      /\ UNCHANGED <<proc, token, late, cancelling>>
  BY DEF StoreError
<1>2. faults' \in 0..MaxFaults
  BY FaultsAssumption DEF StoreError, SupervisorInv, TypeOK
<1>3. OthersTyped
  BY <1>1, <1>2 DEF OthersTyped, SupervisorInv, TypeOK
<1>4. PICK t \in OnError : task' = t
  BY DEF StoreError
<1>5. Held(t)
  BY <1>1, OnErrorHeld
<1> QED BY <1>1, <1>3, <1>4, <1>5, QuietStep

LEMMA TaskStepGood == ASSUME SupervisorInv, TaskStep PROVE Good
BY BeginRunGood, BeginRunningGood, SuperviseGood, CompileGood, PrepareGood, PreDispatchGood,
   NotDispatchedGood, SlotGood, InferGood, CallGood, HeartbeatGood, ObservationGood, UnknownGood,
   DecideGood, ObservedFailedGood, PlanningFailedGood, StageFailedGood, EnsureGood, ReloadGood,
   TransitionGood, StoreErrorGood
   DEF TaskStep

-----------------------------------------------------------------------------
(* The cancellation handler, the processes and the clock.                  *)

LEMMA TaskHeld == ASSUME SupervisorInv PROVE \E t : task = t /\ Held(t)
BY DEF SupervisorInv

(* A step that leaves the log, the task and the calls alone.               *)
LEMMA BesideStep ==
    ASSUME SupervisorInv, UNCHANGED logVars, UNCHANGED calls, UNCHANGED task, OthersTyped PROVE Good
<1>1. PICK t : task = t /\ Held(t)
  BY TaskHeld
<1> QED BY <1>1, QuietStep

(* An event the cancellation handler appends.                              *)
LEMMA HandlerAppends ==
    ASSUME SupervisorInv, UNCHANGED task, UNCHANGED calls, OthersTyped, NEW a \in Actors,
           NEW k \in {"CancelRequested", "Cancelled"}, NEW p, append_event(Plain(k, a, p))
    PROVE  Good
<1> DEFINE e == Plain(k, a, p)
<1>1. LogTypeOK /\ Len(log) \in Nat
  BY DEF SupervisorInv, TypeOK, LogTypeOK
<1>2. e.kind = k /\ e.parent = p /\ k # "Prepared"
  BY DEF Plain, Entry
<1>3. p = Len(log)
  <2>1. k = "Cancelled" => validate_run_state_change(e)
    BY <1>2, Admission DEF StateChanges, RunStates
  <2>2. k = "CancelRequested" => validate_cancellation(e)
    BY <1>2, Admission
  <2> QED BY <1>2, <2>1, <2>2 DEF validate_run_state_change, validate_cancellation, require_latest_run_parent
<1>4. e \in Event
  BY <1>1, <1>2, <1>3, PlainIsEvent
<1> HIDE DEF e
<1>5. append_event(e)
  BY DEF e
<1>6. PICK t : task = t /\ Held(t)
  BY TaskHeld
<1>7. LogTypeOK' /\ Grows
  BY <1>1, <1>4, <1>5, AppendExtends, AppendGrows
<1>8. Held(t)'
  BY <1>1, <1>6, <1>7, HeldLater
<1>9. task' = t
  BY <1>6
<1> QED BY <1>2, <1>4, <1>5, <1>8, <1>9, AppendStep

LEMMA CancelGood == ASSUME SupervisorInv, NEW a \in Actors, cancel_run(a) PROVE Good
<1>1. /\ UNCHANGED task /\ UNCHANGED calls /\ UNCHANGED <<proc, token, late, faults>>
      /\ cancelling' = [cancelling EXCEPT ![a] = "finish"]
  BY DEF cancel_run, CancelOnly
<1>2. OthersTyped
  BY <1>1 DEF OthersTyped, SupervisorInv, TypeOK
<1>3. UNCHANGED logVars \/ append_event(Plain("CancelRequested", a, Len(log)))
  BY DEF cancel_run
<1> QED BY <1>1, <1>2, <1>3, BesideStep, HandlerAppends

LEMMA CancelStepGood == ASSUME SupervisorInv, NEW a \in Actors, CancelStep(a) PROVE Good
<1>1. /\ UNCHANGED task /\ UNCHANGED calls /\ UNCHANGED <<proc, late, faults>>
      /\ \/ cancelling' = [cancelling EXCEPT ![a] = "signal"]
         \/ cancelling' = [cancelling EXCEPT ![a] = "done"]
  BY DEF CancelStep, finish_inactive_cancellation, signal, CancelOnly
<1>2. token' \in BOOLEAN
  <2>1. CASE finish_inactive_cancellation(a)
    BY <2>1 DEF finish_inactive_cancellation, SupervisorInv, TypeOK
  <2>2. CASE signal(a)
    <3>1. token' = (token \/ me = a)
      BY <2>2 DEF signal
    <3> QED BY <3>1
  <2> QED BY <2>1, <2>2 DEF CancelStep
<1>3. OthersTyped
  BY <1>1, <1>2 DEF OthersTyped, SupervisorInv, TypeOK
<1>4. UNCHANGED logVars \/ append_event(Plain("Cancelled", a, LastOf({"CancelRequested"})))
  BY DEF CancelStep, finish_inactive_cancellation, signal
<1> QED BY <1>1, <1>3, <1>4, BesideStep, HandlerAppends

LEMMA StartGood == ASSUME SupervisorInv, NEW a \in Actors, Start(a) PROVE Good
<1> DEFINE t == [Ended EXCEPT !.owner = a, !.pc = "claim", !.after = "loop"]
<1>1. /\ task' = t /\ token' = FALSE /\ UNCHANGED logVars /\ UNCHANGED calls
      /\ UNCHANGED <<proc, late, cancelling, faults>>
  BY DEF Start
<1>2. OthersTyped
  BY <1>1 DEF OthersTyped, SupervisorInv, TypeOK
<1>3. "claim" \in PCs /\ "loop" \in PCs /\ "loop" \notin NoReturn \cup InCall
  BY DEF PCs, NoReturn, InCall
<1>4. Ended \in Task /\ Ended.hist = 0 /\ Len(log) \in Nat
  BY EndedHeld DEF Held, Ended, SupervisorInv, TypeOK, LogTypeOK
<1>5. t \in Task /\ t.owner = a /\ t.pc = "claim" /\ t.after = "loop" /\ t.hist = 0
  BY <1>3, <1>4 DEF Ended, Task
<1> HIDE DEF t
<1>6. Held(t)
  BY <1>3, <1>4, <1>5, CalmHeld
<1>7. PICK u : u = t
  OBVIOUS
<1> QED BY <1>1, <1>2, <1>6, <1>7, QuietStep

LEMMA ProcessGood ==
    ASSUME SupervisorInv, NEW a \in Actors, Boot(a) \/ Crash(a) \/ Shutdown(a) \/ Exit(a) PROVE Good
<1>1. /\ UNCHANGED logVars /\ UNCHANGED <<late, faults>> /\ UNCHANGED calls
      /\ \/ proc' = [proc EXCEPT ![a] = "up"]
         \/ proc' = [proc EXCEPT ![a] = "dead"]
         \/ proc' = [proc EXCEPT ![a] = "stopping"]
      /\ \/ UNCHANGED cancelling
         \/ cancelling' = [cancelling EXCEPT ![a] = "done"]
      /\ \/ UNCHANGED task /\ UNCHANGED token
         \/ task' = Ended /\ token' = FALSE
  BY DEF Boot, Crash, Shutdown, Exit, Dies
<1>2. OthersTyped
  BY <1>1 DEF OthersTyped, SupervisorInv, TypeOK
<1>3. PICK t : task' = t /\ Held(t)
  BY <1>1, TaskHeld, EndedHeld
<1> QED BY <1>1, <1>2, <1>3, QuietStep

LEMMA DeadlineGood == ASSUME SupervisorInv, PassDeadline PROVE Good
<1>1. OthersTyped
  BY DEF PassDeadline, OthersTyped, SupervisorInv, TypeOK
<1> QED BY <1>1, BesideStep DEF PassDeadline

LEMMA LeaseGood == ASSUME SupervisorInv, LeaseLapses PROVE Good
<1>1. /\ LogNext /\ UNCHANGED <<log, state>> /\ leaseLive' = FALSE /\ UNCHANGED task /\ UNCHANGED calls
      /\ UNCHANGED <<proc, token, late, cancelling>>
  BY DEF LeaseLapses, ExpireLease, LogNext
<1>2. faults' \in 0..MaxFaults
  BY FaultsAssumption DEF LeaseLapses, SupervisorInv, TypeOK
<1>3. OthersTyped
  BY <1>1, <1>2 DEF OthersTyped, SupervisorInv, TypeOK
<1>4. LogTypeOK /\ LogTypeOK'
  BY <1>1 DEF SupervisorInv, TypeOK, LogTypeOK
<1>5. LogInv'
  BY <1>1, LogStepInv DEF SupervisorInv
<1>6. PICK t : task = t /\ Held(t)
  BY TaskHeld
<1>7. Held(t)'
  BY <1>1, <1>4, <1>6, StillGrows, HeldLater
<1>8. Held(task)'
  BY <1>1, <1>6, <1>7
<1>9. TypeOK'
  BY <1>1, <1>3, <1>4 DEF SupervisorInv, TypeOK, OthersTyped
<1>10. NoDuplicateCall'
  BY <1>1 DEF SupervisorInv, NoDuplicateCall, Prepared
<1> QED BY <1>1, <1>5, <1>8, <1>9, <1>10 DEF Good, SupervisorInv

LEMMA NextGood == ASSUME SupervisorInv, Next PROVE Good
<1>1. CASE \E a \in Actors : \/ Start(a) \/ cancel_run(a) \/ CancelStep(a)
                             \/ Boot(a) \/ Crash(a) \/ Shutdown(a) \/ Exit(a)
  BY <1>1, StartGood, CancelGood, CancelStepGood, ProcessGood
<1> QED BY <1>1, TaskStepGood, DeadlineGood, LeaseGood DEF Next

LEMMA StutterGood == ASSUME SupervisorInv, UNCHANGED vars PROVE Good
<1>1. /\ UNCHANGED logVars /\ UNCHANGED calls /\ UNCHANGED task
      /\ UNCHANGED <<proc, token, late, cancelling, faults>>
  BY DEF vars, taskVars
<1>2. OthersTyped
  BY <1>1, OthersUnchanged DEF SupervisorInv
<1> QED BY <1>1, <1>2, BesideStep

LEMMA SupervisorStarts == Init => SupervisorInv /\ LogInit
<1> SUFFICES ASSUME Init PROVE SupervisorInv
  BY DEF Init
<1>1. LogInv /\ LogTypeOK
  BY LogInitInv DEF Init, LogInv
<1>2. "none" \in PCs
  BY DEF PCs
<1>3. Ended \in Task /\ Ended.pc = "none" /\ Ended.hist = 0
  BY <1>2 DEF Ended, Task
<1>4. Len(log) \in Nat
  BY <1>1 DEF LogTypeOK
<1>5. Held(task)
  BY <1>3, <1>4 DEF Init, Held, InStage, BeforeCall
<1>6. NoDuplicateCall
  BY DEF Init, NoDuplicateCall
<1>7. TypeOK
  <2>1. 0 \in 0..MaxFaults
    BY FaultsAssumption
  <2>2. calls \in [Stages -> Nat] /\ token \in BOOLEAN /\ late \in BOOLEAN
    BY DEF Init
  <2>3. proc \in [Actors -> {"new", "up", "stopping", "dead"}]
    BY DEF Init
  <2>4. cancelling \in [Actors -> {"no", "finish", "signal", "done"}]
    BY DEF Init
  <2> QED BY <1>1, <1>3, <2>1, <2>2, <2>3, <2>4 DEF Init, TypeOK
<1> QED BY <1>1, <1>5, <1>6, <1>7 DEF SupervisorInv

LEMMA SupervisorSteps == SupervisorInv /\ [Next]_vars => Good
BY NextGood, StutterGood

-----------------------------------------------------------------------------
(* Where the log and the task stand to each other.                         *)

(* The log tells of stage s by an outcome of one of these kinds.           *)
Told(K, s) == \E k \in DOMAIN log : log[k].kind \in K /\ log[log[k].parent].stage = s

(* A stage's call was observed to succeed.                                 *)
SucceededStage(s) == Told({"Succeeded"}, s)

(* The observations of a call that was made.                               *)
Answers == {"Succeeded", "ObservedFailed"}

PredecessorsSucceeded ==
    \A i \in DOMAIN log : log[i].kind = "Prepared" =>
        \A s \in Before[log[i].stage] : SucceededStage(s)

RepairsAuthorized ==
    Prepared("Repair") # {} =>
        \E r \in DOMAIN log : /\ log[r].kind = "RepairOnceAuthorized"
                              /\ log[AttemptOf(r)].stage = "InitialReview"

CallsWereMade ==
    \A s \in Stages : /\ Told(Answers, s) => calls[s] = 1
                      /\ Told({"NotDispatched"}, s) => calls[s] = 0

(* An attempt of stage s, prepared by a, has no outcome yet; or it has one *)
(* to decide on.                                                           *)
Open(s, a) == \E p \in Prepared(s) : inference_terminal_count(p) = {} /\ log[p].actor = a
Undecided(s) == \E p \in Prepared(s) :
    /\ DecisionsOf(p) = {}
    /\ \E i \in inference_terminal_count(p) : log[i].kind # "Unknown"

(* The task waits for the provider's answer, or holds it.                  *)
Calling(t) == \/ t.pc \in {"calling", "beat", "observeSucceeded", "observeFailed"}
              \/ (t.pc = "claim" /\ t.after = "beat")

(* It drives an attempt it has prepared.                                   *)
Driving(t) == \/ Calling(t)
              \/ t.pc \in {"dispatch", "notDispatched", "slot", "slotBeat", "granted"}
              \/ (t.pc = "claim" /\ t.after = "slotBeat")

(* What the log gains between a replay and the head of the loop.           *)
Between == {"Claimed", "CancelRequested", "Running"}

ClaimedBy(a) == Has({"Claimed"}) /\ log[latest_claim_for_run].actor = a

Placed(t) ==
    /\ Driving(t) => /\ state = "Running" /\ ~Has(Failures) /\ t.stage \in Stages
                     /\ Open(t.stage, t.owner) /\ ClaimedBy(t.owner)
    /\ Calling(t) => calls[t.stage] = 1
    /\ t.pc = "toRunning" => t.after \notin {"slotBeat", "beat"}
    /\ t.pc = "decide" => /\ state = "Running" /\ ~Has(Failures)
                          /\ t.stage \in Stages /\ Undecided(t.stage)
    /\ t.pc = "reload" => state = "Running"
    /\ t.pc = "loop" => /\ state = "Running"
                        /\ \A j \in t.hist + 1..Len(log) : log[j].kind \in Between

PlaceInv == /\ SupervisorInv /\ PredecessorsSucceeded /\ RepairsAuthorized
            /\ CallsWereMade /\ Placed(task)

(* The log after an append, whatever the event.                            *)
LEMMA Extended ==
    ASSUME LogTypeOK, NEW e, log' = Append(log, e)
    PROVE  /\ Len(log) \in Nat /\ Len(log') = Len(log) + 1
           /\ DOMAIN log = 1..Len(log) /\ DOMAIN log' = 1..Len(log) + 1
           /\ \A i \in DOMAIN log : log'[i] = log[i]
           /\ log'[Len(log) + 1] = e
BY DEF LogTypeOK

(* What a decision and an outcome point at is in the log.                  *)
LEMMA PointsBack ==
    ASSUME LogInv
    PROVE  /\ \A i \in DOMAIN log : log[i].kind \in Outcomes =>
                log[i].parent \in DOMAIN log /\ log[log[i].parent].kind = "Prepared"
           /\ \A i \in DOMAIN log : log[i].kind \in Decisions =>
                /\ log[i].parent \in DOMAIN log /\ log[log[i].parent].kind = "Succeeded"
                /\ AttemptOf(i) = log[log[i].parent].parent
                /\ AttemptOf(i) \in DOMAIN log /\ log[AttemptOf(i)].kind = "Prepared"
<1>1. ASSUME NEW i \in DOMAIN log, log[i].kind \in Outcomes
      PROVE  log[i].parent \in DOMAIN log /\ log[log[i].parent].kind = "Prepared"
  <2>1. log[i].parent \in 1..i - 1 /\ log[log[i].parent].kind = "Prepared"
    BY <1>1 DEF LogInv, OutcomesPointBack
  <2>2. DOMAIN log = 1..Len(log) /\ Len(log) \in Nat
    BY DEF LogInv, LogTypeOK
  <2> QED BY <2>1, <2>2
<1>2. ASSUME NEW i \in DOMAIN log, log[i].kind \in Decisions
      PROVE  /\ log[i].parent \in DOMAIN log /\ log[log[i].parent].kind = "Succeeded"
             /\ AttemptOf(i) = log[log[i].parent].parent
             /\ AttemptOf(i) \in DOMAIN log /\ log[AttemptOf(i)].kind = "Prepared"
  BY <1>1, <1>2 DEF LogInv, OutcomesAreFinal, AttemptOf, Outcomes
<1> QED BY <1>1, <1>2

(* What is told stays told, and only an event of the kinds adds to it.     *)
LEMMA ToldGrows ==
    ASSUME LogInv, NEW e, log' = Append(log, e), NEW s, NEW K \in SUBSET Outcomes
    PROVE  /\ Told(K, s) => Told(K, s)'
           /\ Told(K, s)' => Told(K, s) \/ (e.kind \in K /\ log'[e.parent].stage = s)
<1>1. /\ Len(log) \in Nat /\ DOMAIN log = 1..Len(log) /\ DOMAIN log' = 1..Len(log) + 1
      /\ \A i \in DOMAIN log : log'[i] = log[i]
      /\ log'[Len(log) + 1] = e
  BY Extended DEF LogInv
<1>2. \A k \in DOMAIN log : log[k].kind \in K => log[k].parent \in DOMAIN log
  BY PointsBack
<1>3. ASSUME Told(K, s) PROVE Told(K, s)'
  <2>1. PICK k \in DOMAIN log : log[k].kind \in K /\ log[log[k].parent].stage = s
    BY <1>3 DEF Told
  <2>2. k \in DOMAIN log' /\ log'[k] = log[k] /\ log'[log[k].parent] = log[log[k].parent]
    BY <1>1, <1>2, <2>1
  <2> QED BY <2>1, <2>2 DEF Told
<1>4. ASSUME Told(K, s)', ~Told(K, s) PROVE e.kind \in K /\ log'[e.parent].stage = s
  <2>1. PICK k \in DOMAIN log' : log'[k].kind \in K /\ log'[log'[k].parent].stage = s
    BY <1>4 DEF Told
  <2>2. CASE k \in DOMAIN log
    <3>1. log'[k] = log[k] /\ log'[log[k].parent] = log[log[k].parent]
      BY <1>1, <1>2, <2>1, <2>2
    <3> QED BY <1>4, <2>1, <2>2, <3>1 DEF Told
  <2>3. CASE k = Len(log) + 1
    BY <1>1, <2>1, <2>3
  <2>4. k \in DOMAIN log \/ k = Len(log) + 1
    BY <1>1, <2>1
  <2> QED BY <2>2, <2>3, <2>4
<1> QED BY <1>3, <1>4

(* A stage is prepared only once those before it succeeded: the candidate  *)
(* and the authorisation it is bound to decide on their observations.      *)
LEMMA PredecessorsKept ==
    ASSUME LogInv, LogTypeOK', PredecessorsSucceeded, NEW e, append_event(e) PROVE PredecessorsSucceeded'
<1>1. /\ Len(log) \in Nat /\ DOMAIN log = 1..Len(log) /\ DOMAIN log' = 1..Len(log) + 1
      /\ \A i \in DOMAIN log : log'[i] = log[i]
      /\ log'[Len(log) + 1] = e
  BY Extended DEF LogInv, append_event
<1>2. \A s : SucceededStage(s) => SucceededStage(s)'
  <2>1. {"Succeeded"} \in SUBSET Outcomes
    BY DEF Outcomes
  <2> QED BY <2>1, ToldGrows DEF append_event, SucceededStage
<1>3. ASSUME NEW c \in DOMAIN log, log[c].kind \in Decisions
      PROVE  /\ SucceededStage(log[AttemptOf(c)].stage)
             /\ \A s \in Before[log[AttemptOf(c)].stage] : SucceededStage(s)
  BY <1>3, PointsBack DEF SucceededStage, Told, PredecessorsSucceeded
<1>4. ASSUME e.kind = "Prepared", NEW s \in Before[e.stage] PROVE SucceededStage(s)
  <2>1. StageCandidate(e) /\ \A t \in Stages : Prepared(t) # {} <=> t \in Before[e.stage]
    BY <1>4, Admission DEF validate_planner_inference_prepared, validate_planner_stage_context
  <2>2. /\ "PlanAccepted" \in Decisions /\ "RepairOnceAuthorized" \in Decisions
        /\ Before["InitialPlan"] = {} /\ Before["InitialReview"] = {"InitialPlan"}
        /\ Before["Repair"] = {"InitialPlan", "InitialReview"}
        /\ Before["FinalReview"] = {"InitialPlan", "InitialReview", "Repair"}
    BY DEF Decisions, PlanDecisions, ReviewDecisions, Before, Stages
  <2>3. CASE e.stage = "InitialPlan"
    BY <1>4, <2>2, <2>3
  <2>4. CASE e.stage = "InitialReview"
    BY <1>3, <1>4, <2>1, <2>2, <2>4 DEF StageCandidate, validate_candidate_binding
  <2>5. CASE e.stage = "Repair"
    BY <1>3, <1>4, <2>1, <2>2, <2>5 DEF StageCandidate, validate_candidate_binding
  <2>6. CASE e.stage = "FinalReview"
    <3>1. PICK c \in DOMAIN log : log[c].kind = "PlanAccepted" /\ log[AttemptOf(c)].stage = "Repair"
      BY <2>1, <2>6 DEF StageCandidate, validate_candidate_binding
    <3> QED BY <1>3, <1>4, <2>2, <2>6, <3>1
  <2>7. e.stage \in Stages
    <3>1. e \in Event
      BY <1>1 DEF LogTypeOK
    <3> QED BY <1>4, <3>1 DEF Event
  <2> QED BY <2>3, <2>4, <2>5, <2>6, <2>7 DEF Stages
<1>5. ASSUME NEW i \in DOMAIN log', log'[i].kind = "Prepared", NEW s \in Before[log'[i].stage]
      PROVE  SucceededStage(s)'
  <2>1. CASE i \in DOMAIN log
    BY <1>1, <1>2, <1>5, <2>1 DEF PredecessorsSucceeded
  <2>2. CASE i = Len(log) + 1
    BY <1>1, <1>2, <1>4, <1>5, <2>2
  <2> QED BY <1>1, <2>1, <2>2
<1> QED BY <1>5 DEF PredecessorsSucceeded

LEMMA RepairsKept ==
    ASSUME LogInv, RepairsAuthorized, NEW e, append_event(e) PROVE RepairsAuthorized'
<1>1. /\ Len(log) \in Nat /\ DOMAIN log = 1..Len(log) /\ DOMAIN log' = 1..Len(log) + 1
      /\ \A i \in DOMAIN log : log'[i] = log[i]
      /\ log'[Len(log) + 1] = e
  BY Extended DEF LogInv, append_event
<1>2. SUFFICES ASSUME Prepared("Repair")' # {}
               PROVE  \E r \in DOMAIN log' : /\ log'[r].kind = "RepairOnceAuthorized"
                                             /\ log'[AttemptOf(r)'].stage = "InitialReview"
  BY DEF RepairsAuthorized
<1>3. \E r \in DOMAIN log : log[r].kind = "RepairOnceAuthorized" /\ log[AttemptOf(r)].stage = "InitialReview"
  <2>1. CASE Prepared("Repair") # {}
    BY <2>1 DEF RepairsAuthorized
  <2>2. CASE e.kind = "Prepared" /\ e.stage = "Repair"
    BY <2>2, Admission DEF validate_planner_inference_prepared, validate_planner_stage_context, StageCandidate
  <2> QED BY <1>1, <1>2, <2>1, <2>2 DEF Prepared
<1>4. PICK r \in DOMAIN log : log[r].kind = "RepairOnceAuthorized" /\ log[AttemptOf(r)].stage = "InitialReview"
  BY <1>3
<1>5. log[r].kind \in Decisions
  BY <1>4 DEF Decisions, ReviewDecisions
<1>6. AttemptOf(r)' = AttemptOf(r) /\ AttemptOf(r) \in DOMAIN log
  BY <1>1, <1>4, <1>5, PointsBack DEF AttemptOf
<1> QED BY <1>1, <1>4, <1>6

(* An event that is no outcome, decision or failure leaves the attempts as *)
(* they are.                                                               *)
LEMMA AttemptsKept ==
    ASSUME LogInv, NEW e, log' = Append(log, e), e.kind \notin Outcomes \cup Decisions \cup Failures,
           NEW s, NEW a
    PROVE  /\ Open(s, a) => Open(s, a)'
           /\ Undecided(s) => Undecided(s)'
           /\ ~Has(Failures) => ~Has(Failures)'
<1>1. /\ Len(log) \in Nat /\ DOMAIN log = 1..Len(log) /\ DOMAIN log' = 1..Len(log) + 1
      /\ \A i \in DOMAIN log : log'[i] = log[i]
      /\ log'[Len(log) + 1] = e
  BY Extended DEF LogInv
<1>2. \A p : inference_terminal_count(p)' = inference_terminal_count(p)
  BY <1>1 DEF inference_terminal_count
<1>3. \A i \in DOMAIN log : log[i].kind \in Decisions => AttemptOf(i)' = AttemptOf(i)
  BY <1>1, PointsBack DEF AttemptOf
<1>4. \A p : DecisionsOf(p)' = DecisionsOf(p)
  BY <1>1, <1>3 DEF DecisionsOf
<1>5. \A p \in Prepared(s) : p \in Prepared(s)' /\ log'[p] = log[p]
  BY <1>1 DEF Prepared
<1>6. \A p, i : i \in inference_terminal_count(p) => log'[i] = log[i]
  BY <1>1 DEF inference_terminal_count
<1>7. ~Has(Failures) => ~Has(Failures)'
  BY <1>1 DEF Has
<1>8. Open(s, a) => Open(s, a)'
  BY <1>2, <1>5 DEF Open
<1>9. Undecided(s) => Undecided(s)'
  BY <1>2, <1>4, <1>5, <1>6 DEF Undecided
<1> QED BY <1>7, <1>8, <1>9

(* The claim is whose it was until another claims.                         *)
LEMMA ClaimKept ==
    ASSUME LogInv, NEW e, log' = Append(log, e), NEW a,
           \/ e.kind = "Claimed" /\ e.actor = a
           \/ e.kind # "Claimed" /\ ClaimedBy(a)
    PROVE  ClaimedBy(a)'
<1>1. /\ Len(log) \in Nat /\ DOMAIN log = 1..Len(log) /\ DOMAIN log' = 1..Len(log) + 1
      /\ \A i \in DOMAIN log : log'[i] = log[i]
      /\ log'[Len(log) + 1] = e /\ Len(log') = Len(log) + 1
  BY Extended DEF LogInv
<1> DEFINE K == {"Claimed"}
           n == Len(log) + 1
<1>2. CASE e.kind = "Claimed" /\ e.actor = a
  <2>1. Latest(K)' = {n}
    BY <1>1, <1>2 DEF Latest
  <2>2. LastOf(K)' = n
    BY <2>1 DEF LastOf
  <2>3. Has(K)'
    BY <1>1, <1>2 DEF Has
  <2> QED BY <1>1, <1>2, <2>2, <2>3 DEF ClaimedBy, latest_claim_for_run
<1>3. CASE e.kind # "Claimed" /\ ClaimedBy(a)
  <2>1. Latest(K)' = Latest(K)
    BY <1>1, <1>3 DEF Latest
  <2>2. LastOf(K)' = LastOf(K)
    BY <2>1 DEF LastOf
  <2>3. K \in SUBSET Kinds /\ LogTypeOK /\ LatestExists /\ Has(K)
    BY <1>3 DEF Kinds, LogInv, ClaimedBy
  <2>4. LastOf(K) \in DOMAIN log
    BY <2>3, LastIsGreatest
  <2>5. Has(K)'
    BY <1>1, <2>3 DEF Has
  <2> QED BY <1>1, <1>3, <2>2, <2>4, <2>5 DEF ClaimedBy, latest_claim_for_run
<1> QED BY <1>2, <1>3

-----------------------------------------------------------------------------
(* What every step is to keep.                                             *)
Kept == CallsWereMade' /\ Placed(task)'

(* A task nothing is asked of.                                             *)
Watched == {"calling", "beat", "observeSucceeded", "observeFailed", "dispatch",
            "notDispatched", "slot", "slotBeat", "granted", "toRunning", "decide",
            "reload", "loop"}
Free(t) == /\ t.pc \notin Watched
           /\ t.pc = "claim" => t.after \notin {"slotBeat", "beat"}

LEMMA FreePlaced == ASSUME NEW t, Free(t) PROVE Placed(t)'
BY DEF Free, Watched, Placed, Driving, Calling

LEMMA FreeTasks ==
    ASSUME task \in Task
    PROVE  /\ Free(Ended)
           /\ \A to : Free(Transition(to))
           /\ \A after : after \notin {"slotBeat", "beat"} => Free(Renew(after))
           /\ \A after, to : Free(Ensure(after, to))
           /\ \A to, r : Free(Boundary(to, r))
           /\ \A pc : pc \notin Watched \cup {"claim"} => Free(Goto(pc))
<1>1. Free(Ended)
  BY DEF Free, Ended, Watched
<1>2. ASSUME NEW to PROVE Free(Transition(to))
  BY DEF Free, Transition, Watched, Task
<1>3. ASSUME NEW after, after \notin {"slotBeat", "beat"} PROVE Free(Renew(after))
  BY <1>3 DEF Free, Renew, Watched, Task
<1>4. ASSUME NEW after, NEW to PROVE Free(Ensure(after, to))
  BY DEF Free, Ensure, Watched, Task
<1>5. ASSUME NEW to, NEW r PROVE Free(Boundary(to, r))
  BY DEF Free, Boundary, Watched, Task
<1>6. ASSUME NEW pc, pc \notin Watched \cup {"claim"} PROVE Free(Goto(pc))
  BY <1>6 DEF Free, Goto, Task
<1> QED BY <1>1, <1>2, <1>3, <1>4, <1>5, <1>6

LEMMA FreeFailures ==
    ASSUME task \in Task, token \in BOOLEAN
    PROVE  /\ \A s : Free(FailStage(s))
           /\ \A to : Free([Renew("transition") EXCEPT !.goal = to])
<1>1. ASSUME NEW to PROVE Free([Renew("transition") EXCEPT !.goal = to])
  <2> DEFINE u == Renew("transition")
  <2>1. u.pc = "claim" /\ u.after = "transition" /\ u = [task EXCEPT !.pc = "claim", !.after = "transition"]
    BY DEF Renew, Task
  <2>2. [u EXCEPT !.goal = to].pc = "claim" /\ [u EXCEPT !.goal = to].after = "transition"
    BY DEF Renew, Task
  <2> QED BY <2>2 DEF Free, Watched
<1>2. ASSUME NEW s PROVE Free(FailStage(s))
  <2> DEFINE t == FailStage(s)
  <2>1. \/ t = [Renew("stageFailed") EXCEPT !.stage = s, !.hist = 0]
        \/ t = [Ensure("transition", "Cancelled") EXCEPT !.stage = s, !.hist = 0]
        \/ t = [Renew("planningFailed") EXCEPT !.stage = s, !.hist = 0]
    BY DEF FailStage
  <2>2. \/ t.pc = "claim" /\ t.after \in {"stageFailed", "planningFailed"}
        \/ t.pc = "ensure"
    BY <2>1 DEF Renew, Ensure, Task
  <2> HIDE DEF t
  <2>3. Free(t)
    BY <2>2 DEF Free, Watched
  <2> QED BY <2>3 DEF t
<1> QED BY <1>1, <1>2

LEMMA FreeErrors ==
    ASSUME task \in Task, token \in BOOLEAN, NEW t \in OnError PROVE Free(t)
<1>1. t \in {Ended, Boundary("Failed", TRUE), Boundary("Cancelled", TRUE), FailStage(task.stage),
             Transition("Waiting"), Renew("unknownAgain"), Renew("observedFailed")}
  BY DEF OnError, RenewalError, PrepareError, DecideError
<1> QED BY <1>1, FreeTasks, FreeFailures

(* What a step adds to the log: nothing, or one event that observes none.  *)
ObservesNothing == UNCHANGED log \/ \E e : log' = Append(log, e) /\ e.kind \notin Observations

LEMMA CallsKept == ASSUME PlaceInv, UNCHANGED calls, ObservesNothing PROVE CallsWereMade'
<1>1. CASE UNCHANGED log
  BY <1>1 DEF PlaceInv, CallsWereMade, Told
<1>2. CASE \E e : log' = Append(log, e) /\ e.kind \notin Observations
  <2>1. PICK e : log' = Append(log, e) /\ e.kind \notin Observations
    BY <1>2
  <2>2. Answers \in SUBSET Outcomes /\ {"NotDispatched"} \in SUBSET Outcomes
    BY DEF Answers, Outcomes
  <2>3. /\ \A s : Told(Answers, s)' => Told(Answers, s)
        /\ \A s : Told({"NotDispatched"}, s)' => Told({"NotDispatched"}, s)
    BY <2>1, <2>2, ToldGrows DEF PlaceInv, SupervisorInv, Answers
  <2> QED BY <2>3 DEF PlaceInv, CallsWereMade
<1> QED BY <1>1, <1>2 DEF ObservesNothing

(* An observation of the task's own attempt tells the truth when the task  *)
(* knows whether it made the call.                                         *)
LEMMA ObservationIsTrue ==
    ASSUME PlaceInv, UNCHANGED calls, task.stage \in Stages, NEW e, log' = Append(log, e),
           e.kind \in Observations, e.parent \in Prepared(task.stage),
           calls[task.stage] = IF e.kind = "NotDispatched" THEN 0 ELSE 1
    PROVE  CallsWereMade'
<1>1. PICK s \in Stages : s = task.stage
  OBVIOUS
<1>2. LogInv
  BY DEF PlaceInv, SupervisorInv
<1>3. log'[e.parent].stage = s
  BY <1>1, <1>2, Extended DEF LogInv, Prepared
<1>4. Answers \in SUBSET Outcomes /\ {"NotDispatched"} \in SUBSET Outcomes
  BY DEF Answers, Outcomes
<1>5. /\ \A r : Told(Answers, r)' => Told(Answers, r) \/ (e.kind \in Answers /\ r = s)
      /\ \A r : Told({"NotDispatched"}, r)' =>
            Told({"NotDispatched"}, r) \/ (e.kind = "NotDispatched" /\ r = s)
  BY <1>2, <1>3, <1>4, ToldGrows
<1>6. calls'[s] = IF e.kind = "NotDispatched" THEN 0 ELSE 1
  BY <1>1
<1> QED BY <1>5, <1>6 DEF PlaceInv, CallsWereMade, Answers

LEMMA FreeStep ==
    ASSUME PlaceInv, UNCHANGED calls, ObservesNothing, NEW t, task' = t, Free(t) PROVE Kept
<1>1. CallsWereMade'
  BY CallsKept
<1>2. Placed(t)'
  BY FreePlaced
<1>3. Placed(task)'
  BY <1>2
<1> QED BY <1>1, <1>3 DEF Kept

(* A step that leaves the log as it is.                                    *)
LEMMA StillPlaced ==
    ASSUME UNCHANGED <<log, state>>, UNCHANGED calls, NEW t, Placed(t) PROVE Placed(t)'
<1>1. log' = log /\ state' = state /\ calls' = calls
  OBVIOUS
<1>2. \A s, a : Open(s, a)' = Open(s, a)
  BY <1>1 DEF Open, Prepared, inference_terminal_count
<1>3. \A s : Undecided(s)' = Undecided(s)
  BY <1>1 DEF Undecided, Prepared, inference_terminal_count, DecisionsOf, AttemptOf
<1>4. \A a : ClaimedBy(a)' = ClaimedBy(a)
  BY <1>1 DEF ClaimedBy, latest_claim_for_run, LastOf, Latest, Has
<1>5. Has(Failures)' = Has(Failures)
  BY <1>1 DEF Has
<1> QED BY <1>1, <1>2, <1>3, <1>4, <1>5 DEF Placed, Driving, Calling

LEMMA PlacedStep ==
    ASSUME PlaceInv, UNCHANGED <<log, state>>, UNCHANGED calls, NEW t, task' = t, Placed(t) PROVE Kept
<1>1. CallsWereMade'
  BY CallsKept DEF ObservesNothing
<1>2. Placed(t)'
  BY StillPlaced
<1>3. Placed(task)'
  BY <1>2
<1> QED BY <1>1, <1>3 DEF Kept

(* A step that appends a claim of the task's own or a cancellation.        *)
LEMMA PlacedLater ==
    ASSUME LogInv, NEW e, append_event(e), e.kind \in {"Claimed", "CancelRequested"}, UNCHANGED calls,
           NEW t, t.hist \in Nat, e.kind = "Claimed" => e.actor = t.owner, Placed(t)
    PROVE  Placed(t)'
<1>1. log' = Append(log, e) /\ state' = state
  BY DEF append_event, StateChanges, RunStates
<1>2. e.kind \notin Outcomes \cup Decisions \cup Failures
  BY DEF Outcomes, Decisions, PlanDecisions, ReviewDecisions, Failures
<1>3. /\ \A s, a : Open(s, a) => Open(s, a)'
      /\ \A s : Undecided(s) => Undecided(s)'
      /\ ~Has(Failures) => ~Has(Failures)'
  BY <1>1, <1>2, AttemptsKept
<1>4. ClaimedBy(t.owner) => ClaimedBy(t.owner)'
  BY <1>1, ClaimKept
<1>5. /\ Len(log) \in Nat /\ Len(log') = Len(log) + 1 /\ DOMAIN log = 1..Len(log)
      /\ \A i \in DOMAIN log : log'[i] = log[i]
      /\ log'[Len(log) + 1] = e
  BY <1>1, Extended DEF LogInv
<1>6. (\A j \in t.hist + 1..Len(log) : log[j].kind \in Between)
      => \A j \in t.hist + 1..Len(log') : log'[j].kind \in Between
  BY <1>5 DEF Between
<1> QED BY <1>1, <1>3, <1>4, <1>6 DEF Placed, Driving, Calling

(* An append of a phase that leads, admitted or refused, to a free task.   *)
LEMMA FreeAppend ==
    ASSUME PlaceInv, task.pc # "none", NEW e, e.kind \notin Observations, NEW next, AppendThen(e, next),
           Free(next)
    PROVE  Kept
<1>1. UNCHANGED calls /\ task \in Task /\ token \in BOOLEAN
  BY DEF AppendThen, PlaceInv, SupervisorInv, TypeOK
<1>2. ObservesNothing
  BY DEF AppendThen, append_event, ObservesNothing, logVars
<1>3. PICK t : task' = t /\ Free(t)
  BY <1>1, FreeErrors DEF AppendThen
<1> QED BY <1>1, <1>2, <1>3, FreeStep

(* So does an observation of the task's own attempt that ends the run.     *)
LEMMA FreeObservation ==
    ASSUME PlaceInv, task.pc # "none", task.stage \in Stages, NEW k \in Observations,
           prep \in Prepared(task.stage), calls[task.stage] = IF k = "NotDispatched" THEN 0 ELSE 1,
           NEW next, AppendThen(Plain(k, me, prep), next), Free(next)
    PROVE  Kept
<1>1. UNCHANGED calls /\ task \in Task /\ token \in BOOLEAN
  BY DEF AppendThen, PlaceInv, SupervisorInv, TypeOK
<1>2. PICK e : e = Plain(k, me, prep)
  OBVIOUS
<1>3. e.kind = k /\ e.parent = prep
  BY <1>2 DEF Plain, Entry
<1>4. CASE append_event(e) /\ task' = next
  <2>1. CallsWereMade'
    BY <1>1, <1>3, <1>4, ObservationIsTrue DEF append_event
  <2>2. PICK t : t = next
    OBVIOUS
  <2>3. Placed(t)'
    BY <2>2, FreePlaced
  <2>4. Placed(task)'
    BY <1>4, <2>2, <2>3
  <2> QED BY <2>1, <2>4 DEF Kept
<1>5. CASE task' \in OnError /\ UNCHANGED logVars
  <2>1. PICK t : task' = t /\ Free(t)
    BY <1>1, <1>5, FreeErrors
  <2> QED BY <1>1, <1>5, <2>1, FreeStep DEF ObservesNothing, logVars
<1> QED BY <1>2, <1>4, <1>5 DEF AppendThen

LEMMA FreeOnly ==
    ASSUME PlaceInv, TaskOnly, NEW t, task' = t, Free(t) PROVE Kept
<1>1. UNCHANGED calls /\ ObservesNothing
  BY DEF TaskOnly, ObservesNothing, logVars
<1> QED BY <1>1, FreeStep

LEMMA PlacedOnly ==
    ASSUME PlaceInv, TaskOnly, NEW t, task' = t, Placed(t) PROVE Kept
<1>1. UNCHANGED calls /\ UNCHANGED <<log, state>>
  BY DEF TaskOnly, logVars
<1> QED BY <1>1, PlacedStep

LEMMA Placing ==
    ASSUME PlaceInv
    PROVE  /\ task \in Task /\ token \in BOOLEAN /\ LogInv /\ LogTypeOK /\ Len(log) \in Nat
           /\ task.pc # "none" => task.owner \in Actors
           /\ Placed(task)
BY DEF PlaceInv, SupervisorInv, TypeOK, LogTypeOK, Held

(* The run is not Running: the task drove nothing, and leaves.             *)
LEMMA AlreadyFree ==
    ASSUME PlaceInv, task.pc = "claim", state # "Running" PROVE Free(AlreadyTerminal)
<1>1. task.after \notin NoReturn /\ task.after \notin {"slotBeat", "beat"} /\ task \in Task
  BY DEF PlaceInv, SupervisorInv, Held, Placed, Driving, Calling
<1>2. CASE Waits
  BY <1>1, <1>2, FreeTasks DEF AlreadyTerminal
<1>3. CASE ~Waits
  <2>1. task.after \notin Watched \cup {"claim"}
    BY <1>1, <1>3 DEF Waits, Watched, NoReturn
  <2> QED BY <1>1, <1>3, <2>1, FreeTasks DEF AlreadyTerminal
<1> QED BY <1>2, <1>3

LEMMA AfterClaimIs ==
    ASSUME task \in Task, NEW h \in Nat
    PROVE  LET t == AfterClaim(h) IN
           /\ t.pc = task.after /\ t.owner = task.owner /\ t.stage = task.stage
           /\ t.after = "none" /\ t.hist \in Nat
           /\ task.after = "loop" => t.hist = h
BY DEF AfterClaim, Goto, Task

LEMMA AfterClaimFree ==
    ASSUME PlaceInv, task.pc \in {"claim", "toRunning"}, task.after \notin {"loop", "slotBeat", "beat"},
           NEW h \in Nat
    PROVE  Free(AfterClaim(h))
<1> DEFINE t == AfterClaim(h)
<1>1. task.after \notin NoReturn /\ task \in Task
  BY DEF PlaceInv, SupervisorInv, Held
<1>2. t.pc = task.after
  BY <1>1, AfterClaimIs
<1> HIDE DEF t
<1>3. Free(t)
  BY <1>1, <1>2 DEF Free, Watched, NoReturn
<1> QED BY <1>3 DEF t

(* The claim is made: a task that renewed it drives its attempt on.        *)
LEMMA ClaimAdmitted ==
    ASSUME PlaceInv, task.pc = "claim", NEW e, append_event(e), e.kind = "Claimed", e.actor = me,
           UNCHANGED calls, state \notin Terminal, NEW t,
           t = IF state \in Inactive THEN [task EXCEPT !.pc = "toRunning", !.hist = Len(log)]
                                     ELSE AfterClaim(Len(log))
    PROVE  Placed(t)'
<1>1. task \in Task /\ LogInv /\ LogTypeOK /\ Len(log) \in Nat /\ Placed(task)
  BY Placing
<1>2. log' = Append(log, e) /\ state' = state
  BY DEF append_event, StateChanges, RunStates
<1>3. CASE state \in Inactive
  <2>1. task.after \notin {"slotBeat", "beat"}
    BY <1>1, <1>3 DEF Placed, Driving, Calling, Inactive
  <2>2. t.pc = "toRunning" /\ t.after = task.after
    BY <1>1, <1>3 DEF Task
  <2> QED BY <2>1, <2>2 DEF Placed, Driving, Calling
<1>4. CASE state \notin Inactive
  <2>1. state = "Running"
    BY <1>1, <1>4 DEF LogTypeOK, RunStates, Inactive, Terminal
  <2>2. t = AfterClaim(Len(log))
    BY <1>4
  <2>3. /\ t.pc = task.after /\ t.owner = task.owner /\ t.stage = task.stage /\ t.after = "none"
        /\ t.hist \in Nat
        /\ task.after = "loop" => t.hist = Len(log)
    BY <1>1, <2>2, AfterClaimIs
  <2>4. CASE task.after = "loop"
    <3>1. /\ Len(log') = Len(log) + 1 /\ log'[Len(log) + 1] = e
      BY <1>1, <1>2, Extended
    <3>2. \A j \in t.hist + 1..Len(log') : log'[j].kind \in Between
      BY <1>1, <2>3, <2>4, <3>1 DEF Between
    <3> QED BY <1>2, <2>1, <2>3, <2>4, <3>2 DEF Placed, Driving, Calling
  <2>5. CASE task.after \in {"slotBeat", "beat"}
    <3>1. Placed(t)
      BY <1>1, <2>3, <2>5 DEF Placed, Driving, Calling
    <3> QED BY <1>1, <2>3, <3>1, PlacedLater DEF me
  <2>6. CASE task.after \notin {"loop", "slotBeat", "beat"}
    BY <1>1, <2>2, <2>6, AfterClaimFree, FreePlaced
  <2> QED BY <2>4, <2>5, <2>6
<1> QED BY <1>3, <1>4

LEMMA BeginRunKept == ASSUME PlaceInv, begin_run PROVE Kept
<1>1. task.pc = "claim" /\ task.pc # "none"
  BY DEF begin_run, At
<1>2. task \in Task /\ token \in BOOLEAN /\ LogInv /\ LogTypeOK /\ Len(log) \in Nat
  BY Placing
<1>3. CASE task' = AlreadyTerminal /\ TaskOnly /\ state \in Terminal
  <2>1. Free(AlreadyTerminal)
    BY <1>1, <1>3, AlreadyFree DEF Terminal
  <2> QED BY <1>3, <2>1, FreeOnly
<1>4. CASE FinishInactiveCancelled /\ state \in Inactive
  <2>1. Free(AlreadyTerminal)
    BY <1>1, <1>4, AlreadyFree DEF Inactive
  <2>2. Plain("Cancelled", me, Len(log)).kind \notin Observations
    BY DEF Plain, Entry
  <2> QED BY <1>1, <1>4, <2>1, <2>2, FreeAppend DEF FinishInactiveCancelled
<1>5. CASE task' \in (IF Waits THEN {Ended} ELSE OnError) /\ TaskOnly
  <2>1. PICK t : task' = t /\ Free(t)
    BY <1>2, <1>5, FreeErrors, FreeTasks
  <2> QED BY <1>5, <2>1, FreeOnly
<1>6. ASSUME state \notin Terminal,
             AppendThen(Claim(me, Len(log), latest_cancellation_generation),
                        IF state \in Inactive
                          THEN [task EXCEPT !.pc = "toRunning", !.hist = Len(log)]
                          ELSE AfterClaim(Len(log)))
      PROVE  Kept
  <2> DEFINE e == Claim(me, Len(log), latest_cancellation_generation)
             next == IF state \in Inactive THEN [task EXCEPT !.pc = "toRunning", !.hist = Len(log)]
                                           ELSE AfterClaim(Len(log))
  <2>1. e.kind = "Claimed" /\ e.actor = me
    BY DEF Claim, Entry
  <2>2. UNCHANGED calls
    BY <1>6 DEF AppendThen
  <2>3. CASE append_event(e) /\ task' = next
    <3>1. PICK t : t = next
      OBVIOUS
    <3> HIDE DEF e
    <3>2. Placed(t)'
      BY <1>1, <1>6, <2>1, <2>2, <2>3, <3>1, ClaimAdmitted
    <3>3. Placed(task)'
      BY <2>3, <3>1, <3>2
    <3>4. CallsWereMade'
      BY <2>1, <2>2, <2>3, CallsKept DEF ObservesNothing, append_event
    <3> QED BY <3>3, <3>4 DEF Kept
  <2>4. CASE task' \in OnError /\ UNCHANGED logVars
    <3>1. PICK t : task' = t /\ Free(t)
      BY <1>2, <2>4, FreeErrors
    <3> QED BY <2>2, <2>4, <3>1, FreeStep DEF ObservesNothing, logVars
  <2> QED BY <1>6, <2>3, <2>4 DEF AppendThen
<1> QED BY <1>3, <1>4, <1>5, <1>6 DEF begin_run

LEMMA BeginRunningKept == ASSUME PlaceInv, begin_running PROVE Kept
<1> DEFINE e == Plain("Running", me, task.hist + 1)
           next == AfterClaim(task.hist)
<1>1. task.pc = "toRunning" /\ task.pc # "none" /\ AppendThen(e, next)
  BY DEF begin_running, At
<1>2. /\ task \in Task /\ token \in BOOLEAN /\ LogInv /\ LogTypeOK /\ Len(log) \in Nat
      /\ task.after \notin {"slotBeat", "beat"} /\ task.hist \in Nat
  BY <1>1, Placing DEF Placed, Task
<1>3. e.kind = "Running" /\ e.parent = task.hist + 1
  BY DEF Plain, Entry
<1>4. CASE task.after # "loop"
  <2>1. Free(next)
    BY <1>1, <1>2, <1>4, AfterClaimFree
  <2> HIDE DEF e, next
  <2> QED BY <1>1, <1>3, <2>1, FreeAppend
<1>5. CASE task.after = "loop" /\ append_event(e) /\ task' = next
  <2>1. /\ next.pc = "loop" /\ next.hist = task.hist /\ next.after = "none"
    BY <1>2, <1>5, AfterClaimIs
  <2> HIDE DEF e
  <2>2. validate_run_state_change(e)
    BY <1>3, <1>5, Admission DEF StateChanges, RunStates
  <2>3. task.hist + 1 = Len(log) /\ log[Len(log)].kind = "Claimed"
    BY <1>3, <2>2 DEF validate_run_state_change, require_latest_run_parent, valid_run_transition,
                      Inactive, Terminal
  <2>4. log' = Append(log, e) /\ state' = "Running"
    BY <1>3, <1>5 DEF append_event, StateChanges, RunStates
  <2>5. /\ DOMAIN log = 1..Len(log) /\ Len(log') = Len(log) + 1
        /\ \A i \in DOMAIN log : log'[i] = log[i]
        /\ log'[Len(log) + 1] = e
    BY <1>2, <2>4, Extended
  <2>6. \A j \in task.hist + 1..Len(log') : log'[j].kind \in Between
    BY <1>2, <1>3, <2>3, <2>5 DEF Between
  <2>7. PICK t : t = next
    OBVIOUS
  <2> HIDE DEF next
  <2>8. Placed(t)'
    BY <2>1, <2>4, <2>6, <2>7 DEF Placed, Driving, Calling
  <2>9. Placed(task)'
    BY <1>5, <2>7, <2>8
  <2>10. CallsWereMade'
    BY <1>1, <1>3, <2>4, CallsKept DEF ObservesNothing, AppendThen
  <2> QED BY <2>9, <2>10 DEF Kept
<1>6. CASE task' \in OnError /\ UNCHANGED logVars
  <2>1. PICK t : task' = t /\ Free(t)
    BY <1>2, <1>6, FreeErrors
  <2> QED BY <1>1, <1>6, <2>1, FreeStep DEF ObservesNothing, logVars, AppendThen
<1> QED BY <1>1, <1>4, <1>5, <1>6 DEF AppendThen

(* An observation the replay found is there still when the loop decides.   *)
LEMMA ReplayedUndecided ==
    ASSUME LogInv, NEW h \in Nat, h <= Len(log), \A j \in h + 1..Len(log) : log[j].kind \in Between,
           recovery_action(h).act = "Observed"
    PROVE  ~Has(Failures) /\ Undecided(recovery_action(h).stage)
<1> DEFINE attempts == {i \in 1..h : log[i].kind = "Prepared"}
           prepared == {p \in attempts : OutcomeIn(h, p) = {}}
           observed == {p \in attempts : /\ DecisionIn(h, p) = {}
                                         /\ \E i \in OutcomeIn(h, p) : log[i].kind # "Unknown"}
           resolved == {i \in 1..h : log[i].kind \in Decisions \cup {"Unknown"}}
           replay(act, p) == [act |-> act, stage |-> log[p].stage, to |-> "none"]
           open == replay("Prepared", CHOOSE p \in prepared : TRUE)
           found == CHOOSE p \in observed : TRUE
           seen == replay("Observed", found)
           last == Following(CHOOSE i \in resolved : \A j \in resolved : j <= i)
           failed == \E i \in 1..h : log[i].kind \in Failures
<1>1. recovery_action(h) = IF failed THEN Finish("Failed")
                           ELSE IF prepared # {} THEN open
                           ELSE IF observed # {} THEN seen
                           ELSE IF resolved # {} THEN last
                           ELSE NextStage("InitialPlan")
  BY DEF recovery_action
<1>2. /\ Finish("Failed").act = "Terminal" /\ open.act = "Prepared"
      /\ NextStage("InitialPlan").act = "NextStage" /\ last.act # "Observed"
  BY DEF Finish, NextStage, Following
<1>3. ~failed /\ observed # {} /\ recovery_action(h) = seen
  <2> HIDE DEF failed, prepared, observed, open, seen, resolved, last
  <2> QED BY <1>1, <1>2
<1>4. found \in observed /\ recovery_action(h).stage = log[found].stage
  <2>1. seen.stage = log[found].stage
    OBVIOUS
  <2> HIDE DEF observed, seen
  <2> QED BY <1>3, <2>1
<1>5. PICK p : p = found
  OBVIOUS
<1>6. /\ p \in 1..h /\ log[p].kind = "Prepared" /\ DecisionIn(h, p) = {}
      /\ \E i \in OutcomeIn(h, p) : log[i].kind # "Unknown"
      /\ recovery_action(h).stage = log[p].stage
  BY <1>4, <1>5
<1> HIDE DEF failed, prepared, observed, open, seen, resolved, last, found
<1>7. Len(log) \in Nat /\ DOMAIN log = 1..Len(log) /\ \A i \in DOMAIN log : i \in 1..h \/ log[i].kind \in Between
  BY DEF LogInv, LogTypeOK
<1>8. /\ \A k \in Between : k \notin Outcomes \cup Decisions \cup Failures
  BY DEF Between, Outcomes, Decisions, PlanDecisions, ReviewDecisions, Failures
<1>9. ~Has(Failures)
  <2>1. \A i \in 1..h : log[i].kind \notin Failures
    BY <1>3 DEF failed
  <2> QED BY <1>7, <1>8, <2>1 DEF Has
<1>10. DecisionsOf(p) = {}
  BY <1>6, <1>7, <1>8 DEF DecisionsOf, DecisionIn
<1>11. \E i \in inference_terminal_count(p) : log[i].kind # "Unknown"
  BY <1>6, <1>7 DEF inference_terminal_count, OutcomeIn
<1>12. p \in Prepared(log[p].stage)
  BY <1>6, <1>7 DEF Prepared
<1> QED BY <1>6, <1>9, <1>10, <1>11, <1>12 DEF Undecided

LEMMA SuperviseKept == ASSUME PlaceInv, supervise_semantic_run PROVE Kept
<1> DEFINE r == recovery_action(task.hist)
           cancelled == CancelledBy(task.hist)
           at == [task EXCEPT !.stage = r.stage, !.hist = 0]
           x == [at EXCEPT !.pc = "decide"]
           y == [at EXCEPT !.pc = "ensure", !.after = "transition", !.goal = "Cancelled"]
           z == [at EXCEPT !.pc = "compile"]
<1>1. task.pc = "loop" /\ task.pc # "none" /\ TaskOnly
  BY DEF supervise_semantic_run, At
<1>2. task \in Task /\ token \in BOOLEAN /\ LogInv /\ LogTypeOK /\ Len(log) \in Nat /\ Placed(task)
  BY Placing
<1>3. task.hist \in Nat /\ task.hist <= Len(log)
  BY <1>2 DEF Task, PlaceInv, SupervisorInv, Held
<1>4. at.stage = r.stage
  BY <1>2 DEF Task
<1>5. \/ task' = Transition("Cancelled")
      \/ task' = ReplayPrepared(r.stage, cancelled)
      \/ task' = Transition("Failed")
      \/ r.act = "Observed" /\ task' = x
      \/ task' = Transition(r.to)
      \/ task' = y
      \/ task' = Transition("Waiting")
      \/ task' = FailStage(r.stage)
      \/ task' = z
  BY <1>4 DEF supervise_semantic_run, ReplayObserved, BeginStage, DiscoveryEnd
<1>6. Free(ReplayPrepared(r.stage, cancelled))
  <2> DEFINE t == ReplayPrepared(r.stage, cancelled)
  <2>1. t.pc \in {"ensure", "replay"}
    BY <1>2 DEF ReplayPrepared, Task
  <2> HIDE DEF t
  <2>2. Free(t)
    BY <2>1 DEF Free, Watched
  <2> QED BY <2>2 DEF t
<1>7. Free(y) /\ Free(z)
  <2>1. y.pc = "ensure" /\ z.pc = "compile"
    BY <1>2 DEF Task
  <2> HIDE DEF y, z
  <2> QED BY <2>1 DEF Free, Watched
<1>8. CASE r.act = "Observed" /\ task' = x
  <2>1. state = "Running" /\ \A j \in task.hist + 1..Len(log) : log[j].kind \in Between
    BY <1>1, <1>2 DEF Placed
  <2>2. ~Has(Failures) /\ Undecided(r.stage)
    BY <1>2, <1>3, <1>8, <2>1, ReplayedUndecided
  <2>3. r.stage \in Stages
    BY <1>2, <1>3, <1>8, RecoveryTyped
  <2>4. x.pc = "decide" /\ x.stage = r.stage
    BY <1>2, <1>4 DEF Task
  <2> HIDE DEF r
  <2>5. PICK t : t = x
    OBVIOUS
  <2> HIDE DEF x
  <2>6. Placed(t)
    BY <2>1, <2>2, <2>3, <2>4, <2>5 DEF Placed, Driving, Calling
  <2> QED BY <1>1, <1>8, <2>5, <2>6, PlacedOnly
<1>9. CASE task' \in {Transition("Cancelled"), ReplayPrepared(r.stage, cancelled), Transition("Failed"),
                      Transition(r.to), y, Transition("Waiting"), FailStage(r.stage), z}
  <2> HIDE DEF r, cancelled, y, z
  <2>1. PICK t : task' = t /\ Free(t)
    BY <1>2, <1>6, <1>7, <1>9, FreeTasks, FreeFailures
  <2> QED BY <1>1, <2>1, FreeOnly
<1> HIDE DEF r, cancelled, x, y, z
<1> QED BY <1>5, <1>8, <1>9

LEMMA CompileKept == ASSUME PlaceInv, compile_semantic_stage PROVE Kept
<1>1. task \in Task /\ token \in BOOLEAN /\ TaskOnly
  BY Placing DEF compile_semantic_stage
<1>2. task' \in {Transition("Cancelled"), FailStage(task.stage), Renew("prepare")} \cup OnError
  BY DEF compile_semantic_stage
<1>3. PICK t : task' = t /\ Free(t)
  BY <1>1, <1>2, FreeTasks, FreeFailures, FreeErrors
<1> QED BY <1>1, <1>3, FreeOnly

(* A preparation just made has no outcome: outcomes point back.            *)
LEMMA PreparedIsOpen ==
    ASSUME LogInv, NEW e, append_event(e), e.kind = "Prepared"
    PROVE  Open(e.stage, e.actor)' /\ state = "Running" /\ ~Has(Failures)' /\ ClaimedBy(e.actor)'
<1>1. /\ Len(log) \in Nat /\ DOMAIN log = 1..Len(log) /\ DOMAIN log' = 1..Len(log) + 1
      /\ \A i \in DOMAIN log : log'[i] = log[i]
      /\ log'[Len(log) + 1] = e /\ log' = Append(log, e)
  BY Extended DEF LogInv, append_event
<1>11. PICK n \in Nat : n = Len(log) + 1
  BY <1>1
<1>2. state = "Running" /\ ClaimedBy(e.actor)
  BY Admission DEF validate_planner_inference_prepared, require_current_claim_owner,
                   require_active_claim_owner, ClaimedBy
<1>3. ~Has(Failures)
  BY Admission DEF root_planning_failure_fence, StateChanges, RunStates
<1>4. e.kind \notin Outcomes \cup Decisions \cup Failures
  BY DEF Outcomes, Decisions, PlanDecisions, ReviewDecisions, Failures
<1>5. ~Has(Failures)'
  BY <1>1, <1>3, <1>4 DEF Has
<1>6. \A i \in DOMAIN log : log[i].kind \in Outcomes => log[i].parent # n
  BY <1>1, <1>11, PointsBack
<1>7. inference_terminal_count(n)' = {}
  BY <1>1, <1>4, <1>6, <1>11 DEF inference_terminal_count
<1>8. n \in Prepared(e.stage)'
  BY <1>1, <1>11 DEF Prepared
<1>9. Open(e.stage, e.actor)'
  BY <1>1, <1>7, <1>8, <1>11 DEF Open
<1>10. ClaimedBy(e.actor)'
  BY <1>1, <1>2, ClaimKept
<1> QED BY <1>2, <1>5, <1>9, <1>10

LEMMA PrepareKept == ASSUME PlaceInv, prepare_semantic_stage PROVE Kept
<1> DEFINE next == Goto("dispatch")
<1>0. PICK e : e = Preparation(me, Len(log), task.stage, semantic_compile_source(task.stage), 0)
  OBVIOUS
<1>1. task.pc = "prepare" /\ task.pc # "none"
  BY DEF prepare_semantic_stage, At
<1>2. task \in Task /\ token \in BOOLEAN /\ LogInv /\ LogTypeOK
  BY Placing
<1>3. task.stage \in Stages
  BY <1>1 DEF PlaceInv, SupervisorInv, Held, InStage
<1>4. \/ TaskOnly /\ task' \in {Transition("Cancelled"), FailStage(task.stage)} \cup OnError
      \/ AppendThen(e, next)
  BY <1>0 DEF prepare_semantic_stage
<1>5. CASE TaskOnly /\ task' \in {Transition("Cancelled"), FailStage(task.stage)} \cup OnError
  <2>1. PICK t : task' = t /\ Free(t)
    BY <1>2, <1>5, FreeTasks, FreeFailures, FreeErrors
  <2> QED BY <1>5, <2>1, FreeOnly
<1>6. CASE AppendThen(e, next)
  <2>1. e.kind = "Prepared" /\ e.stage = task.stage /\ e.actor = task.owner
    BY <1>0 DEF Preparation, Entry, me
  <2>2. next.pc = "dispatch" /\ next.stage = task.stage /\ next.owner = task.owner
    BY <1>2 DEF Goto, Task
  <2>3. UNCHANGED calls
    BY <1>6 DEF AppendThen
  <2>4. CASE append_event(e) /\ task' = next
    <3>1. PICK t : t = next
      OBVIOUS
    <3> HIDE DEF next
    <3>3. Open(e.stage, e.actor)' /\ state = "Running" /\ ~Has(Failures)' /\ ClaimedBy(e.actor)'
      BY <1>2, <2>1, <2>4, PreparedIsOpen
    <3>4. state' = "Running"
      BY <2>1, <2>4, <3>3 DEF append_event, StateChanges, RunStates
    <3>5. t.pc = "dispatch" /\ t.stage = e.stage /\ t.owner = e.actor
      BY <2>1, <2>2, <3>1
    <3>6. Placed(t)'
      BY <1>3, <2>1, <3>3, <3>4, <3>5 DEF Placed, Driving, Calling
    <3>7. Placed(task)'
      BY <2>4, <3>1, <3>6
    <3>8. CallsWereMade'
      BY <2>1, <2>3, <2>4, CallsKept DEF ObservesNothing, append_event
    <3> QED BY <3>7, <3>8 DEF Kept
  <2>5. CASE task' \in OnError /\ UNCHANGED logVars
    <3>1. PICK t : task' = t /\ Free(t)
      BY <1>2, <2>5, FreeErrors
    <3> QED BY <2>3, <2>5, <3>1, FreeStep DEF ObservesNothing, logVars
  <2> QED BY <1>6, <2>4, <2>5 DEF AppendThen
<1> QED BY <1>4, <1>5, <1>6

(* A task that drives its attempt goes on to the next place.               *)
LEMMA DriveOn ==
    ASSUME PlaceInv, Driving(task), NEW t,
           t.stage = task.stage, t.owner = task.owner, Driving(t),
           Calling(t) => calls[task.stage] = 1
    PROVE  Placed(t)
<1>1. t.pc \notin {"toRunning", "decide", "reload", "loop"}
  BY DEF Driving, Calling
<1> QED BY <1>1 DEF PlaceInv, Placed

LEMMA GotoIs ==
    ASSUME task \in Task
    PROVE  /\ \A pc : LET t == Goto(pc) IN t.pc = pc /\ t.stage = task.stage /\ t.owner = task.owner
           /\ \A after : LET t == Renew(after) IN
                t.pc = "claim" /\ t.after = after /\ t.stage = task.stage /\ t.owner = task.owner
BY DEF Goto, Renew, Task

LEMMA SlotExitFree == ASSUME task \in Task, SlotExit PROVE \E t : task' = t /\ Free(t)
<1>1. task' \in {Ensure("cancelledBeforeCall", "Cancelled"), Ended, Boundary("Failed", FALSE)}
  BY DEF SlotExit
<1> QED BY <1>1, FreeTasks

LEMMA PreDispatchKept == ASSUME PlaceInv, pre_dispatch PROVE Kept
<1>1. task.pc = "dispatch" /\ TaskOnly /\ Driving(task) /\ task \in Task
  BY Placing DEF pre_dispatch, At, Driving
<1>2. CASE task' = Ensure("cancelledBeforeCall", "Cancelled")
  BY <1>1, <1>2, FreeTasks, FreeOnly
<1>3. ASSUME NEW pc \in {"notDispatched", "slot"}, task' = Goto(pc) PROVE Kept
  <2>1. PICK t : t = Goto(pc)
    OBVIOUS
  <2>2. t.pc = pc /\ t.stage = task.stage /\ t.owner = task.owner
    BY <1>1, <2>1, GotoIs
  <2>3. Placed(t)
    BY <1>1, <2>2, DriveOn DEF Driving, Calling
  <2> QED BY <1>1, <1>3, <2>1, <2>3, PlacedOnly
<1> QED BY <1>2, <1>3 DEF pre_dispatch

LEMMA NotDispatchedKept ==
    ASSUME PlaceInv, append_not_dispatched \/ append_cancelled_before_call PROVE Kept
<1>1. task.pc # "none" /\ task \in Task /\ BeforeCall(task)
  BY Placing DEF append_not_dispatched, append_cancelled_before_call, At, BeforeCall
<1>2. task.stage \in Stages /\ calls[task.stage] = 0 /\ prep \in Prepared(task.stage)
  BY <1>1 DEF PlaceInv, SupervisorInv, Held, prep
<1>3. PICK to : AppendThen(Plain("NotDispatched", me, prep), Transition(to))
  BY DEF append_not_dispatched, append_cancelled_before_call
<1>4. "NotDispatched" \in Observations /\ Free(Transition(to))
  BY <1>1, FreeTasks
<1> QED BY <1>1, <1>2, <1>3, <1>4, FreeObservation

LEMMA SlotKept == ASSUME PlaceInv, await_model_call_slot \/ slot_heartbeat PROVE Kept
<1>1. task.pc \in {"slot", "slotBeat"} /\ TaskOnly /\ Driving(task) /\ task \in Task
  BY Placing DEF await_model_call_slot, slot_heartbeat, At, Driving
<1>2. CASE SlotExit
  BY <1>1, <1>2, SlotExitFree, FreeOnly
<1>3. CASE task' = Ensure("cancelledBeforeCall", "Cancelled")
  BY <1>1, <1>3, FreeTasks, FreeOnly
<1>4. ASSUME NEW pc \in {"granted", "slot"}, task' = Goto(pc) PROVE Kept
  <2>1. PICK t : t = Goto(pc)
    OBVIOUS
  <2>2. t.pc = pc /\ t.stage = task.stage /\ t.owner = task.owner
    BY <1>1, <2>1, GotoIs
  <2>3. Placed(t)
    BY <1>1, <2>2, DriveOn DEF Driving, Calling
  <2> QED BY <1>1, <1>4, <2>1, <2>3, PlacedOnly
<1> QED BY <1>2, <1>3, <1>4 DEF await_model_call_slot, slot_heartbeat

(* The attempt the task works on is the one that is open.                  *)
LEMMA OpenIsPrep ==
    ASSUME LogInv, task.stage \in Stages, NEW a, Open(task.stage, a)
    PROVE  /\ prep \in Prepared(task.stage) /\ inference_terminal_count(prep) = {}
           /\ log[prep].actor = a
<1>1. PICK p \in Prepared(task.stage) : inference_terminal_count(p) = {} /\ log[p].actor = a
  BY DEF Open
<1>2. Prepared(task.stage) = {p}
  BY <1>1 DEF LogInv, StageOnceInOrder, Prepared
<1>3. prep = p
  BY <1>2 DEF prep
<1> QED BY <1>1, <1>3

(* The call is counted as it is made.                                      *)
LEMMA InferKept == ASSUME PlaceInv, infer_structured PROVE Kept
<1>1. task.pc = "granted" /\ UNCHANGED logVars /\ Driving(task) /\ task \in Task /\ Placed(task)
  BY Placing DEF infer_structured, At, Driving
<1>2. UNCHANGED <<log, state>> /\ ObservesNothing
  BY <1>1 DEF logVars, ObservesNothing
<1>3. CASE SlotExit /\ UNCHANGED calls
  BY <1>1, <1>2, <1>3, SlotExitFree, FreeStep
<1>4. CASE task' = Goto("calling") /\ calls' = [calls EXCEPT ![task.stage] = @ + 1]
  <2>1. task.stage \in Stages /\ calls[task.stage] = 0 /\ calls \in [Stages -> Nat]
    BY <1>1 DEF PlaceInv, SupervisorInv, Held, BeforeCall, TypeOK
  <2>2. PICK s : s = task.stage
    OBVIOUS
  <2>3. calls' \in [Stages -> Nat] /\ calls'[s] = 1 /\ \A r \in Stages : r = s \/ calls'[r] = calls[r]
    BY <1>4, <2>1, <2>2
  <2>4. CallsWereMade'
    <3>1. \A K, r : Told(K, r)' = Told(K, r)
      BY <1>2 DEF Told
    <3>2. ~Told({"NotDispatched"}, s)
      <4> SUFFICES ASSUME NEW k \in DOMAIN log, log[k].kind = "NotDispatched",
                          log[log[k].parent].stage = s
                   PROVE  FALSE
        BY DEF Told
      <4>1. log[k].parent \in Prepared(s)
        BY Placing, PointsBack DEF Prepared, Outcomes
      <4>2. prep \in Prepared(s) /\ inference_terminal_count(prep) = {}
        BY <1>1, <2>1, <2>2, Placing, OpenIsPrep DEF Placed
      <4>3. log[k].parent = prep
        BY <4>1, <4>2, Placing DEF LogInv, StageOnceInOrder, Prepared
      <4> QED BY <4>2, <4>3 DEF inference_terminal_count, Outcomes
    <3> QED BY <2>1, <2>2, <2>3, <3>1, <3>2 DEF PlaceInv, CallsWereMade
  <2>5. PICK t : t = Goto("calling")
    OBVIOUS
  <2>6. t.pc = "calling" /\ t.stage = s /\ t.owner = task.owner
    BY <1>1, <2>2, <2>5, GotoIs
  <2>7. /\ state = "Running" /\ ~Has(Failures) /\ t.stage \in Stages
        /\ Open(t.stage, t.owner) /\ ClaimedBy(t.owner)
    BY <1>1, <2>2, <2>6 DEF Placed
  <2>8. /\ state' = "Running" /\ ~Has(Failures)' /\ Open(t.stage, t.owner)' /\ ClaimedBy(t.owner)'
    BY <1>2, <2>7 DEF Has, Open, Prepared, inference_terminal_count, ClaimedBy,
                      latest_claim_for_run, LastOf, Latest
  <2>9. Placed(t)'
    BY <2>3, <2>6, <2>7, <2>8 DEF Placed
  <2>10. Placed(task)'
    BY <1>4, <2>5, <2>9
  <2> QED BY <2>4, <2>10 DEF Kept
<1> QED BY <1>3, <1>4 DEF infer_structured

LEMMA CallKept == ASSUME PlaceInv, inference_ends \/ call_heartbeat PROVE Kept
<1>1. /\ task.pc \in {"calling", "beat"} /\ TaskOnly /\ Driving(task) /\ Calling(task) /\ task \in Task
      /\ Placed(task)
  BY Placing DEF inference_ends, call_heartbeat, At, Driving, Calling
<1>2. CASE task' \in {Boundary("Failed", FALSE), Ensure("unknown", "Cancelled")}
  BY <1>1, <1>2, FreeTasks, FreeOnly
<1>3. ASSUME NEW pc \in {"observeSucceeded", "observeFailed", "calling"}, task' = Goto(pc) PROVE Kept
  <2>1. PICK t : t = Goto(pc)
    OBVIOUS
  <2>2. t.pc = pc /\ t.stage = task.stage /\ t.owner = task.owner
    BY <1>1, <2>1, GotoIs
  <2>3. calls[task.stage] = 1
    BY <1>1 DEF Placed
  <2>4. Placed(t)
    BY <1>1, <2>2, <2>3, DriveOn DEF Driving, Calling
  <2> QED BY <1>1, <1>3, <2>1, <2>4, PlacedOnly
<1> QED BY <1>2, <1>3 DEF inference_ends, call_heartbeat

LEMMA HeartbeatKept == ASSUME PlaceInv, heartbeat PROVE Kept
<1>1. /\ task.pc \in {"slot", "calling"} /\ Driving(task) /\ task \in Task /\ Placed(task)
      /\ UNCHANGED calls /\ UNCHANGED <<log, state>>
  BY Placing DEF heartbeat, At, Driving, Calling, logVars
<1>2. PICK t : t = task'
  OBVIOUS
<1>3. /\ t.pc = "claim" /\ t.stage = task.stage /\ t.owner = task.owner
      /\ t.after = IF task.pc = "slot" THEN "slotBeat" ELSE "beat"
  BY <1>1, <1>2, GotoIs DEF heartbeat, At
<1>4. task.pc = "calling" => calls[task.stage] = 1
  BY <1>1 DEF Placed, Calling
<1>5. Placed(t)
  BY <1>1, <1>3, <1>4, DriveOn DEF Driving, Calling
<1> QED BY <1>1, <1>2, <1>5, PlacedStep

(* A success just observed is to be decided on.                            *)
LEMMA SuccessIsUndecided ==
    ASSUME LogInv, NEW s, NEW p \in Prepared(s), inference_terminal_count(p) = {},
           NEW e, log' = Append(log, e), e.kind = "Succeeded", e.parent = p
    PROVE  Undecided(s)'
<1>1. /\ Len(log) \in Nat /\ DOMAIN log = 1..Len(log) /\ DOMAIN log' = 1..Len(log) + 1
      /\ \A i \in DOMAIN log : log'[i] = log[i]
      /\ log'[Len(log) + 1] = e
  BY Extended DEF LogInv
<1>2. \A i \in DOMAIN log : log[i].kind \in Decisions => AttemptOf(i) # p
  BY PointsBack DEF inference_terminal_count, Outcomes
<1>3. \A i \in DOMAIN log : log[i].kind \in Decisions => AttemptOf(i)' = AttemptOf(i)
  BY <1>1, PointsBack DEF AttemptOf
<1>4. e.kind \notin Decisions /\ e.kind \in Outcomes
  BY DEF Decisions, PlanDecisions, ReviewDecisions, Outcomes
<1>5. DecisionsOf(p)' = {}
  BY <1>1, <1>2, <1>3, <1>4 DEF DecisionsOf
<1>6. PICK n : n = Len(log) + 1
  OBVIOUS
<1>7. n \in inference_terminal_count(p)' /\ log'[n].kind # "Unknown"
  BY <1>1, <1>4, <1>6 DEF inference_terminal_count
<1>8. p \in Prepared(s)'
  BY <1>1 DEF Prepared
<1> QED BY <1>5, <1>7, <1>8 DEF Undecided

LEMMA SuccessKept ==
    ASSUME PlaceInv, task.pc = "observeSucceeded", NEW e, e = Plain("Succeeded", me, prep),
           append_event(e), task' = Goto("decide"), UNCHANGED calls
    PROVE  Kept
<1>1. Driving(task) /\ Calling(task) /\ task \in Task /\ Placed(task) /\ LogInv
  BY Placing DEF Driving, Calling
<1>2. e.kind = "Succeeded" /\ e.parent = prep
  BY DEF Plain, Entry
<1>3. log' = Append(log, e) /\ state' = state
  BY <1>2 DEF append_event, StateChanges, RunStates
<1>4. /\ state = "Running" /\ ~Has(Failures) /\ task.stage \in Stages /\ Open(task.stage, task.owner)
      /\ calls[task.stage] = 1
  BY <1>1 DEF Placed
<1>5. PICK p, s : p = prep /\ s = task.stage
  OBVIOUS
<1>6. p \in Prepared(s) /\ inference_terminal_count(p) = {} /\ s \in Stages /\ calls'[s] = 1
  BY <1>1, <1>4, <1>5, OpenIsPrep
<1>7. Undecided(s)'
  BY <1>1, <1>2, <1>3, <1>5, <1>6, SuccessIsUndecided
<1>8. /\ Len(log) \in Nat /\ DOMAIN log = 1..Len(log) /\ DOMAIN log' = 1..Len(log) + 1
      /\ \A i \in DOMAIN log : log'[i] = log[i]
      /\ log'[Len(log) + 1] = e
  BY <1>1, <1>3, Extended DEF LogInv
<1>9. ~Has(Failures)'
  BY <1>2, <1>4, <1>8 DEF Has, Failures
<1>10. PICK t : t = Goto("decide")
  OBVIOUS
<1>11. t.pc = "decide" /\ t.stage = s
  BY <1>1, <1>5, <1>10, GotoIs
<1>12. Placed(t)'
  BY <1>3, <1>4, <1>6, <1>7, <1>9, <1>11 DEF Placed, Driving, Calling
<1>13. Placed(task)'
  BY <1>10, <1>12
<1>14. CallsWereMade'
  BY <1>2, <1>3, <1>4, <1>5, <1>6, ObservationIsTrue
<1> QED BY <1>13, <1>14 DEF Kept

LEMMA ObservationKept == ASSUME PlaceInv, append_observation PROVE Kept
<1>1. task \in Task /\ token \in BOOLEAN /\ UNCHANGED calls /\ task.pc # "none"
  BY Placing DEF append_observation, AppendThen, At
<1>2. CASE At("observeSucceeded") /\ AppendThen(Plain("Succeeded", me, prep), Goto("decide"))
  <2>1. CASE task' \in OnError /\ UNCHANGED logVars
    <3>1. PICK t : task' = t /\ Free(t)
      BY <1>1, <2>1, FreeErrors
    <3> QED BY <1>1, <2>1, <3>1, FreeStep DEF ObservesNothing, logVars
  <2>2. CASE append_event(Plain("Succeeded", me, prep)) /\ task' = Goto("decide")
    BY <1>1, <1>2, <2>2, SuccessKept DEF At
  <2> QED BY <1>2, <2>1, <2>2 DEF AppendThen
<1>3. CASE At("observeFailed") /\ AppendThen(Plain("ObservedFailed", me, prep), Transition("Failed"))
  <2>1. task.stage \in Stages /\ Open(task.stage, task.owner) /\ calls[task.stage] = 1 /\ LogInv
    BY <1>3, Placing DEF At, Placed, Driving, Calling
  <2>2. prep \in Prepared(task.stage)
    BY <2>1, OpenIsPrep
  <2>3. Free(Transition("Failed")) /\ "ObservedFailed" \in Observations
    BY <1>1, FreeTasks
  <2> QED BY <1>1, <1>3, <2>1, <2>2, <2>3, FreeObservation
<1> QED BY <1>2, <1>3 DEF append_observation, AfterObservation

LEMMA UnknownKept == ASSUME PlaceInv, append_unknown PROVE Kept
<1> DEFINE e == UnknownOutcome(me, prep, latest_cancellation_generation)
<1>1. task.pc # "none" /\ AppendThen(e, Transition(task.goal)) /\ task \in Task
  BY Placing DEF append_unknown
<1>2. e.kind \notin Observations
  BY DEF UnknownOutcome, Entry
<1> HIDE DEF e
<1> QED BY <1>1, <1>2, FreeTasks, FreeAppend

(* A decision leaves the run Running, and the loop replays the history.    *)
LEMMA DecideKept == ASSUME PlaceInv, decide_observed PROVE Kept
<1>1. task.pc = "decide" /\ task.pc # "none" /\ task \in Task /\ token \in BOOLEAN /\ Placed(task)
  BY Placing DEF decide_observed, At
<1>2. CASE task' \in {Transition("Cancelled"), Renew("observedFailed")} /\ TaskOnly
  <2>1. PICK t : task' = t /\ Free(t)
    BY <1>1, <1>2, FreeTasks
  <2> QED BY <1>2, <2>1, FreeOnly
<1>3. ASSUME NEW k \in DecisionKinds(task.stage), AppendThen(Plain(k, me, obs), Goto("reload")) PROVE Kept
  <2>1. PICK e : e = Plain(k, me, obs)
    OBVIOUS
  <2>2. state = "Running" /\ k \in Decisions
    BY <1>1, <1>3 DEF Placed, DecisionKinds, ReviewKinds, Decisions, PlanDecisions, ReviewDecisions
  <2>3. e.kind = k /\ e.kind \notin Observations /\ e.kind \notin StateChanges
    BY <2>1, <2>2 DEF Plain, Entry, Decisions, PlanDecisions, ReviewDecisions, StateChanges, RunStates
  <2>4. UNCHANGED calls
    BY <1>3 DEF AppendThen
  <2>5. CASE append_event(e) /\ task' = Goto("reload")
    <3>1. PICK t : t = Goto("reload")
      OBVIOUS
    <3>2. t.pc = "reload"
      BY <1>1, <3>1, GotoIs
    <3>3. state' = "Running"
      BY <2>2, <2>3, <2>5 DEF append_event
    <3>4. Placed(t)'
      BY <3>2, <3>3 DEF Placed, Driving, Calling
    <3>5. Placed(task)'
      BY <2>5, <3>1, <3>4
    <3>6. CallsWereMade'
      BY <2>3, <2>4, <2>5, CallsKept DEF ObservesNothing, append_event
    <3> QED BY <3>5, <3>6 DEF Kept
  <2>6. CASE task' \in OnError /\ UNCHANGED logVars
    <3>1. PICK t : task' = t /\ Free(t)
      BY <1>1, <2>6, FreeErrors
    <3> QED BY <2>4, <2>6, <3>1, FreeStep DEF ObservesNothing, logVars
  <2> QED BY <1>3, <2>1, <2>5, <2>6 DEF AppendThen
<1> QED BY <1>2, <1>3 DEF decide_observed

(* The steps that record a failure or a cancellation.                      *)
LEMMA FailureKept ==
    ASSUME PlaceInv,
           \/ fail_observed_semantic_stage \/ append_root_planning_failure
           \/ append_root_planning_stage_failure \/ ensure_durable_cancellation
    PROVE  Kept
<1>1. task.pc # "none" /\ task \in Task /\ token \in BOOLEAN
  BY Placing DEF fail_observed_semantic_stage, append_root_planning_failure,
                 append_root_planning_stage_failure, ensure_durable_cancellation, At
<1> DEFINE EndAs(to) == [Renew("transition") EXCEPT !.goal = to]
<1>2. \A to : Free(EndAs(to)) /\ Free(Transition(to))
  BY <1>1, FreeFailures, FreeTasks
<1> HIDE DEF EndAs
<1>3. \A k, p : k \notin Observations => Plain(k, me, p).kind \notin Observations
  BY DEF Plain, Entry
<1>4. \A s : StageFailure(me, Len(log), s).kind \notin Observations
  BY DEF StageFailure, Entry
<1>5. CASE fail_observed_semantic_stage
  <2>1. \/ task' \in {EndAs("Cancelled"), Ended} /\ TaskOnly
        \/ AppendThen(StageFailure(me, Len(log), task.stage), EndAs("Failed"))
    BY <1>5 DEF fail_observed_semantic_stage, EndAs
  <2>2. CASE task' \in {EndAs("Cancelled"), Ended} /\ TaskOnly
    BY <1>1, <1>2, <2>2, FreeTasks, FreeOnly
  <2> QED BY <1>1, <1>2, <1>4, <2>1, <2>2, FreeAppend
<1>6. CASE append_root_planning_failure
  <2> DEFINE next == IF token THEN Ensure("transition", "Cancelled") ELSE EndAs("Failed")
  <2>1. \/ task' \in {EndAs("Cancelled"), Ended} /\ TaskOnly
        \/ AppendThen(Plain("PlanningFailed", me, Len(log)), next)
    BY <1>6 DEF append_root_planning_failure, EndAs
  <2>2. CASE task' \in {EndAs("Cancelled"), Ended} /\ TaskOnly
    BY <1>1, <1>2, <2>2, FreeTasks, FreeOnly
  <2>3. Free(next)
    BY <1>1, <1>2, FreeTasks
  <2> HIDE DEF next
  <2> QED BY <1>1, <1>3, <2>1, <2>2, <2>3, FreeAppend
<1>7. CASE append_root_planning_stage_failure
  <2>1. \/ task' \in {Transition("Cancelled"), Ended} /\ TaskOnly
        \/ AppendThen(StageFailure(me, Len(log), task.stage), Transition("Failed"))
    BY <1>7 DEF append_root_planning_stage_failure
  <2>2. CASE task' \in {Transition("Cancelled"), Ended} /\ TaskOnly
    BY <1>1, <1>2, <2>2, FreeTasks, FreeOnly
  <2> QED BY <1>1, <1>2, <1>4, <2>1, <2>2, FreeAppend
<1>8. CASE ensure_durable_cancellation
  <2>1. task.pc = "ensure"
    BY <1>8 DEF ensure_durable_cancellation, At
  <2>2. task.after \notin {"slotBeat", "beat"}
    BY <2>1 DEF PlaceInv, SupervisorInv, Held, InCall
  <2>3. Free(Renew(task.after))
    BY <1>1, <2>2, FreeTasks
  <2>4. \/ task' = Renew(task.after) /\ TaskOnly
        \/ AppendThen(Plain("CancelRequested", me, Len(log)), Renew(task.after))
    BY <1>8 DEF ensure_durable_cancellation
  <2> QED BY <1>1, <1>3, <2>3, <2>4, FreeOnly, FreeAppend
<1> QED BY <1>5, <1>6, <1>7, <1>8

LEMMA ReloadKept == ASSUME PlaceInv, reload_run_and_history PROVE Kept
<1>1. /\ task.pc = "reload" /\ TaskOnly /\ task \in Task /\ Len(log) \in Nat /\ Placed(task)
      /\ task' = [task EXCEPT !.pc = "loop", !.hist = Len(log), !.stage = "none"]
  BY Placing DEF reload_run_and_history, At
<1>2. PICK t : t = [task EXCEPT !.pc = "loop", !.hist = Len(log), !.stage = "none"]
  OBVIOUS
<1>3. t.pc = "loop" /\ t.hist = Len(log)
  BY <1>1, <1>2 DEF Task
<1>4. state = "Running"
  BY <1>1 DEF Placed
<1>5. \A j \in t.hist + 1..Len(log) : log[j].kind \in Between
  BY <1>1, <1>3
<1>6. Placed(t)
  BY <1>3, <1>4, <1>5 DEF Placed, Driving, Calling
<1> QED BY <1>1, <1>2, <1>6, PlacedOnly

LEMMA TransitionKept == ASSUME PlaceInv, transition_run PROVE Kept
<1> DEFINE target == IF Cancelled THEN "Cancelled" ELSE task.goal
           e == Plain(target, me, Len(log))
<1>1. task.pc # "none" /\ task \in Task
  BY Placing DEF transition_run, At
<1>2. (task' = Ended /\ TaskOnly) \/ AppendThen(e, Ended)
  BY DEF transition_run
<1>3. e.kind \notin Observations
  <2>1. target \notin Observations
    BY <1>1 DEF Task, RunStates
  <2> QED BY <2>1 DEF Plain, Entry
<1> HIDE DEF e
<1> QED BY <1>1, <1>2, <1>3, FreeTasks, FreeOnly, FreeAppend

LEMMA StoreErrorKept == ASSUME PlaceInv, StoreError PROVE Kept
<1>1. task \in Task /\ token \in BOOLEAN /\ UNCHANGED calls /\ ObservesNothing
  BY Placing DEF StoreError, ObservesNothing, logVars
<1>2. PICK t : task' = t /\ Free(t)
  BY <1>1, FreeErrors DEF StoreError
<1> QED BY <1>1, <1>2, FreeStep

LEMMA TaskStepKept == ASSUME PlaceInv, TaskStep PROVE Kept
BY BeginRunKept, BeginRunningKept, SuperviseKept, CompileKept, PrepareKept, PreDispatchKept,
   NotDispatchedKept, SlotKept, InferKept, CallKept, HeartbeatKept, ObservationKept, UnknownKept,
   DecideKept, FailureKept, ReloadKept, TransitionKept, StoreErrorKept
   DEF TaskStep

(* The cancellation handler, the processes and the clock.                  *)
LEMMA BesideKept ==
    ASSUME PlaceInv, UNCHANGED <<log, state>>, UNCHANGED calls, UNCHANGED task \/ task' = Ended PROVE Kept
<1>1. PICK t : t = task'
  OBVIOUS
<1>2. Placed(t)
  <2>1. CASE task' = task
    BY <1>1, <2>1, Placing
  <2>2. CASE task' = Ended
    BY <1>1, <2>2 DEF Ended, Placed, Driving, Calling
  <2> QED BY <2>1, <2>2
<1> QED BY <1>1, <1>2, PlacedStep

LEMMA CancelKept ==
    ASSUME PlaceInv, NEW a \in Actors, cancel_run(a) \/ CancelStep(a) PROVE Kept
<1>1. UNCHANGED calls /\ UNCHANGED task
  BY DEF cancel_run, CancelStep, finish_inactive_cancellation, signal, CancelOnly
<1>2. task \in Task /\ LogInv /\ Placed(task) /\ task.hist \in Nat
  BY Placing DEF Task
<1>3. CASE UNCHANGED logVars
  BY <1>1, <1>3, BesideKept DEF logVars
<1>4. PICK t : task = t
  OBVIOUS
<1>5. ASSUME NEW e, append_event(e), e.kind \in {"CancelRequested", "Cancelled"}, Placed(t)' PROVE Kept
  <2>1. CallsWereMade'
    BY <1>1, <1>5, CallsKept DEF ObservesNothing, append_event
  <2>2. Placed(task)'
    BY <1>1, <1>4, <1>5
  <2> QED BY <2>1, <2>2 DEF Kept
<1>6. CASE append_event(Plain("CancelRequested", a, Len(log)))
  <2>1. PICK e : e = Plain("CancelRequested", a, Len(log))
    OBVIOUS
  <2>2. e.kind = "CancelRequested"
    BY <2>1 DEF Plain, Entry
  <2>3. Placed(t)'
    BY <1>1, <1>2, <1>4, <1>6, <2>1, <2>2, PlacedLater
  <2> QED BY <1>5, <1>6, <2>1, <2>2, <2>3
<1>7. CASE state \in Inactive /\ append_event(Plain("Cancelled", a, LastOf({"CancelRequested"})))
  <2>1. PICK e : e = Plain("Cancelled", a, LastOf({"CancelRequested"}))
    OBVIOUS
  <2>2. e.kind = "Cancelled"
    BY <2>1 DEF Plain, Entry
  <2>3. /\ ~Driving(t) /\ ~Calling(t) /\ t.pc \notin {"decide", "reload", "loop"}
        /\ t.pc = "toRunning" => t.after \notin {"slotBeat", "beat"}
    BY <1>2, <1>4, <1>7 DEF Placed, Driving, Inactive
  <2>4. Placed(t)'
    BY <2>3 DEF Placed, Driving, Calling
  <2> QED BY <1>5, <1>7, <2>1, <2>2, <2>4
<1> QED BY <1>3, <1>6, <1>7 DEF cancel_run, CancelStep, finish_inactive_cancellation, signal

LEMMA StartKept == ASSUME PlaceInv, NEW a \in Actors, Start(a) PROVE Kept
<1>1. /\ UNCHANGED calls /\ UNCHANGED log
      /\ task' = [Ended EXCEPT !.owner = a, !.pc = "claim", !.after = "loop"]
  BY DEF Start, logVars
<1>2. PICK t : t = task'
  OBVIOUS
<1>3. t.pc = "claim" /\ t.after = "loop"
  BY <1>1, <1>2 DEF Ended
<1>4. Free(t)
  BY <1>3 DEF Free, Watched
<1> QED BY <1>1, <1>2, <1>4, FreeStep DEF ObservesNothing

LEMMA PlaceNext == ASSUME PlaceInv, [Next]_vars PROVE Kept
<1>1. CASE TaskStep
  BY <1>1, TaskStepKept
<1>2. CASE PassDeadline
  BY <1>2, BesideKept DEF PassDeadline, logVars
<1>3. CASE LeaseLapses
  BY <1>3, BesideKept DEF LeaseLapses, ExpireLease
<1>4. ASSUME NEW a \in Actors, Start(a) PROVE Kept
  BY <1>4, StartKept
<1>5. ASSUME NEW a \in Actors, cancel_run(a) \/ CancelStep(a) PROVE Kept
  BY <1>5, CancelKept
<1>6. ASSUME NEW a \in Actors, Boot(a) \/ Crash(a) \/ Shutdown(a) \/ Exit(a) PROVE Kept
  BY <1>6, BesideKept DEF Boot, Crash, Shutdown, Exit, Dies, logVars
<1>7. CASE UNCHANGED vars
  BY <1>7, BesideKept DEF vars, taskVars, logVars
<1> QED BY <1>1, <1>2, <1>3, <1>4, <1>5, <1>6, <1>7 DEF Next

(* Every step keeps what the log says of the calls.                        *)
LEMMA PlaceSteps == PlaceInv /\ [Next]_vars => PlaceInv'
<1> SUFFICES ASSUME PlaceInv, [Next]_vars PROVE PlaceInv'
  OBVIOUS
<1>1. SupervisorInv' /\ (LogNext \/ UNCHANGED logVars) /\ LogTypeOK'
  BY SupervisorSteps DEF PlaceInv, Good, SupervisorInv, TypeOK
<1>2. CallsWereMade' /\ Placed(task)'
  BY PlaceNext DEF Kept
<1>3. LogInv /\ LogTypeOK /\ PredecessorsSucceeded /\ RepairsAuthorized
  BY DEF PlaceInv, SupervisorInv, TypeOK
<1>4. PredecessorsSucceeded' /\ RepairsAuthorized'
  <2>1. CASE UNCHANGED log
    BY <1>3, <2>1 DEF PredecessorsSucceeded, RepairsAuthorized, SucceededStage, Told, Prepared, AttemptOf
  <2>2. ASSUME NEW e \in Event, append_event(e) PROVE PredecessorsSucceeded' /\ RepairsAuthorized'
    BY <1>1, <1>3, <2>2, PredecessorsKept, RepairsKept
  <2>3. UNCHANGED log \/ \E e \in Event : append_event(e)
    BY <1>1, <1>3, LogSteps DEF ExpireLease, logVars
  <2> QED BY <2>1, <2>2, <2>3
<1> QED BY <1>1, <1>2, <1>4 DEF PlaceInv

LEMMA PlaceStarts == Init => PlaceInv
<1> SUFFICES ASSUME Init PROVE PlaceInv
  OBVIOUS
<1>1. SupervisorInv /\ LogInit
  BY SupervisorStarts
<1>2. DOMAIN log = {1} /\ log[1].kind = "Created"
  BY <1>1 DEF LogInit, create_run, Plain, Entry
<1>3. PredecessorsSucceeded /\ RepairsAuthorized /\ CallsWereMade
  BY <1>2 DEF PredecessorsSucceeded, RepairsAuthorized, CallsWereMade, Answers, SucceededStage, Told, Prepared
<1>4. Placed(task)
  BY DEF Init, Ended, Placed, Driving, Calling
<1> QED BY <1>1, <1>3, <1>4 DEF PlaceInv

(* What the log says of an open attempt is what a replay finds.            *)
LEMMA OpenIsReplayed ==
    ASSUME LogInv, ~Has(Failures), NEW s, NEW a, Open(s, a)
    PROVE  LET r == recovery_action(Len(log)) IN r.act = "Prepared" /\ r.stage = s
<1> DEFINE h == Len(log)
           attempts == {i \in 1..h : log[i].kind = "Prepared"}
           prepared == {p \in attempts : OutcomeIn(h, p) = {}}
           replay(act, p) == [act |-> act, stage |-> log[p].stage, to |-> "none"]
           found == CHOOSE p \in prepared : TRUE
           open == replay("Prepared", found)
           failed == \E i \in 1..h : log[i].kind \in Failures
           observed == {q \in attempts : /\ DecisionIn(h, q) = {}
                                         /\ \E i \in OutcomeIn(h, q) : log[i].kind # "Unknown"}
           resolved == {i \in 1..h : log[i].kind \in Decisions \cup {"Unknown"}}
           seen == replay("Observed", CHOOSE q \in observed : TRUE)
           last == Following(CHOOSE i \in resolved : \A j \in resolved : j <= i)
<1>1. Len(log) \in Nat /\ DOMAIN log = 1..Len(log)
  BY DEF LogInv, LogTypeOK
<1>2. ~failed
  BY <1>1 DEF Has
<1>3. PICK p \in Prepared(s) : inference_terminal_count(p) = {}
  BY DEF Open
<1>4. \A q : OutcomeIn(h, q) = inference_terminal_count(q)
  BY <1>1 DEF OutcomeIn, inference_terminal_count
<1>5. p \in prepared /\ log[p].stage = s
  BY <1>1, <1>3, <1>4 DEF Prepared
<1>6. \A q \in prepared : ~Resolved(q) /\ q \in DOMAIN log /\ log[q].kind = "Prepared"
  <2> SUFFICES ASSUME NEW q \in prepared PROVE ~Resolved(q) /\ q \in DOMAIN log /\ log[q].kind = "Prepared"
    OBVIOUS
  <2>1. q \in DOMAIN log /\ log[q].kind = "Prepared" /\ inference_terminal_count(q) = {}
    BY <1>1, <1>4
  <2>2. DecisionsOf(q) = {}
    BY <2>1, PointsBack DEF DecisionsOf, inference_terminal_count, Outcomes
  <2> QED BY <2>1, <2>2 DEF Resolved
<1>7. prepared = {p}
  <2> HIDE DEF prepared
  <2> QED BY <1>5, <1>6, OneOpen DEF OneUnresolvedAttempt
<1>8. found = p
  BY <1>7
<1>9. prepared # {}
  BY <1>7
<1>10. recovery_action(h) = open
  <2>1. recovery_action(h) = IF failed THEN Finish("Failed")
                             ELSE IF prepared # {} THEN open
                             ELSE IF observed # {} THEN seen
                             ELSE IF resolved # {} THEN last
                             ELSE NextStage("InitialPlan")
    BY DEF recovery_action
  <2> HIDE DEF failed, prepared, observed, seen, open, last, resolved
  <2> QED BY <1>2, <1>9, <2>1
<1>11. open.act = "Prepared" /\ open.stage = log[found].stage
  OBVIOUS
<1> HIDE DEF found, open, prepared
<1> QED BY <1>5, <1>8, <1>10, <1>11

LEMMA UndecidedIsReplayed ==
    ASSUME LogInv, ~Has(Failures), NEW s, Undecided(s)
    PROVE  LET r == recovery_action(Len(log)) IN r.act = "Observed" /\ r.stage = s
<1> DEFINE h == Len(log)
           attempts == {i \in 1..h : log[i].kind = "Prepared"}
           prepared == {p \in attempts : OutcomeIn(h, p) = {}}
           observed == {p \in attempts : /\ DecisionIn(h, p) = {}
                                         /\ \E i \in OutcomeIn(h, p) : log[i].kind # "Unknown"}
           replay(act, p) == [act |-> act, stage |-> log[p].stage, to |-> "none"]
           found == CHOOSE p \in observed : TRUE
           seen == replay("Observed", found)
           failed == \E i \in 1..h : log[i].kind \in Failures
           resolved == {i \in 1..h : log[i].kind \in Decisions \cup {"Unknown"}}
           open == replay("Prepared", CHOOSE q \in prepared : TRUE)
           last == Following(CHOOSE i \in resolved : \A j \in resolved : j <= i)
<1>1. Len(log) \in Nat /\ DOMAIN log = 1..Len(log)
  BY DEF LogInv, LogTypeOK
<1>2. ~failed
  BY <1>1 DEF Has
<1>3. PICK p \in Prepared(s) : /\ DecisionsOf(p) = {}
                               /\ \E i \in inference_terminal_count(p) : log[i].kind # "Unknown"
  BY DEF Undecided
<1>4. \A q : OutcomeIn(h, q) = inference_terminal_count(q) /\ DecisionIn(h, q) = DecisionsOf(q)
  BY <1>1 DEF OutcomeIn, inference_terminal_count, DecisionIn, DecisionsOf
<1>5. p \in observed /\ log[p].stage = s
  BY <1>1, <1>3, <1>4 DEF Prepared
<1>6. \A q \in observed : ~Resolved(q) /\ q \in DOMAIN log /\ log[q].kind = "Prepared"
  <2> SUFFICES ASSUME NEW q \in observed PROVE ~Resolved(q) /\ q \in DOMAIN log /\ log[q].kind = "Prepared"
    OBVIOUS
  <2>1. /\ q \in DOMAIN log /\ log[q].kind = "Prepared" /\ DecisionsOf(q) = {}
        /\ \E i \in inference_terminal_count(q) : log[i].kind # "Unknown"
    BY <1>1, <1>4
  <2>2. \A i, j \in inference_terminal_count(q) : i = j
    BY DEF inference_terminal_count, LogInv, OutcomesAreFinal
  <2> QED BY <2>1, <2>2 DEF Resolved
<1>7. \A q \in prepared : ~Resolved(q) /\ q \in DOMAIN log /\ log[q].kind = "Prepared"
  <2> SUFFICES ASSUME NEW q \in prepared PROVE ~Resolved(q) /\ q \in DOMAIN log /\ log[q].kind = "Prepared"
    OBVIOUS
  <2>1. q \in DOMAIN log /\ log[q].kind = "Prepared" /\ inference_terminal_count(q) = {}
    BY <1>1, <1>4
  <2>2. DecisionsOf(q) = {}
    BY <2>1, PointsBack DEF DecisionsOf, inference_terminal_count, Outcomes
  <2> QED BY <2>1, <2>2 DEF Resolved
<1>8. p \notin prepared
  BY <1>3, <1>4
<1>9. prepared = {} /\ observed = {p}
  <2> HIDE DEF prepared, observed
  <2> QED BY <1>5, <1>6, <1>7, <1>8, OneOpen DEF OneUnresolvedAttempt
<1>10. found = p
  BY <1>9
<1>11. recovery_action(h) = seen
  <2>1. recovery_action(h) = IF failed THEN Finish("Failed")
                             ELSE IF prepared # {} THEN open
                             ELSE IF observed # {} THEN seen
                             ELSE IF resolved # {} THEN last
                             ELSE NextStage("InitialPlan")
    BY DEF recovery_action
  <2> HIDE DEF failed, prepared, observed, seen, open, last, resolved
  <2> QED BY <1>2, <1>9, <2>1
<1>12. seen.act = "Observed" /\ seen.stage = log[found].stage
  OBVIOUS
<1> HIDE DEF found, seen, observed
<1> QED BY <1>5, <1>10, <1>11, <1>12

LEMMA TaskIsPlaced == ASSUME PlaceInv PROVE TaskMatchesLog
<1>1. LogInv /\ Placed(task)
  BY Placing
<1>2. ASSUME task.pc \in {"dispatch", "notDispatched", "slot", "slotBeat", "granted",
                          "calling", "beat", "observeSucceeded", "observeFailed"}
      PROVE  /\ state = "Running"
             /\ recovery_action(Len(log)).act = "Prepared"
             /\ recovery_action(Len(log)).stage = task.stage
             /\ log[prep].actor = me
             /\ log[latest_claim_for_run].actor = me
  <2>1. /\ state = "Running" /\ ~Has(Failures) /\ task.stage \in Stages
        /\ Open(task.stage, task.owner) /\ ClaimedBy(task.owner)
    BY <1>1, <1>2 DEF Placed, Driving, Calling
  <2> QED BY <1>1, <2>1, OpenIsReplayed, OpenIsPrep DEF ClaimedBy, me
<1>3. ASSUME task.pc = "decide"
      PROVE  /\ state = "Running"
             /\ recovery_action(Len(log)).act = "Observed"
             /\ recovery_action(Len(log)).stage = task.stage
  BY <1>1, <1>3, UndecidedIsReplayed DEF Placed
<1> QED BY <1>2, <1>3 DEF TaskMatchesLog

(* An accepted run made the calls of the stages up to the accepting one:   *)
(* a first review that accepts leaves no repair authorised.                *)
LEMMA CallsAreCounted == ASSUME PlaceInv PROVE CompletedCallCount
<1> SUFFICES ASSUME state = "Completed"
             PROVE  {s \in Stages : calls[s] = 1} \in {{"InitialPlan", "InitialReview"}, Stages}
  BY DEF CompletedCallCount
<1>1. LogInv
  BY Placing
<1>2. PICK i \in DOMAIN log : log[i].kind = "ReviewAccepted" /\ log[AttemptOf(i)].stage \in ReviewStages
  BY <1>1 DEF LogInv, CompletedIsReviewed
<1>3. /\ log[i].kind \in Decisions
      /\ \A r \in DOMAIN log : log[r].kind = "RepairOnceAuthorized" => log[r].kind \in Decisions
  BY <1>2 DEF Decisions, ReviewDecisions
<1>4. /\ log[i].parent \in DOMAIN log /\ log[log[i].parent].kind = "Succeeded"
      /\ AttemptOf(i) = log[log[i].parent].parent
      /\ AttemptOf(i) \in DOMAIN log /\ log[AttemptOf(i)].kind = "Prepared"
  BY <1>1, <1>3, PointsBack
<1>5. SucceededStage(log[AttemptOf(i)].stage)
  BY <1>4 DEF SucceededStage, Told
<1>6. \A s \in Before[log[AttemptOf(i)].stage] : SucceededStage(s)
  BY <1>4 DEF PlaceInv, PredecessorsSucceeded
<1>7. /\ Before["InitialReview"] = {"InitialPlan"}
      /\ Before["FinalReview"] = {"InitialPlan", "InitialReview", "Repair"}
      /\ Stages = {"InitialPlan", "InitialReview", "Repair", "FinalReview"}
      /\ ReviewStages = {"InitialReview", "FinalReview"}
  BY DEF Before, Stages, ReviewStages
<1>8. \A s \in Stages : SucceededStage(s) => calls[s] = 1
  BY DEF PlaceInv, CallsWereMade, SucceededStage, Told, Answers
<1>9. CASE log[AttemptOf(i)].stage = "FinalReview"
  <2>1. \A s \in Stages : calls[s] = 1
    BY <1>5, <1>6, <1>7, <1>8, <1>9
  <2> QED BY <2>1
<1>10. CASE log[AttemptOf(i)].stage = "InitialReview"
  <2>1. calls["InitialPlan"] = 1 /\ calls["InitialReview"] = 1
    BY <1>5, <1>6, <1>7, <1>8, <1>10
  <2>2. Prepared("Repair") = {}
    <3> SUFFICES ASSUME Prepared("Repair") # {} PROVE FALSE
      OBVIOUS
    <3>1. PICK r \in DOMAIN log : log[r].kind = "RepairOnceAuthorized" /\ log[AttemptOf(r)].stage = "InitialReview"
      BY DEF PlaceInv, RepairsAuthorized
    <3>2. /\ log[r].parent \in DOMAIN log /\ log[log[r].parent].kind = "Succeeded"
          /\ AttemptOf(r) = log[log[r].parent].parent
          /\ AttemptOf(r) \in DOMAIN log /\ log[AttemptOf(r)].kind = "Prepared"
      BY <1>1, <1>3, <3>1, PointsBack
    <3>3. AttemptOf(r) = AttemptOf(i)
      <4>1. Prepared("InitialReview") = {AttemptOf(i)}
        BY <1>1, <1>4, <1>10 DEF LogInv, StageOnceInOrder
      <4>2. AttemptOf(r) \in Prepared("InitialReview")
        BY <3>1, <3>2 DEF Prepared
      <4> QED BY <4>1, <4>2
    <3>4. log[r].parent = log[i].parent
      BY <1>1, <1>4, <3>2, <3>3 DEF LogInv, OutcomesAreFinal, Outcomes
    <3>5. r = i
      BY <1>1, <1>3, <3>1, <3>4 DEF LogInv, OutcomesAreFinal
    <3> QED BY <1>2, <3>1, <3>5
  <2>3. Prepared("FinalReview") = {}
    <3> SUFFICES ASSUME NEW f \in Prepared("FinalReview") PROVE FALSE
      OBVIOUS
    <3>1. \E j \in Prepared("Repair") : j < f
      BY <1>1, <1>7 DEF LogInv, StageOnceInOrder, Prepared
    <3> QED BY <2>2, <3>1
  <2>4. calls["Repair"] # 1 /\ calls["FinalReview"] # 1
    BY <1>7, <2>2, <2>3 DEF PlaceInv, SupervisorInv, NoDuplicateCall
  <2>5. {s \in Stages : calls[s] = 1} = {"InitialPlan", "InitialReview"}
    BY <1>7, <2>1, <2>4
  <2> QED BY <2>5
<1> QED BY <1>2, <1>7, <1>9, <1>10

-----------------------------------------------------------------------------
(* The inductive invariant of the supervisor.                              *)
THEOREM SupervisorInvariant == Spec => []SupervisorInv
<1>1. SupervisorInv /\ [Next]_vars => SupervisorInv'
  BY SupervisorSteps DEF Good
<1>2. Init => SupervisorInv
  BY SupervisorStarts
<1> QED BY <1>1, <1>2, PTL DEF Spec

(* Every variable keeps its type, for any number of processes and faults.  *)
THEOREM SupervisorTypeCorrect == Spec => []TypeOK
<1>1. SupervisorInv => TypeOK
  BY DEF SupervisorInv
<1> QED BY <1>1, SupervisorInvariant, PTL

(* The provider is called at most once for a stage (infer_structured), and *)
(* only for one whose preparation is durable, whatever the crashes, lost   *)
(* leases, takeovers and retries in between.                               *)
THEOREM CallsAreNotRepeated == Spec => []NoDuplicateCall
<1>1. SupervisorInv => NoDuplicateCall
  BY DEF SupervisorInv
<1> QED BY <1>1, SupervisorInvariant, PTL

LEMMA PlaceInvariant == Spec => []PlaceInv
<1>1. Init => PlaceInv
  BY PlaceStarts
<1>2. PlaceInv /\ [Next]_vars => PlaceInv'
  BY PlaceSteps
<1> QED BY <1>1, <1>2, PTL DEF Spec

(* The task is always where the durable log says it is, through            *)
(* heartbeats, lost leases, takeovers and cancellations, and a completed   *)
(* run was paid for with exactly two calls, or four with a repair          *)
(* (recovery_action, execute_semantic_prepared).                           *)
THEOREM SupervisorSound == Spec => []SupervisorIsSound
<1>1. PlaceInv => SupervisorIsSound
  BY TaskIsPlaced, CallsAreCounted DEF SupervisorIsSound, PlaceInv, SupervisorInv
<1> QED BY <1>1, PlaceInvariant, PTL

(* Evidence of an answer or an error is kept of calls that were made, and  *)
(* evidence that a call was not dispatched, or was cancelled before it, of *)
(* stages whose call was not made (execute_semantic_prepared).             *)
THEOREM EvidenceTellsTheCall == Spec => []EvidenceIsTrue
<1>1. PlaceInv => EvidenceIsTrue
  <2> SUFFICES ASSUME PlaceInv, NEW i \in DOMAIN log
               PROVE  /\ log[i].kind \in {"Succeeded", "ObservedFailed"} => CallsOf(i) = 1
                      /\ log[i].kind = "NotDispatched" => CallsOf(i) = 0
    BY DEF EvidenceIsTrue
  <2>1. log[i].kind \in Observations => log[log[i].parent].stage \in Stages
    BY Placing, PointsBack DEF Outcomes, LogTypeOK, Event
  <2> QED BY <2>1 DEF PlaceInv, CallsWereMade, Told, Answers, CallsOf
<1> QED BY <1>1, PlaceInvariant, PTL

(* A step of the supervisor is one of the log or leaves the log alone, so  *)
(* what is shown of the log holds of the runs it drives.                   *)
LEMMA SupervisorKeepsLog == Spec => LogSpec
<1>1. SupervisorInv /\ [Next]_vars => [LogNext]_logVars
  BY SupervisorSteps DEF Good
<1>2. Init => LogInit
  BY SupervisorStarts
<1>3. Init /\ [][Next]_vars /\ []SupervisorInv => LogInit /\ [][LogNext]_logVars
  BY <1>1, <1>2, PTL
<1> QED BY <1>3, SupervisorInvariant, PTL DEF Spec, LogSpec

(* What the store's log promises holds of every run the supervisor drives. *)
THEOREM SupervisedLogSound == Spec => []LogIsSound
BY LogSound, SupervisorKeepsLog, PTL

-----------------------------------------------------------------------------
(* The review protocol: what a verdict does to the phase of the run.       *)

(* The phase a decision of kind k on an attempt of stage s leads to.       *)
PhaseAfter(k, s) ==
    CASE k = "PlanAccepted" -> IF s = "InitialPlan" THEN "InitialReview" ELSE "FinalReview"
      [] k = "RepairOnceAuthorized" -> "Repair"
      [] k = "ReviewAccepted" -> "accepted"
      [] OTHER -> "refused"

(* A decision comes after the observation it rests on, and the decisions   *)
(* are made in the order of their attempts.                                *)
DecisionsInOrder ==
    /\ \A i \in DOMAIN log : log[i].kind \in Decisions => log[i].parent < i
    /\ \A i, j \in DOMAIN log :
          log[i].kind \in Decisions /\ log[j].kind \in Decisions /\ i < j
          => AttemptOf(i) < AttemptOf(j)

(* An attempt without a decision is the present phase's.                   *)
UndecidedIsPhase ==
    \A p \in DOMAIN log :
        log[p].kind = "Prepared" /\ DecisionsOf(p) = {} => Phase = log[p].stage

(* A planning that failed was not accepted.                                *)
FailedIsNotAccepted == Has(Failures) => Phase # "accepted"

ReviewInv == LogInv /\ DecisionsInOrder /\ UndecidedIsPhase /\ FailedIsNotAccepted

LEMMA NoDecisionYet == ASSUME ~Has(Decisions) PROVE Phase = "InitialPlan"
BY DEF Phase

(* The last decision tells the phase.                                      *)
LEMMA LastDecisionTells ==
    ASSUME LogInv, NEW c \in DOMAIN log, log[c].kind \in Decisions,
           \A x \in DOMAIN log : log[x].kind \in Decisions => x <= c
    PROVE  Phase = PhaseAfter(log[c].kind, log[AttemptOf(c)].stage)
<1>1. Decisions \in SUBSET Kinds /\ Has(Decisions) /\ LogTypeOK /\ LatestExists
  BY DEF Kinds, Has, LogInv
<1>2. /\ LastOf(Decisions) \in DOMAIN log /\ log[LastOf(Decisions)].kind \in Decisions
      /\ c <= LastOf(Decisions)
  BY <1>1, LastIsGreatest
<1>3. c \in Nat /\ LastOf(Decisions) \in Nat
  BY <1>1, <1>2 DEF LogTypeOK
<1>4. LastOf(Decisions) = c
  BY <1>2, <1>3
<1> QED BY <1>1, <1>4 DEF Phase, PhaseAfter

(* So does the latest event of all, when it is a decision and only claims  *)
(* follow it.                                                              *)
LEMMA LatestCause ==
    ASSUME LogInv
    PROVE  /\ latest_non_claim_event \in DOMAIN log
           /\ \A i \in DOMAIN log : log[i].kind # "Claimed" => i <= latest_non_claim_event
           /\ log[latest_non_claim_event].kind \in Decisions =>
                Phase = PhaseAfter(log[latest_non_claim_event].kind,
                                   log[AttemptOf(latest_non_claim_event)].stage)
<1> DEFINE K == Kinds \ {"Claimed"}
           c == latest_non_claim_event
<1>1. K \in SUBSET Kinds /\ LogTypeOK /\ LatestExists
  BY DEF LogInv
<1>2. Has(K)
  <2>1. "Created" \in K
    BY DEF Kinds
  <2> QED BY <2>1 DEF Has, LogInv, FirstIsCreated
<1>3. /\ c \in DOMAIN log /\ \A i \in DOMAIN log : log[i].kind \in K => i <= c
  BY <1>1, <1>2, LastIsGreatest DEF latest_non_claim_event
<1>4. \A i \in DOMAIN log : log[i].kind \in Kinds
  BY <1>1 DEF LogTypeOK, Event
<1>5. \A i \in DOMAIN log : log[i].kind # "Claimed" => i <= c
  BY <1>3, <1>4
<1>6. "Claimed" \notin Decisions
  BY DEF Decisions, PlanDecisions, ReviewDecisions
<1> HIDE DEF c
<1>7. ASSUME log[c].kind \in Decisions PROVE Phase = PhaseAfter(log[c].kind, log[AttemptOf(c)].stage)
  BY <1>3, <1>5, <1>6, <1>7, LastDecisionTells
<1> QED BY <1>3, <1>5, <1>7 DEF c

(* A decision whose attempt is of the latest stage prepared is the last.   *)
LEMMA LatestStageDecides ==
    ASSUME ReviewInv, NEW c \in DOMAIN log, log[c].kind \in Decisions,
           \A p \in DOMAIN log : log[p].kind = "Prepared" =>
              log[p].stage \in Before[log[AttemptOf(c)].stage] \cup {log[AttemptOf(c)].stage}
    PROVE  Phase = PhaseAfter(log[c].kind, log[AttemptOf(c)].stage)
<1>1. LogInv /\ DOMAIN log = 1..Len(log) /\ Len(log) \in Nat
  BY DEF ReviewInv, LogInv, LogTypeOK
<1>2. ASSUME NEW x \in DOMAIN log, log[x].kind \in Decisions, c < x PROVE FALSE
  <2>1. AttemptOf(c) < AttemptOf(x)
    BY <1>2 DEF ReviewInv, DecisionsInOrder
  <2>2. PICK p \in DOMAIN log : p = AttemptOf(c) /\ log[p].kind = "Prepared"
    BY <1>1, PointsBack
  <2>3. PICK q \in DOMAIN log : q = AttemptOf(x) /\ log[q].kind = "Prepared"
    BY <1>1, <1>2, PointsBack
  <2>4. Prepared(log[q].stage) = {q}
    BY <1>1, <2>3 DEF LogInv, StageOnceInOrder
  <2>5. CASE log[q].stage = log[p].stage
    BY <1>1, <2>1, <2>2, <2>3, <2>4, <2>5 DEF Prepared
  <2>6. CASE log[q].stage \in Before[log[p].stage]
    <3>1. \E j \in Prepared(log[q].stage) : j < p
      BY <1>1, <2>2, <2>6 DEF LogInv, StageOnceInOrder
    <3> QED BY <1>1, <2>1, <2>2, <2>3, <2>4, <3>1
  <2> QED BY <2>2, <2>3, <2>5, <2>6
<1>3. \A x \in DOMAIN log : log[x].kind \in Decisions => x <= c
  BY <1>1, <1>2
<1> QED BY <1>1, <1>3, LastDecisionTells

(* A stage is only prepared in its own phase: the candidate and the        *)
(* authorisation it is bound to are the last verdict.                      *)
LEMMA PreparedInPhase ==
    ASSUME ReviewInv, NEW e \in Event, append_event(e), e.kind = "Prepared" PROVE Phase = e.stage
<1>1. /\ e.stage \in Stages /\ StageCandidate(e)
      /\ \A s \in Stages : Prepared(s) # {} <=> s \in Before[e.stage]
  BY Admission DEF Event, validate_planner_inference_prepared, validate_planner_stage_context
<1>2. LogInv /\ \A p \in DOMAIN log : log[p].kind = "Prepared" => log[p].stage \in Stages
  BY DEF ReviewInv, LogInv, LogTypeOK, Event
<1>3. \A p \in DOMAIN log : log[p].kind = "Prepared" => log[p].stage \in Before[e.stage]
  BY <1>1, <1>2 DEF Prepared
<1>4. /\ Before["InitialPlan"] = {} /\ Before["InitialReview"] = {"InitialPlan"}
      /\ Before["Repair"] = {"InitialPlan", "InitialReview"}
      /\ Before["FinalReview"] = {"InitialPlan", "InitialReview", "Repair"}
      /\ Stages = {"InitialPlan", "InitialReview", "Repair", "FinalReview"}
  BY DEF Before, Stages
<1>5. "PlanAccepted" \in Decisions /\ "RepairOnceAuthorized" \in Decisions
  BY DEF Decisions, PlanDecisions, ReviewDecisions
<1>6. CASE e.stage = "InitialPlan"
  <2>1. ~Has(Decisions)
    BY <1>2, <1>3, <1>4, <1>6, PointsBack DEF Has
  <2> QED BY <1>6, <2>1, NoDecisionYet
<1>7. CASE e.stage = "InitialReview"
  <2>1. PICK c \in DOMAIN log : log[c].kind = "PlanAccepted" /\ log[AttemptOf(c)].stage = "InitialPlan"
    BY <1>1, <1>7 DEF StageCandidate, validate_candidate_binding
  <2>2. Phase = PhaseAfter(log[c].kind, log[AttemptOf(c)].stage)
    BY <1>3, <1>4, <1>5, <1>7, <2>1, LatestStageDecides
  <2> QED BY <1>7, <2>1, <2>2 DEF PhaseAfter
<1>8. CASE e.stage = "Repair"
  <2>1. PICK c \in DOMAIN log : log[c].kind = "RepairOnceAuthorized" /\ log[AttemptOf(c)].stage = "InitialReview"
    BY <1>1, <1>8 DEF StageCandidate
  <2>2. Phase = PhaseAfter(log[c].kind, log[AttemptOf(c)].stage)
    BY <1>3, <1>4, <1>5, <1>8, <2>1, LatestStageDecides
  <2> QED BY <1>8, <2>1, <2>2 DEF PhaseAfter
<1>9. CASE e.stage = "FinalReview"
  <2>1. PICK c \in DOMAIN log : log[c].kind = "PlanAccepted" /\ log[AttemptOf(c)].stage = "Repair"
    BY <1>1, <1>9 DEF StageCandidate, validate_candidate_binding
  <2>2. Phase = PhaseAfter(log[c].kind, log[AttemptOf(c)].stage)
    BY <1>3, <1>4, <1>5, <1>9, <2>1, LatestStageDecides
  <2> QED BY <1>9, <2>1, <2>2 DEF PhaseAfter
<1> QED BY <1>1, <1>4, <1>6, <1>7, <1>8, <1>9

(* An event that decides nothing leaves the phase as it is.                *)
LEMMA PhaseKept ==
    ASSUME LogInv, NEW e, log' = Append(log, e), e.kind \notin Decisions
    PROVE  /\ Phase' = Phase
           /\ \A p : DecisionsOf(p)' = DecisionsOf(p)
           /\ \A i \in DOMAIN log : log[i].kind \in Decisions => AttemptOf(i)' = AttemptOf(i)
<1>1. /\ Len(log) \in Nat /\ Len(log') = Len(log) + 1
      /\ DOMAIN log = 1..Len(log) /\ DOMAIN log' = 1..Len(log) + 1
      /\ \A i \in DOMAIN log : log'[i] = log[i]
      /\ log'[Len(log) + 1] = e
  BY Extended DEF LogInv
<1>2. \A i \in DOMAIN log : log[i].kind \in Decisions => AttemptOf(i)' = AttemptOf(i)
  BY <1>1, PointsBack DEF AttemptOf
<1>3. \A p : DecisionsOf(p)' = DecisionsOf(p)
  BY <1>1, <1>2 DEF DecisionsOf
<1>4. Has(Decisions)' <=> Has(Decisions)
  BY <1>1 DEF Has
<1>5. ASSUME ~Has(Decisions) PROVE Phase' = Phase
  BY <1>4, <1>5 DEF Phase
<1>6. ASSUME Has(Decisions) PROVE Phase' = Phase
  <2>1. Latest(Decisions)' = Latest(Decisions)
    BY <1>1 DEF Latest
  <2>2. LastOf(Decisions)' = LastOf(Decisions)
    BY <2>1 DEF LastOf
  <2>3. Decisions \in SUBSET Kinds /\ LogTypeOK /\ LatestExists
    BY DEF Kinds, LogInv
  <2>4. LastOf(Decisions) \in DOMAIN log /\ log[LastOf(Decisions)].kind \in Decisions
    BY <1>6, <2>3, LastIsGreatest
  <2>5. PICK d \in DOMAIN log : d = LastOf(Decisions)
    BY <2>4
  <2>6. PICK q \in DOMAIN log : q = AttemptOf(d) /\ AttemptOf(d)' = q
    BY <1>2, <2>4, <2>5, PointsBack
  <2>7. Phase = PhaseAfter(log[d].kind, log[q].stage)
    BY <1>6, <2>5, <2>6 DEF Phase, PhaseAfter
  <2>8. LastOf(Decisions)' = d
    BY <2>2, <2>5
  <2>9. Phase' = PhaseAfter(log'[d].kind, log'[q].stage)
    BY <1>4, <1>6, <2>6, <2>8 DEF Phase, PhaseAfter
  <2>10. log'[d] = log[d] /\ log'[q] = log[q]
    BY <1>1
  <2> QED BY <2>7, <2>9, <2>10
<1> QED BY <1>2, <1>3, <1>5, <1>6

(* A decision is admitted on an attempt that has none, in a run that has   *)
(* not failed.                                                             *)
LEMMA DecisionAdmitted ==
    ASSUME LogInv, NEW e, append_event(e), e.kind \in Decisions
    PROVE  /\ ~Has(Failures)
           /\ \E p \in DOMAIN log :
                /\ log[p].kind = "Prepared" /\ log[p].stage \in Stages /\ DecisionsOf(p) = {}
                /\ e.parent \in DOMAIN log /\ log[e.parent].parent = p
                /\ e.kind \in PlanDecisions => log[p].stage \in PlanStages
                /\ e.kind \in ReviewDecisions => log[p].stage \in ReviewStages
                /\ e.kind = "RepairOnceAuthorized" => log[p].stage = "InitialReview"
<1> DEFINE p == log[e.parent].parent
<1>1. ~Has(Failures)
  BY Admission DEF root_planning_failure_fence, StateChanges, RunStates, Decisions, PlanDecisions,
                   ReviewDecisions
<1>2. /\ e.parent \in DOMAIN log /\ log[e.parent].kind = "Succeeded" /\ DecisionsOf(p) = {}
      /\ e.kind \in PlanDecisions => log[p].stage \in PlanStages
      /\ e.kind \in ReviewDecisions => log[p].stage \in ReviewStages
  BY Admission DEF validate_decision, Decisions
<1>3. e.kind = "RepairOnceAuthorized" => log[p].stage = "InitialReview"
  BY DEF append_event, validate_generic_event, validate_semantic_review, ReviewDecisions,
         PlanDecisions, StateChanges, RunStates
<1>4. p \in DOMAIN log /\ log[p].kind = "Prepared"
  BY <1>2, PointsBack DEF Outcomes
<1>5. log[p].stage \in Stages
  BY <1>4 DEF LogInv, LogTypeOK, Event
<1> QED BY <1>1, <1>2, <1>3, <1>4, <1>5

(* A decision moves the run to the phase it leads to, and no attempt is    *)
(* without a decision then.                                                *)
LEMMA DecisionMoves ==
    ASSUME ReviewInv, LogInv', NEW e \in Event, append_event(e), e.kind \in Decisions
    PROVE  /\ ~Cancelled /\ <<Phase, Phase'>> \in Verdicts
           /\ ReviewInv'
<1>1. /\ Len(log) \in Nat /\ Len(log') = Len(log) + 1
      /\ DOMAIN log = 1..Len(log) /\ DOMAIN log' = 1..Len(log) + 1
      /\ \A i \in DOMAIN log : log'[i] = log[i]
      /\ log'[Len(log) + 1] = e
  BY Extended DEF ReviewInv, LogInv, append_event
<1>2. LogInv
  BY DEF ReviewInv
<1>3. PICK p \in DOMAIN log :
        /\ log[p].kind = "Prepared" /\ log[p].stage \in Stages /\ DecisionsOf(p) = {}
        /\ e.parent \in DOMAIN log /\ log[e.parent].parent = p
        /\ e.kind \in PlanDecisions => log[p].stage \in PlanStages
        /\ e.kind \in ReviewDecisions => log[p].stage \in ReviewStages
        /\ e.kind = "RepairOnceAuthorized" => log[p].stage = "InitialReview"
  BY <1>2, DecisionAdmitted
<1>a. PICK n \in Nat : n = Len(log) + 1
  BY <1>1
<1>b. /\ Len(log') = n /\ DOMAIN log' = 1..n /\ log'[n] = e /\ n \notin DOMAIN log
      /\ \A i \in DOMAIN log : i \in DOMAIN log' /\ i < n
      /\ \A i \in DOMAIN log' : i \in DOMAIN log \/ i = n
  BY <1>1, <1>a
<1>4. log'[n].kind \in Decisions /\ AttemptOf(n)' = p /\ log'[p] = log[p]
  BY <1>1, <1>3, <1>b DEF AttemptOf
<1>5. \A i \in DOMAIN log : log[i].kind \in Decisions => AttemptOf(i)' = AttemptOf(i)
  BY <1>1, <1>2, PointsBack DEF AttemptOf
<1>6. Phase' = PhaseAfter(e.kind, log[p].stage)
  <2>1. Has(Decisions)'
    BY <1>4, <1>b DEF Has
  <2>2. Latest(Decisions)' = {n}
    BY <1>1, <1>4, <1>b DEF Latest
  <2>3. LastOf(Decisions)' = n
    BY <2>2 DEF LastOf
  <2>4. Phase' = PhaseAfter(log'[n].kind, log'[AttemptOf(n)'].stage)
    BY <2>1, <2>3 DEF Phase, PhaseAfter
  <2> QED BY <1>4, <1>b, <2>4
<1>7. Phase = log[p].stage
  BY <1>3 DEF ReviewInv, UndecidedIsPhase
<1>8. <<Phase, Phase'>> \in Verdicts
  <2>1. e.kind \in {"PlanAccepted", "PlanRejected", "ReviewAccepted", "RepairOnceAuthorized", "ReviewRejected"}
    BY DEF Decisions, PlanDecisions, ReviewDecisions
  <2>2. CASE e.kind = "PlanAccepted"
    BY <1>3, <1>6, <1>7, <2>2 DEF PhaseAfter, Verdicts, PlanDecisions, PlanStages
  <2>3. CASE e.kind = "ReviewAccepted"
    BY <1>3, <1>6, <1>7, <2>3 DEF PhaseAfter, Verdicts, ReviewDecisions, ReviewStages
  <2>4. CASE e.kind = "RepairOnceAuthorized"
    BY <1>3, <1>6, <1>7, <2>4 DEF PhaseAfter, Verdicts
  <2>5. CASE e.kind \in {"PlanRejected", "ReviewRejected"}
    BY <1>3, <1>6, <1>7, <2>5 DEF PhaseAfter, Verdicts
  <2> QED BY <2>1, <2>2, <2>3, <2>4, <2>5
<1>9. ~Cancelled
  <2> SUFFICES ASSUME Cancelled PROVE FALSE
    OBVIOUS
  <2>1. PICK i \in DOMAIN log : log[i].kind = "CancelRequested"
    BY DEF Cancelled, latest_cancellation_generation, Has
  <2>2. e.kind \in {"Claimed", "Cancelled"} \cup Outcomes
    BY <1>1, <2>1 DEF LogInv, CancellationDominates
  <2> QED BY <2>2 DEF Decisions, PlanDecisions, ReviewDecisions, Outcomes
<1>10. \A q \in DOMAIN log : log[q].kind = "Prepared" /\ DecisionsOf(q) = {} => q = p
  BY <1>1, <1>2, <1>3 DEF LogInv, EarlierAttemptsDecided
<1>11. UndecidedIsPhase'
  <2> SUFFICES ASSUME NEW q \in DOMAIN log', log'[q].kind = "Prepared", DecisionsOf(q)' = {} PROVE FALSE
    BY DEF UndecidedIsPhase
  <2>1. q # n
    BY <1>4 DEF Decisions, PlanDecisions, ReviewDecisions
  <2>2. q \in DOMAIN log /\ log[q].kind = "Prepared"
    BY <1>1, <1>b, <2>1
  <2>3. DecisionsOf(q) = {}
    BY <1>1, <1>5, <1>b DEF DecisionsOf
  <2>4. q = p
    BY <1>10, <2>2, <2>3
  <2>5. n \in DecisionsOf(p)'
    BY <1>4, <1>b DEF DecisionsOf
  <2> QED BY <2>4, <2>5
<1>12. FailedIsNotAccepted'
  <2>1. ~Has(Failures)
    BY <1>2, DecisionAdmitted
  <2>2. e.kind \notin Failures
    BY DEF Decisions, PlanDecisions, ReviewDecisions, Failures
  <2>3. ~Has(Failures)'
    BY <1>1, <2>1, <2>2 DEF Has
  <2> QED BY <2>3 DEF FailedIsNotAccepted
<1>13. DecisionsInOrder'
  <2>1. \A i \in DOMAIN log' : log'[i].kind \in Decisions => log'[i].parent < i
    BY <1>1, <1>3 DEF ReviewInv, DecisionsInOrder
  <2>2. ASSUME NEW i \in DOMAIN log', NEW j \in DOMAIN log', log'[i].kind \in Decisions,
               log'[j].kind \in Decisions, i < j
        PROVE  AttemptOf(i)' < AttemptOf(j)'
    <3>1. i \in DOMAIN log /\ log[i].kind \in Decisions
      BY <1>1, <1>a, <1>b, <2>2
    <3>2. CASE j \in DOMAIN log
      BY <1>1, <1>5, <2>2, <3>1, <3>2 DEF ReviewInv, DecisionsInOrder
    <3>3. CASE j = n
      <4>1. PICK q \in DOMAIN log : q = AttemptOf(i) /\ log[q].kind = "Prepared" /\ q = AttemptOf(i)'
        BY <1>2, <1>5, <3>1, PointsBack
      <4>2. i \in DecisionsOf(q)
        BY <3>1, <4>1 DEF DecisionsOf
      <4>3. q # p
        BY <1>3, <4>2
      <4>4. ~(p < q)
        BY <1>2, <1>3, <4>1 DEF LogInv, EarlierAttemptsDecided
      <4>5. p \in Nat /\ q \in Nat
        BY <1>1
      <4> QED BY <1>4, <3>3, <4>1, <4>3, <4>4, <4>5
    <3> QED BY <1>b, <2>2, <3>2, <3>3
  <2> QED BY <2>1, <2>2 DEF DecisionsInOrder
<1> QED BY <1>8, <1>9, <1>11, <1>12, <1>13 DEF ReviewInv

(* The attempt of the outcome that came last is without a decision.        *)
LEMMA LatestOutcomeUndecided ==
    ASSUME ReviewInv, log[latest_non_claim_event].kind \in Outcomes
    PROVE  LET p == log[latest_non_claim_event].parent IN
             /\ p \in DOMAIN log /\ log[p].stage \in Stages /\ Phase = log[p].stage
<1> DEFINE k == latest_non_claim_event
           p == log[k].parent
<1>1. LogInv /\ DOMAIN log = 1..Len(log) /\ Len(log) \in Nat
  BY DEF ReviewInv, LogInv, LogTypeOK
<1>2. k \in DOMAIN log /\ \A i \in DOMAIN log : log[i].kind # "Claimed" => i <= k
  BY <1>1, LatestCause
<1>3. p \in DOMAIN log /\ log[p].kind = "Prepared"
  BY <1>1, <1>2, PointsBack
<1>4. log[p].stage \in Stages
  BY <1>1, <1>3 DEF LogInv, LogTypeOK, Event
<1>5. DecisionsOf(p) = {}
  <2> SUFFICES ASSUME NEW d \in DOMAIN log, log[d].kind \in Decisions, AttemptOf(d) = p PROVE FALSE
    BY DEF DecisionsOf
  <2> HIDE DEF k
  <2>1. /\ log[d].parent \in DOMAIN log /\ log[log[d].parent].kind = "Succeeded"
        /\ log[log[d].parent].parent = p
    BY <1>1, PointsBack
  <2>2. log[d].parent = k
    BY <1>1, <1>2, <2>1 DEF LogInv, OutcomesAreFinal, Outcomes, k
  <2>3. k < d
    BY <2>2 DEF ReviewInv, DecisionsInOrder
  <2>4. d <= k
    BY <1>2 DEF Decisions, PlanDecisions, ReviewDecisions
  <2> QED BY <1>1, <1>2, <2>3, <2>4
<1>6. Phase = log[p].stage
  BY <1>3, <1>5 DEF ReviewInv, UndecidedIsPhase
<1> QED BY <1>3, <1>4, <1>6

(* A planning only fails before a verdict accepts it.                      *)
LEMMA FailureIsNotAccepted ==
    ASSUME ReviewInv, NEW e, append_event(e), e.kind \in Failures PROVE Phase # "accepted"
<1> DEFINE k == latest_non_claim_event
<1>1. LogInv
  BY DEF ReviewInv
<1>2. "accepted" \notin Stages
  BY DEF Stages
<1>3. CASE e.kind = "PlanningFailed"
  <2>1. ~Has({"Prepared"})
    BY <1>3, Admission DEF validate_root_planning_failed
  <2>2. ~Has(Decisions)
    BY <1>1, <2>1, PointsBack DEF Has
  <2> QED BY <2>2, NoDecisionYet
<1>4. CASE e.kind = "StageFailed"
  <2>1. log[k].kind \in {"Succeeded", "PlanAccepted", "RepairOnceAuthorized"}
    BY <1>4, Admission DEF validate_root_planning_stage_failed, StageFailurePredecessor
  <2>2. CASE log[k].kind = "Succeeded"
    BY <1>2, <2>2, LatestOutcomeUndecided DEF Outcomes
  <2>3. CASE log[k].kind \in {"PlanAccepted", "RepairOnceAuthorized"}
    <3>1. log[k].kind \in Decisions
      BY <2>3 DEF Decisions, PlanDecisions, ReviewDecisions
    <3>2. Phase = PhaseAfter(log[k].kind, log[AttemptOf(k)].stage)
      BY <1>1, <3>1, LatestCause
    <3> QED BY <2>3, <3>2 DEF PhaseAfter
  <2> QED BY <2>1, <2>2, <2>3
<1> QED BY <1>3, <1>4 DEF Failures

(* A run ends as the phase and the cancellation say.                       *)
LEMMA EndFollows ==
    ASSUME ReviewInv, NEW e, append_event(e), e.kind \in Terminal
    PROVE  e.kind = IF Cancelled THEN "Cancelled"
                    ELSE IF Phase = "accepted" THEN "Completed" ELSE "Failed"
<1> DEFINE k == latest_non_claim_event
<1>1. LogInv
  BY DEF ReviewInv
<1>2. validate_run_state_change(e)
  BY Admission DEF StateChanges, RunStates, Terminal
<1>3. Cancelled => e.kind = "Cancelled"
  BY <1>2 DEF validate_run_state_change
<1>4. ASSUME e.kind = "Cancelled" PROVE Cancelled
  <2>1. CASE log[Len(log)].kind = "CancelRequested"
    <3>1. Len(log) \in DOMAIN log
      BY <1>1 DEF LogInv, FirstIsCreated, LogTypeOK
    <3> QED BY <2>1, <3>1 DEF Cancelled, latest_cancellation_generation, Has
  <2>2. CASE ~(log[Len(log)].kind = "CancelRequested")
    <3>1. \/ state \in Inactive /\ e.kind = "Running"
          \/ Cancelled
          \/ ~(state \in Inactive) /\ ~(state = "Running")
      BY <1>2, <1>4, <2>2 DEF validate_run_state_change
    <3>2. state \in Inactive \/ state = "Running"
      BY <1>2 DEF validate_run_state_change, valid_run_transition
    <3> QED BY <1>4, <3>1, <3>2
  <2> QED BY <2>1, <2>2
<1>5. ASSUME e.kind = "Completed" PROVE Phase = "accepted"
  <2>1. log[k].kind = "ReviewAccepted"
    BY <1>2, <1>5 DEF validate_run_state_change, valid_terminal_cause
  <2>2. log[k].kind \in Decisions
    BY <2>1 DEF Decisions, ReviewDecisions
  <2>3. Phase = PhaseAfter(log[k].kind, log[AttemptOf(k)].stage)
    BY <1>1, <2>2, LatestCause
  <2> QED BY <2>1, <2>3 DEF PhaseAfter
<1>6. ASSUME e.kind = "Failed" PROVE Phase # "accepted"
  <2>1. log[k].kind \in {"PlanRejected", "ReviewRejected"} \cup Failures \cup (Outcomes \ {"Succeeded"})
    BY <1>2, <1>6 DEF validate_run_state_change, valid_terminal_cause
  <2>2. CASE log[k].kind \in {"PlanRejected", "ReviewRejected"}
    <3>1. log[k].kind \in Decisions
      BY <2>2 DEF Decisions, PlanDecisions, ReviewDecisions
    <3>2. Phase = PhaseAfter(log[k].kind, log[AttemptOf(k)].stage)
      BY <1>1, <3>1, LatestCause
    <3> QED BY <2>2, <3>2 DEF PhaseAfter
  <2>3. CASE log[k].kind \in Failures
    <3>1. k \in DOMAIN log
      BY <1>1, LatestCause
    <3>2. Has(Failures)
      BY <2>3, <3>1 DEF Has
    <3> QED BY <3>2 DEF ReviewInv, FailedIsNotAccepted
  <2>4. CASE log[k].kind \in Outcomes \ {"Succeeded"}
    <3>1. "accepted" \notin Stages
      BY DEF Stages
    <3> QED BY <2>4, <3>1, LatestOutcomeUndecided
  <2> QED BY <2>1, <2>2, <2>3, <2>4
<1>7. e.kind \in {"Completed", "Failed", "Cancelled"}
  BY DEF Terminal
<1> QED BY <1>3, <1>4, <1>5, <1>6, <1>7

(* Every other event keeps what is known of the phase.                     *)
LEMMA OthersKeepPhase ==
    ASSUME ReviewInv, LogInv', NEW e \in Event, append_event(e), e.kind \notin Decisions
    PROVE  ReviewInv'
<1>1. /\ Len(log) \in Nat
      /\ DOMAIN log = 1..Len(log) /\ DOMAIN log' = 1..Len(log) + 1
      /\ \A i \in DOMAIN log : log'[i] = log[i]
      /\ log'[Len(log) + 1] = e
  BY Extended DEF ReviewInv, LogInv, append_event
<1>2. /\ Phase' = Phase /\ \A p : DecisionsOf(p)' = DecisionsOf(p)
      /\ \A i \in DOMAIN log : log[i].kind \in Decisions => AttemptOf(i)' = AttemptOf(i)
  BY PhaseKept DEF ReviewInv, append_event
<1>3. DecisionsInOrder'
  BY <1>1, <1>2 DEF ReviewInv, DecisionsInOrder
<1>4. UndecidedIsPhase'
  <2> SUFFICES ASSUME NEW q \in DOMAIN log', log'[q].kind = "Prepared", DecisionsOf(q)' = {}
               PROVE  Phase' = log'[q].stage
    BY DEF UndecidedIsPhase
  <2>1. CASE q \in DOMAIN log
    BY <1>1, <1>2, <2>1 DEF ReviewInv, UndecidedIsPhase
  <2>2. CASE q = Len(log) + 1
    BY <1>1, <1>2, <2>2, PreparedInPhase
  <2> QED BY <1>1, <2>1, <2>2
<1>5. FailedIsNotAccepted'
  <2>1. CASE e.kind \in Failures
    BY <1>2, <2>1, FailureIsNotAccepted DEF FailedIsNotAccepted
  <2>2. CASE e.kind \notin Failures
    <3>1. Has(Failures)' => Has(Failures)
      BY <1>1, <2>2 DEF Has
    <3> QED BY <1>2, <3>1 DEF ReviewInv, FailedIsNotAccepted
  <2> QED BY <2>1, <2>2
<1> QED BY <1>3, <1>4, <1>5 DEF ReviewInv

(* An appended event is a step of the protocol, or none.                   *)
LEMMA AppendFollowsReview ==
    ASSUME ReviewInv, LogInv', NEW e \in Event, append_event(e), UNCHANGED calls
    PROVE  ReviewInv' /\ [ReviewNext]_<<Phase, Called, Cancelled, End>>
<1>1. /\ Len(log) \in Nat
      /\ DOMAIN log = 1..Len(log) /\ DOMAIN log' = 1..Len(log) + 1
      /\ \A i \in DOMAIN log : log'[i] = log[i]
      /\ log'[Len(log) + 1] = e
  BY Extended DEF ReviewInv, LogInv, append_event
<1>2. Called' = Called
  BY DEF Called
<1>3. state \notin Terminal
  BY TerminalRefuses
<1>4. End = "open"
  BY <1>3 DEF End
<1>5. /\ e.kind \notin Terminal => End' = End
      /\ e.kind \in Terminal => End' = e.kind
  BY <1>3 DEF End, append_event, StateChanges, Terminal, RunStates
<1>6. /\ e.kind # "CancelRequested" => Cancelled' = Cancelled
      /\ e.kind = "CancelRequested" => Cancelled'
  BY <1>1 DEF Cancelled, latest_cancellation_generation, Has
<1>7. CASE e.kind \in Decisions
  <2>1. ~Cancelled /\ <<Phase, Phase'>> \in Verdicts /\ ReviewInv'
    BY <1>7, DecisionMoves
  <2>2. e.kind \notin Terminal /\ e.kind # "CancelRequested"
    BY <1>7 DEF Decisions, PlanDecisions, ReviewDecisions, Terminal
  <2>3. ReviewNext
    BY <1>2, <1>4, <1>5, <1>6, <2>1, <2>2 DEF ReviewNext, ReachVerdict
  <2> QED BY <2>1, <2>3
<1>8. CASE e.kind \notin Decisions
  <2>1. ReviewInv' /\ Phase' = Phase
    BY <1>8, OthersKeepPhase, PhaseKept DEF ReviewInv, append_event
  <2>2. CASE e.kind = "CancelRequested"
    <3>1. ~Cancelled
      BY <2>2, Admission DEF validate_cancellation
    <3>2. e.kind \notin Terminal
      BY <2>2 DEF Terminal
    <3>3. ReviewNext
      BY <1>2, <1>4, <1>5, <1>6, <2>1, <2>2, <3>1, <3>2 DEF ReviewNext, AskToCancel
    <3> QED BY <2>1, <3>3
  <2>3. CASE e.kind \in Terminal
    <3>1. End' = IF Cancelled THEN "Cancelled" ELSE IF Phase = "accepted" THEN "Completed" ELSE "Failed"
      BY <1>5, <2>3, EndFollows
    <3>2. Cancelled' = Cancelled
      BY <1>6, <2>3 DEF Terminal
    <3>3. ReviewNext
      BY <1>2, <1>4, <2>1, <3>1, <3>2 DEF ReviewNext, EndReview
    <3> QED BY <2>1, <3>3
  <2>4. CASE e.kind \notin Terminal \cup {"CancelRequested"}
    BY <1>2, <1>5, <1>6, <2>1, <2>4
  <2> QED BY <2>2, <2>3, <2>4
<1> QED BY <1>7, <1>8

(* A step that leaves the log alone keeps the phase and its invariant.     *)
LEMMA PhaseStays ==
    ASSUME ReviewInv, LogInv', UNCHANGED <<log, state>>
    PROVE  ReviewInv' /\ UNCHANGED <<Phase, Cancelled, End>>
<1>1. UNCHANGED log /\ UNCHANGED state
  OBVIOUS
<1>2. \A i : AttemptOf(i)' = AttemptOf(i)
  BY <1>1 DEF AttemptOf
<1>3. /\ \A p : DecisionsOf(p)' = DecisionsOf(p)
      /\ \A K : Has(K)' = Has(K) /\ LastOf(K)' = LastOf(K)
  BY <1>1, <1>2 DEF DecisionsOf, Has, LastOf, Latest
<1>4. Phase' = Phase
  BY <1>1 DEF Phase, Has, LastOf, Latest, AttemptOf
<1>5. Cancelled' = Cancelled /\ End' = End
  BY <1>1 DEF Cancelled, latest_cancellation_generation, Has, End
<1>6. DecisionsInOrder' /\ UndecidedIsPhase' /\ FailedIsNotAccepted'
  BY <1>1, <1>2, <1>3, <1>4 DEF ReviewInv, DecisionsInOrder, UndecidedIsPhase, FailedIsNotAccepted
<1> QED BY <1>4, <1>5, <1>6 DEF ReviewInv

(* Only infer_structured calls the provider, and it appends nothing.       *)
LEMMA OneCaller == ASSUME [Next]_vars PROVE UNCHANGED calls \/ infer_structured
<1>1. ASSUME begin_run \/ begin_running PROVE UNCHANGED calls
  BY <1>1 DEF begin_run, begin_running, FinishInactiveCancelled, AppendThen, TaskOnly
<1>2. ASSUME supervise_semantic_run PROVE UNCHANGED calls
  BY <1>2 DEF supervise_semantic_run, TaskOnly
<1>3. ASSUME compile_semantic_stage \/ prepare_semantic_stage \/ pre_dispatch PROVE UNCHANGED calls
  BY <1>3 DEF compile_semantic_stage, prepare_semantic_stage, pre_dispatch, AppendThen, TaskOnly
<1>4. ASSUME append_not_dispatched \/ append_cancelled_before_call \/ append_observation \/ append_unknown
      PROVE  UNCHANGED calls
  BY <1>4 DEF append_not_dispatched, append_cancelled_before_call, append_observation, append_unknown,
              AppendThen
<1>5. ASSUME await_model_call_slot \/ slot_heartbeat \/ inference_ends \/ heartbeat \/ call_heartbeat
      PROVE  UNCHANGED calls
  BY <1>5 DEF await_model_call_slot, slot_heartbeat, inference_ends, heartbeat, call_heartbeat, TaskOnly
<1>6. ASSUME decide_observed \/ fail_observed_semantic_stage \/ append_root_planning_failure
             \/ append_root_planning_stage_failure
      PROVE  UNCHANGED calls
  BY <1>6 DEF decide_observed, fail_observed_semantic_stage, append_root_planning_failure,
              append_root_planning_stage_failure, AppendThen, TaskOnly
<1>7. ASSUME ensure_durable_cancellation \/ reload_run_and_history \/ transition_run \/ StoreError
      PROVE  UNCHANGED calls
  BY <1>7 DEF ensure_durable_cancellation, reload_run_and_history, transition_run, StoreError,
              AppendThen, TaskOnly
<1>8. ASSUME NEW a \in Actors, Start(a) \/ cancel_run(a) \/ CancelStep(a) PROVE UNCHANGED calls
  BY <1>8 DEF Start, cancel_run, CancelStep, finish_inactive_cancellation, signal, CancelOnly
<1>9. ASSUME NEW a \in Actors, Boot(a) \/ Crash(a) \/ Shutdown(a) \/ Exit(a) PROVE UNCHANGED calls
  BY <1>9 DEF Boot, Crash, Shutdown, Exit, Dies
<1>10. ASSUME PassDeadline \/ LeaseLapses \/ UNCHANGED vars PROVE UNCHANGED calls
  BY <1>10 DEF PassDeadline, LeaseLapses, vars, taskVars
<1>11. CASE TaskStep
  BY <1>1, <1>2, <1>3, <1>4, <1>5, <1>6, <1>7, <1>11 DEF TaskStep
<1> QED BY <1>8, <1>9, <1>10, <1>11 DEF Next

(* The provider is called for the stage of the present phase.              *)
LEMMA CallFollowsReview ==
    ASSUME PlaceInv, ReviewInv, LogInv', infer_structured
    PROVE  ReviewInv' /\ [ReviewNext]_<<Phase, Called, Cancelled, End>>
<1>1. task.pc = "granted" /\ UNCHANGED logVars
  BY DEF infer_structured, At
<1>2. ReviewInv' /\ UNCHANGED <<Phase, Cancelled, End>>
  BY <1>1, PhaseStays DEF logVars
<1>3. CASE UNCHANGED calls
  BY <1>2, <1>3 DEF Called
<1>4. CASE calls' = [calls EXCEPT ![task.stage] = @ + 1]
  <2>1. /\ state = "Running" /\ task.stage \in Stages /\ Open(task.stage, task.owner)
    BY <1>1 DEF PlaceInv, Placed, Driving
  <2>2. calls \in [Stages -> Nat] /\ calls[task.stage] = 0
    BY <1>1 DEF PlaceInv, SupervisorInv, TypeOK, Held, BeforeCall
  <2>3. PICK p \in DOMAIN log : /\ log[p].kind = "Prepared" /\ log[p].stage = task.stage
                                /\ inference_terminal_count(p) = {}
    BY <2>1 DEF Open, Prepared
  <2>4. DecisionsOf(p) = {}
    BY <2>3, PointsBack DEF DecisionsOf, inference_terminal_count, Outcomes, ReviewInv
  <2>5. Phase = task.stage
    BY <2>3, <2>4 DEF ReviewInv, UndecidedIsPhase
  <2>6. PICK s \in Stages : s = task.stage
    BY <2>1
  <2>7. s \notin Called
    BY <2>2, <2>6 DEF Called
  <2>8. calls'[s] = 1 /\ \A r \in Stages : r # s => calls'[r] = calls[r]
    BY <1>4, <2>2, <2>6
  <2>9. Called' = Called \cup {s}
    BY <2>8 DEF Called
  <2>10. End = "open"
    BY <2>1 DEF End, Terminal
  <2>11. Phase = s
    BY <2>5, <2>6
  <2>12. CallStage
    BY <1>2, <2>6, <2>7, <2>9, <2>11 DEF CallStage
  <2> QED BY <1>2, <2>10, <2>12 DEF ReviewNext
<1> QED BY <1>3, <1>4 DEF infer_structured

LEMMA StepsFollowReview ==
    PlaceInv /\ ReviewInv /\ [Next]_vars
    => ReviewInv' /\ [ReviewNext]_<<Phase, Called, Cancelled, End>>
<1> SUFFICES ASSUME PlaceInv, ReviewInv, [Next]_vars
             PROVE  ReviewInv' /\ [ReviewNext]_<<Phase, Called, Cancelled, End>>
  OBVIOUS
<1>1. LogInv' /\ (LogNext \/ UNCHANGED logVars) /\ LogTypeOK
  BY SupervisorSteps DEF PlaceInv, Good, SupervisorInv, TypeOK
<1>2. CASE infer_structured
  BY <1>1, <1>2, CallFollowsReview
<1>3. CASE UNCHANGED calls
  <2>1. ASSUME NEW e \in Event, append_event(e)
        PROVE  ReviewInv' /\ [ReviewNext]_<<Phase, Called, Cancelled, End>>
    BY <1>1, <1>3, <2>1, AppendFollowsReview
  <2>2. CASE UNCHANGED <<log, state>>
    BY <1>1, <1>3, <2>2, PhaseStays DEF Called
  <2>3. UNCHANGED <<log, state>> \/ \E e \in Event : append_event(e)
    BY <1>1, LogSteps DEF ExpireLease, logVars
  <2> QED BY <2>1, <2>2, <2>3
<1> QED BY <1>2, <1>3, OneCaller

LEMMA ReviewStarts == Init => ReviewInv /\ ReviewInit
<1> SUFFICES ASSUME Init PROVE ReviewInv /\ ReviewInit
  OBVIOUS
<1>1. LogInv /\ LogInit
  BY LogInitInv DEF Init
<1>2. DOMAIN log = {1} /\ log[1].kind = "Created" /\ state = "Queued"
  BY <1>1 DEF LogInit, create_run, Plain, Entry
<1>3. ~Has(Decisions) /\ ~Has(Failures) /\ ~Has({"CancelRequested"})
  BY <1>2 DEF Has, Decisions, PlanDecisions, ReviewDecisions, Failures
<1>4. DecisionsInOrder
  BY <1>3 DEF DecisionsInOrder, Has
<1>5. UndecidedIsPhase /\ FailedIsNotAccepted
  BY <1>2, <1>3 DEF UndecidedIsPhase, FailedIsNotAccepted
<1>6. Phase = "InitialPlan" /\ ~Cancelled /\ End = "open"
  BY <1>2, <1>3, NoDecisionYet DEF Cancelled, latest_cancellation_generation, End, Terminal
<1>7. Called = {}
  BY DEF Init, Called
<1> QED BY <1>1, <1>4, <1>5, <1>6, <1>7 DEF ReviewInv, ReviewInit

(* A supervised run implements the review protocol: whatever its daemons,  *)
(* their crashes and its cancellation do, each stage is called at most     *)
(* once and in its own phase, only its verdict moves the run on, and the   *)
(* run ends as the verdicts say or, once a cancellation was asked for, as  *)
(* Cancelled (supervise_semantic_run over validate_generic_event).         *)
THEOREM SupervisorFollowsReview == Spec => ImplementsReview
<1>1. Init /\ [][Next]_vars /\ []PlaceInv
      => ReviewInit /\ [][ReviewNext]_<<Phase, Called, Cancelled, End>>
  BY ReviewStarts, StepsFollowReview, PTL
<1> QED BY <1>1, PlaceInvariant, PTL DEF Spec, ImplementsReview

=============================================================================
