--------------------------- MODULE PlannerTurnLog ---------------------------
(***************************************************************************)
(* What the planner-v2 events of one run say: the plan and the evidence a  *)
(* turn is prepared from, what its model answered and the plan an accepted *)
(* answer makes (crates/store/src/planner_v2_evidence.rs,                  *)
(* planner_v2_preparation.rs, planner_v2_decision.rs).  Who may append     *)
(* them, claims and cancellation are in module ReconRun, the prompt itself *)
(* in PlannerPrompt.                                                       *)
(*                                                                         *)
(* An event is its position in `log', so an id that names no event is one  *)
(* past its end.  A digest is the content it names.                        *)
(***************************************************************************)
EXTENDS Naturals, Sequences, FiniteSets, FiniteSetsExt

CONSTANTS WorkOrders,        \* the work orders of the initial delegation
          Importing,         \* whether Prepared events may come prebuilt
          MaxTurns,          \* PARALLEL_RECONNAISSANCE_V1_MAX_PLANNER_TURNS
          StageTurns,        \* PARALLEL_RECONNAISSANCE_V1_PLANNER_ATTEMPTS_PER_STAGE
          TokenLimit,        \* max_output_tokens of the run, in calls
          MaxEvidence        \* MAX_PLANNER_V2_EVIDENCE_ENTRIES

PlannerTurnLogAssumption ==
    /\ IsFiniteSet(WorkOrders) /\ WorkOrders # {} /\ Importing \in BOOLEAN
    /\ {MaxTurns, StageTurns, TokenLimit, MaxEvidence} \subseteq Nat \ {0}

VARIABLES log,               \* the run's events that planner turns rest on
          ended              \* the run has been given its terminal state

turnVars == <<log, ended>>

Initial == "InitialDelegation"
Replan == "EvidenceReplan"
Purposes == {Initial, Replan}
Outcomes == {"Succeeded", "Failed", "Retry", "Cancelled"}
Review == 1                  \* PlanSemanticReviewAccepted: the accepted root plan

---------------------------------------------------------------------------
\* What is read back from the events.

Positions(kinds) == {i \in DOMAIN log : log[i].kind \in kinds}
LatestOf(S) == IF S = {} THEN 0 ELSE Max(S)
Turns == Positions({"Prepared"})
LatestTurn == LatestOf(Turns)            \* latest_planner_prepared_before
LatestAccepted == LatestOf(Positions({"Accepted"}))
ClosedBy(t) == {i \in Positions({"Observed", "Unknown"}) : log[i].turn = t}
DecidedBy(t) == {i \in Positions({"Accepted", "Rejected"}) : log[i].turn = t}
StageCount(purpose) == Cardinality({t \in Turns : log[t].purpose = purpose})

\* every model call of the run reserves its output tokens
Reserved == Cardinality(Turns) + Cardinality(Positions({"Finished"}))

\* planner_v2_terminal_authorizes_retry, for the terminal of turn t
AuthorizesRetry(t) == \E i \in ClosedBy(t) : log[i].outcome \in {"Retryable", "Interrupted"}

\* planner_v2_retry_has_capacity
RetryHasCapacity(t) ==
    /\ Cardinality(Turns) < MaxTurns /\ StageCount(log[t].purpose) < StageTurns
    /\ Reserved < TokenLimit

Finishes(w) == {i \in Positions({"Finished"}) : log[i].order = w}
OrderIsTerminal(w) == Finishes(w) # {} /\ log[Max(Finishes(w))].outcome # "Retry"

\* planner_next_action: what the latest turn leaves to do
PlannerNextAction ==
    LET t == LatestTurn
        d == LatestOf(DecidedBy(t))
    IN  CASE t = 0 -> "ReadyToPrepare"
          [] t # 0 /\ ClosedBy(t) = {} -> "RecoverPrepared"
          [] t # 0 /\ AuthorizesRetry(t) /\ RetryHasCapacity(t) -> "RetryPrepared"
          [] t # 0 /\ d = 0 /\ \E i \in ClosedBy(t) : log[i].outcome = "Succeeded" -> "ValidateObserved"
          [] t # 0 /\ d # 0 /\ log[d].kind = "Accepted"
               /\ IF log[t].purpose = Initial /\ log[d].directive = "Delegate"
                  THEN \A w \in log[d].orders : OrderIsTerminal(w)
                  ELSE LatestOf(Positions({"Finished"})) > t -> "ReadyToReplan"
          [] t # 0 /\ d # 0 -> "ApplyDecision"
          [] OTHER -> "FinalizeFailure"

---------------------------------------------------------------------------
\* Evidence.

\* PlannerEvidenceMaterialV2 names its source event and repeats its outcome.
RootMaterial == [source |-> Review, says |-> "Plan"]
ChildMaterial(i) == [source |-> i, says |-> log[i].outcome]
MaterialOf(i) == IF i = Review THEN RootMaterial ELSE ChildMaterial(i)

\* PlannerEvidencePair: the entry the Store keeps and the one the prompt
\* shows are made from the same event.
EvidencePair(i) == [id |-> i, material |-> MaterialOf(i), shown |-> MaterialOf(i)]

\* planner_evidence_pairs
EvidencePairs == {EvidencePair(i) : i \in {Review} \cup Positions({"Finished"})}

\* Mutant: a material is only asked to name an event that was evidence.
MaterialNamesAnEvent(m) == m.source \in {Review} \cup Positions({"Finished"})
\* validate_planner_durable_evidence_material
MaterialIsReal(m) == m.source \in {Review} \cup Positions({"Finished"}) /\ m = MaterialOf(m.source)

Ids(entries) == {e.id : e \in entries}

---------------------------------------------------------------------------
\* Prepared events.

EmptyPlan == [accepted |-> Review, revision |-> 0, orders |-> {}]

\* validate_planner_base_authority
BaseAuthority(p) ==
    IF p.purpose = Initial
    THEN Review \in {e.material.source : e \in p.packet} /\ p.base = EmptyPlan
    ELSE /\ LatestAccepted # 0
         /\ p.base.accepted = LatestAccepted /\ p.base = log[LatestAccepted].plan

\* validate_planner_v2_retained_prompt: the retained request is the one the
\* shared builder makes of the plan and of what the prompt shows.
RequestFor(purpose, base, packet, before) ==
    [purpose |-> purpose, base |-> base, before |-> before,
     shown |-> {[id |-> e.id, shown |-> e.shown] : e \in packet}]
RequestIsExact(p) == p.request = RequestFor(p.purpose, p.base, p.packet, p.before)

\* The packet's own checks, and one prompt entry for every durable one.
PacketIsWellFormed(p) ==
    /\ \A e, f \in p.packet : e # f => e.id # f.id /\ e.shown.source # f.shown.source
    /\ Cardinality(p.packet) \in 1..MaxEvidence
    /\ LET roots == {e \in p.packet : e.shown.source = Review}
       IN  Cardinality(roots) = 1 /\ (p.purpose = Initial <=> p.packet = roots)

\* How a turn has to follow the one before it: the first of all, a repetition
\* that the previous terminal authorises, or a replan over more evidence.
Follows(p) ==
    LET t == LatestTurn
    IN  \/ t = 0 /\ p.purpose = Initial /\ p.previous = 0 /\ p.before = {}
        \/ /\ t # 0 /\ AuthorizesRetry(t)
           /\ p = log[t]
        \/ /\ t # 0 /\ ~AuthorizesRetry(t) /\ p.purpose = Replan
           /\ p.previous = t /\ p.before = Ids(log[t].packet)

\* What is new is what the packet before did not have, and there is some.
DeltaIsExact(p) ==
    p.before \subseteq Ids(p.packet) /\ p.new = Ids(p.packet) \ p.before /\ p.new # {}

\* The run still has a turn and the tokens for it.
TurnsLeft == Cardinality(Turns) < MaxTurns /\ Reserved < TokenLimit

\* validate_planner_turn_prepared_v1
Admissible(p) ==
    /\ TurnsLeft /\ StageCount(p.purpose) < StageTurns
    /\ BaseAuthority(p)
    /\ RequestIsExact(p)
    /\ PacketIsWellFormed(p)
    /\ \A e \in p.packet : MaterialIsReal(e.material)
    /\ Follows(p)
    /\ DeltaIsExact(p)

Prepared(purpose, base, previous, packet, before) ==
    [kind |-> "Prepared", purpose |-> purpose, base |-> base, previous |-> previous,
     packet |-> packet, before |-> before, new |-> Ids(packet) \ before,
     request |-> RequestFor(purpose, base, packet, before)]

\* build_planner_evidence and build_planner_v2_prepared_event
Built ==
    LET t == LatestTurn
    IN  CASE PlannerNextAction = "RetryPrepared" -> log[t]
          [] PlannerNextAction = "ReadyToPrepare" -> Prepared(Initial, EmptyPlan, 0, EvidencePairs, {})
          [] PlannerNextAction = "ReadyToReplan" ->
               Prepared(Replan, log[LatestOf(DecidedBy(t))].plan, t, EvidencePairs, Ids(log[t].packet))

Buildable ==
    /\ PlannerNextAction \in {"RetryPrepared", "ReadyToPrepare", "ReadyToReplan"}
    /\ PlannerNextAction = "ReadyToReplan" => Cardinality(Positions({"Finished"})) < MaxEvidence

Record(event) == log' = Append(log, event) /\ UNCHANGED ended

PrepareTurn == ~ended /\ Buildable /\ Admissible(Built) /\ Record(Built)

\* What a prebuilt event may hold: any part of the evidence, with an entry
\* for no event, one that says something else, or one that shows the model
\* something else.
Misstated(e) ==
    {[e EXCEPT !.material.source = Len(log) + 1], [e EXCEPT !.material.says = "Failed"],
     [e EXCEPT !.material.source = Review], [e EXCEPT !.shown.says = "Failed"]}
Prebuilt ==
    {Prepared(purpose, base, t, packet, before) :
        purpose \in Purposes, t \in {0, LatestTurn},
        base \in {EmptyPlan} \cup {log[i].plan : i \in Positions({"Accepted"})},
        packet \in SUBSET EvidencePairs \cup
                   UNION {{(EvidencePairs \ {e}) \cup {f} : f \in Misstated(e)} : e \in EvidencePairs},
        before \in {{}} \cup {Ids(log[i].packet) : i \in Turns}}

\* commit_prebuilt_planner_v2_turn; the request may be that of another plan
ImportTurn ==
    /\ Importing /\ ~ended /\ TurnsLeft
    /\ \E p \in Prebuilt : \E q \in {p, [p EXCEPT !.request.base.revision = @ + 1]} :
           Admissible(q) /\ Record(q)

---------------------------------------------------------------------------
\* Terminals and decisions, always of the latest turn.

\* An answer names what it was given, the ids it rests on, its directive and
\* the work orders it delegates; it may add those to the plan.
Answers(t) ==
    LET good == [decodes |-> TRUE, purpose |-> log[t].purpose, base |-> log[t].base, cites |-> log[t].new,
                 directive |-> "Delegate", orders |-> WorkOrders, adds |-> TRUE, fits |-> TRUE]
    IN  {[good EXCEPT !.adds = a] : a \in BOOLEAN}
        \cup {[good EXCEPT !.directive = d, !.orders = {}, !.adds = a] :
                 d \in {"Delegate", "Clarify", "Finish"}, a \in BOOLEAN}
        \cup {[good EXCEPT !.decodes = FALSE], [good EXCEPT !.purpose = Initial],
              [good EXCEPT !.cites = log[t].before], [good EXCEPT !.cites = @ \cup {Len(log) + 1}],
              [good EXCEPT !.base = EmptyPlan], [good EXCEPT !.fits = FALSE],
              [good EXCEPT !.cites = {}, !.base = EmptyPlan]}

\* observe_planner_v2_turn
ObserveTurn ==
    /\ ~ended /\ PlannerNextAction = "RecoverPrepared"
    /\ \/ \E a \in Answers(LatestTurn) :
            Record([kind |-> "Observed", turn |-> LatestTurn, outcome |-> "Succeeded", answer |-> a])
       \/ \E o \in {"Failed", "Retryable"} :
            Record([kind |-> "Observed", turn |-> LatestTurn, outcome |-> o])

\* reconcile_planner_v2_turn_unknown: Interrupted stands for the boundaries
\* Restart, Shutdown and ClaimRenewalFailed, Indeterminate for the others.
CloseUnknown ==
    /\ ~ended /\ PlannerNextAction = "RecoverPrepared"
    /\ \E o \in {"Interrupted", "Indeterminate"} :
         Record([kind |-> "Unknown", turn |-> LatestTurn, outcome |-> o])

\* planner_rejection_priority: the strongest reason first
Priority == <<"InvalidSchema", "WrongPurpose", "EvidenceOmitted", "EvidenceFabricated",
              "DirectiveInvalid", "PolicyLimitExceeded", "BindingMismatch">>
Strongest(reasons) == Priority[Min({n \in DOMAIN Priority : Priority[n] \in reasons})]

Faults(faults) == {f[1] : f \in {g \in faults : g[2]}}

\* validate_planner_accepted_bindings: the answer is to this turn's request
AnswerIsBound(a, p) == a.purpose = p.purpose /\ a.base = p.base

\* prompting_invariant_rejection: what the prompt contract finds in an answer
PromptFaults(a, p) ==
    Faults({<<"WrongPurpose", a.purpose # p.purpose>>,
            <<"BindingMismatch", ~AnswerIsBound(a, p)>>,
            <<"EvidenceOmitted", a.cites \cap p.new = {}>>,
            <<"EvidenceFabricated", ~(a.cites \subseteq Ids(p.packet))>>,
            <<"DirectiveInvalid", p.purpose = Initial /\ a.directive = "Finish">>})

\* An empty patch leaves the plan as it was; any other one makes the next
\* revision, which this event accepts.
ResultingPlan(a, p) ==
    IF a.adds THEN [accepted |-> Len(log) + 1, revision |-> p.base.revision + 1, orders |-> WorkOrders]
    ELSE p.base

\* resolve_planner_work_selection: what is selected is in the resulting plan
SelectionResolves(a, p) == a.orders \subseteq ResultingPlan(a, p).orders

\* plan_violation_rejection: what the orchestrator finds in its plan
PlanFaults(a, p) ==
    Faults({<<"PolicyLimitExceeded", ~a.fits>>,
            <<"DirectiveInvalid", a.directive = "Finish" /\ a.adds>>,
            <<"DirectiveInvalid", a.directive = "Delegate" /\ a.orders = {}>>,
            <<"BindingMismatch", ~SelectionResolves(a, p)>>})

\* planner_v2_classify_response
ReasonsAgainst(a, p) ==
    IF ~a.decodes THEN {"InvalidSchema"}
    ELSE IF PromptFaults(a, p) # {} THEN PromptFaults(a, p) ELSE PlanFaults(a, p)

\* build_planner_v2_decision_event
DecideTurn ==
    LET t == LatestTurn
        o == Max(ClosedBy(t))
        a == log[o].answer
        reasons == ReasonsAgainst(a, log[t])
    IN  /\ ~ended /\ PlannerNextAction = "ValidateObserved"
        /\ IF reasons = {}
           THEN Record([kind |-> "Accepted", turn |-> t, observed |-> o, base |-> log[t].base,
                        plan |-> ResultingPlan(a, log[t]), directive |-> a.directive, orders |-> a.orders])
           ELSE Record([kind |-> "Rejected", turn |-> t, observed |-> o, base |-> log[t].base,
                        reason |-> Strongest(reasons)])

\* build_planner_v2_run_terminal_event
FinalizeFailure ==
    /\ ~ended /\ PlannerNextAction = "FinalizeFailure"
    /\ ended' = TRUE /\ UNCHANGED log

\* external: a work order of the accepted initial delegation finishes an
\* attempt (modules ChildAttempt and ChildDispatch)
Delegated(w) ==
    \E i \in Positions({"Accepted"}) :
        log[log[i].turn].purpose = Initial /\ log[i].directive = "Delegate" /\ w \in log[i].orders
FinishChild(w, outcome) ==
    /\ ~ended /\ Delegated(w) /\ ~OrderIsTerminal(w)
    /\ outcome = "Retry" => Finishes(w) = {}      \* bound: one retry of a work order
    /\ Record([kind |-> "Finished", order |-> w, outcome |-> outcome])

TurnInit == log = <<[kind |-> "Review"]>> /\ ended = FALSE

\* finalize_planner_v2_turn decides or ends the run, whichever is next
TurnNext ==
    \/ PrepareTurn \/ ImportTurn \/ ObserveTurn \/ CloseUnknown \/ DecideTurn \/ FinalizeFailure
    \/ \E w \in WorkOrders, o \in Outcomes : FinishChild(w, o)

---------------------------------------------------------------------------
(* Every entry of every packet was true when the turn was prepared: it     *)
(* names an earlier terminal of a child, or the root plan, and says of it  *)
(* what the event says.  The model is asked about that plan and those      *)
(* entries.  A turn the Store builds shows it what is true, and a replan   *)
(* how every delegated work order ended.                                   *)
EvidenceIsReal ==
    \A t \in Turns :
        /\ \A e \in log[t].packet : e.material.source < t /\ e.material = MaterialOf(e.material.source)
        /\ ~Importing => \A e \in log[t].packet : e = EvidencePair(e.id)
        /\ {[id |-> e.id, shown |-> e.shown] : e \in log[t].packet} = log[t].request.shown
        /\ log[t].request.base = log[t].base
        /\ ~Importing /\ log[t].purpose = Replan =>
               \A w \in WorkOrders : Delegated(w) => \E e \in log[t].packet :
                   log[e.id].kind = "Finished" /\ log[e.id].order = w /\ log[e.id].outcome # "Retry"

(* Something is new to every turn, and what it counts as new no turn       *)
(* before it had, except the turn it repeats: evidence is delivered as     *)
(* news once per stage, and a packet never loses what an earlier one had.  *)
EvidenceIsNewOnce ==
    /\ \A t \in Turns : log[t].new # {}
    /\ \A s, t \in Turns : s < t =>
         \/ log[t] = log[s]
         \/ Ids(log[s].packet) \subseteq Ids(log[t].packet) /\ log[t].new \cap Ids(log[s].packet) = {}

(* The accepted plans form one chain: each is made from the plan the       *)
(* acceptance before it left, by the answer observed for its own turn, and *)
(* goes up by one revision exactly when it carries its own event.          *)
AcceptedPlansChain ==
    \A i \in Positions({"Accepted"}) :
        LET before == {j \in Positions({"Accepted"}) : j < i}
            base == IF before = {} THEN EmptyPlan ELSE log[Max(before)].plan
        IN  /\ log[i].base = base /\ log[log[i].turn].base = base
            /\ \/ log[i].plan = base
               \/ log[i].plan.accepted = i /\ log[i].plan.revision = base.revision + 1

(* A turn is closed once and decided once, in that order, by an answer     *)
(* that rests on something new.                                            *)
TurnsCloseOnce ==
    \A t \in Turns :
        /\ Cardinality(ClosedBy(t)) <= 1 /\ Cardinality(DecidedBy(t)) <= 1
        /\ \A d \in DecidedBy(t) : log[d].observed \in ClosedBy(t) /\ t < log[d].observed /\ log[d].observed < d
        /\ \A d \in DecidedBy(t) : log[d].kind = "Accepted" =>
               log[log[d].observed].answer.cites \cap log[t].new # {}

(* What the Store builds, its own checks admit: no history of turns and    *)
(* child terminals leaves a run whose next turn can be built and never     *)
(* appended, unless its calls are used up.                                 *)
WhatIsBuiltIsAdmitted ==
    ~Importing /\ ~ended /\ Buildable /\ Reserved < TokenLimit => Admissible(Built)

TurnLogIsSound ==
    EvidenceIsReal /\ EvidenceIsNewOnce /\ AcceptedPlansChain /\ TurnsCloseOnce /\ WhatIsBuiltIsAdmitted
=============================================================================
