--------------------------- MODULE PlanEvolution ---------------------------
(***************************************************************************)
(* The life of one plan under accepted planner turns.  A turn is applied   *)
(* to the plan it was asked about; between turns a dispatcher moves the    *)
(* work orders through their states.  The repository has no dispatcher for *)
(* these plans yet: PlannedWorkOrderState and the checks of planner.rs say *)
(* what it may do, and its two actions are external.                       *)
(***************************************************************************)
EXTENDS PlanPatch

CONSTANT TurnsFor(_)   \* the turns a model may answer when asked about a plan

VARIABLES
  plan,     \* the plan snapshot held by the caller
  handed    \* the orders the last accepted directive handed out

planVars == <<plan, handed>>

PlanInit == plan = EmptyPlan /\ handed = {}

\* validate_and_apply accepts a turn and the caller adopts the result.
Turn ==
  \E turn \in TurnsFor(plan) :
    /\ TurnValid(plan, turn)
    /\ plan' = Apply(plan, turn).plan
    /\ handed' = Apply(plan, turn).orders

\* External: an order handed out starts when what it depends on is completed.
StartOrder ==
  \E id \in handed :
    /\ plan.works[id].state = "Pending"
    /\ \A dep \in plan.works[id].deps : plan.works[dep].state = "Completed"
    /\ plan' = [plan EXCEPT !.works[id].state = "Running"]
    /\ handed' = handed \ {id}

\* External: a running order ends.
EndOrder ==
  \E id \in DOMAIN plan.works, outcome \in {"Completed", "Failed"} :
    /\ plan.works[id].state = "Running"
    /\ plan' = [plan EXCEPT !.works[id].state = outcome]
    /\ UNCHANGED handed

PlanNext == Turn \/ StartOrder \/ EndOrder

PlanSpec == PlanInit /\ [][PlanNext]_planVars

-----------------------------------------------------------------------------
WorkOrders ==
  [revision : 1..OrderRevisionLimit, obligations : (SUBSET Obligations) \ {{}},
   deps : SUBSET DOMAIN plan.works, targets : SUBSET DOMAIN plan.targets,
   access : {NoAccess, ReadOnly}, state : PlannedWorkOrderStates]

\* The turns on offer are such as decoding yields.
TurnsAreDecoded == \A turn \in TurnsFor(plan) : DecodedTurn(turn)

PlanTypeOK ==
  /\ TurnsAreDecoded
  /\ plan.revision \in 0..PlanRevisionLimit
  /\ Len(plan.parent) <= 1
  /\ \A id \in DOMAIN plan.works : plan.works[id] \in WorkOrders
  /\ handed \subseteq DOMAIN plan.works

\* An order and everything it waits for, directly or through others.
Waited(ids) == \A x \in ids : plan.works[x].deps \subseteq ids
Cone(id) ==
  {x \in DOMAIN plan.works :
     \A ids \in SUBSET DOMAIN plan.works : id \in ids /\ Waited(ids) => x \in ids}

\* Once a plan has work, every required obligation is carried by an order that can
\* still be finished: it is not cancelled, nothing it transitively waits for is
\* cancelled, and it does not wait for itself.  The code only checks direct
\* dependencies, a cycle search and a per-obligation scan, on each turn anew.
RequiredWorkIsReachable ==
  plan.works # <<>> =>
    \A o \in Required :
      \E id \in DOMAIN plan.works :
        /\ o \in plan.works[id].obligations
        /\ \A x \in Cone(id) :
             /\ plan.works[x].state # "Cancelled"
             /\ \A dep \in plan.works[x].deps : x \notin Cone(dep)

\* A turn never loses an order or a target, never rewrites one that runs, has
\* completed or was cancelled, never reuses an identity for other work (every new
\* id belongs to the revision the turn creates), and every rewrite raises the
\* order's revision by exactly one: a reference to (id, revision) stays unambiguous.
\* An order that a cancelled order waited for can never be cancelled itself.
TurnsKeepHistory ==
  [][ /\ DOMAIN plan.works \subseteq DOMAIN plan'.works
      /\ \A id \in DOMAIN plan'.works \ DOMAIN plan.works :
           id[1] = plan'.revision /\ plan'.revision = plan.revision + 1
      /\ \A id \in DOMAIN plan.targets :
           id \in DOMAIN plan'.targets /\ plan'.targets[id] = plan.targets[id]
      /\ \A id \in DOMAIN plan.works :
           LET old == plan.works[id]
               new == plan'.works[id]
           IN  \/ new = old
               \/ new.revision = old.revision + 1 /\ old.state \in {"Pending", "Failed"}
               \/ new.revision = old.revision /\ [new EXCEPT !.state = old.state] = old
                  /\ <<old.state, new.state>> \in
                       {<<"Pending", "Running">>, <<"Running", "Completed">>,
                        <<"Running", "Failed">>}
      /\ \A id \in DOMAIN plan.works :
           plan.works[id].state = "Cancelled" =>
             \A dep \in plan.works[id].deps : plan'.works[dep].state # "Cancelled"
    ]_planVars

\* The order counter cannot run ahead of the plan counter: an order has been revised
\* at most once by each turn since the one that created it, that one included, for a
\* patch can name the identity derived for an order that it adds.
OrderRevisionsFollowThePlan ==
  \A id \in DOMAIN plan.works : plan.works[id].revision <= plan.revision - id[1] + 2

\* What a directive hands out can be started in the plan it came with: it is
\* pending there, and it stays startable until the dispatcher starts it or the
\* next turn replaces the directive.
HandedOutIsPending == \A id \in handed : plan.works[id].state = "Pending"

\* The invariants of a plan, together.
PlanIsSound ==
  /\ PlanTypeOK
  /\ RequiredWorkIsReachable
  /\ OrderRevisionsFollowThePlan
  /\ HandedOutIsPending
=============================================================================
