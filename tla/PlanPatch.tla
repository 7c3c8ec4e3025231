----------------------------- MODULE PlanPatch -----------------------------
(***************************************************************************)
(* Plans, patches and the authoritative plan transition of                 *)
(* crates/orchestrator/src/planner.rs: validate_and_apply_with_allocations *)
(* checks one model-authored turn (a patch of the plan and a directive)    *)
(* against the plan it was asked about, and either rejects it or returns   *)
(* the next plan.                                                          *)
(*                                                                         *)
(* A digest is the value it digests, except in the parent link of a plan,  *)
(* which keeps the parent's revision only.  Derived identities are the pair of   *)
(* the plan revision that creates the item and the item's local id, what   *)
(* derived_patch_uuid hashes.  Texts, rationales and cited evidence are    *)
(* one Boolean per item, "sound": validate_text and validate_basis pass.   *)
(* Violations are not told apart: a turn is valid or it is rejected.       *)
(***************************************************************************)
EXTENDS Naturals, FiniteSets, Sequences, SequencesExt

CONSTANTS
  Obligations,      \* references that match the protected obligation catalog
  Required,         \* the obligations the catalog marks as required
  MaxWorkOrders, MaxTargets, MaxOperations, MaxDependencies, MaxDelegations,
  MaxQuestions,     \* the policy's limits
  PlanRevisionLimit, OrderRevisionLimit  \* the largest revisions the counters hold

ASSUME PlanPatchAssumption ==
  /\ Required \subseteq Obligations
  /\ \A limit \in {MaxWorkOrders, MaxTargets, MaxOperations, MaxDependencies,
                   MaxDelegations, MaxQuestions, PlanRevisionLimit, OrderRevisionLimit} :
       limit \in Nat \ {0}

\* PlannerAccess, ordered; PlannerPolicy::read_only fixes the maximum.
NoAccess == 0
ReadOnly == 1
WorkspaceWrite == 2

PlannedWorkOrderStates == {"Pending", "Running", "Completed", "Failed", "Cancelled"}
DirectiveKinds == {"Execute", "Delegate", "Clarify", "Escalate", "Finish"}

EmptyPlan ==
  [revision |-> 0, parent |-> <<>>, targets |-> <<>>, works |-> <<>>]

EmptyPatch ==
  [summary |-> FALSE, sound |-> TRUE, addTargets |-> <<>>, adds |-> <<>>,
   replaces |-> <<>>, cancels |-> <<>>]

OperationCount(p) ==
  (IF p.summary THEN 1 ELSE 0) + Len(p.addTargets) + Len(p.adds)
    + Len(p.replaces) + Len(p.cancels)

IsEmptyPatch(p) == OperationCount(p) = 0

NoSelection == [existing |-> {}, new |-> {}]

-----------------------------------------------------------------------------
(* Identities. *)

Allocate(base, local) == <<base.revision + 1, local>>

AllocateAll(base, locals) == {Allocate(base, local) : local \in locals \ {0}}

Locals(items) == {items[i].local : i \in 1..Len(items)}

LocalsValid(items) ==
  0 \notin Locals(items) /\ Cardinality(Locals(items)) = Len(items)

-----------------------------------------------------------------------------
(* Drafts: what an addition and a replacement say about a work order.      *)

ObligationsValid(refs) == refs # {} /\ refs \subseteq Obligations

\* resolve_dependencies / resolve_verification_targets: unknown references are
\* violations and are left out of the result.
Resolve(base, existing, new, known, locals) ==
  (existing \cap known) \union AllocateAll(base, new \cap locals)

Resolves(existing, new, known, locals) ==
  existing \subseteq known /\ new \subseteq (locals \ {0})

DraftOrder(base, draft, p, known, revision) ==
  [revision    |-> revision,
   obligations |-> draft.obligations,
   deps        |-> Resolve(base, draft.deps, draft.newDeps, known, Locals(p.adds)),
   targets     |-> Resolve(base, draft.targets, draft.newTargets,
                           DOMAIN base.targets \union AllocateAll(base, Locals(p.addTargets)),
                           Locals(p.addTargets)),
   access      |-> draft.access,
   state       |-> "Pending"]

DraftValid(base, draft, p, known) ==
  LET order == DraftOrder(base, draft, p, known, 1)
      targets == DOMAIN base.targets \union AllocateAll(base, Locals(p.addTargets))
  IN  /\ Resolves(draft.deps, draft.newDeps, known, Locals(p.adds))
      /\ Resolves(draft.targets, draft.newTargets, targets, Locals(p.addTargets))
      /\ draft.sound
      /\ ObligationsValid(draft.obligations)
      /\ order.targets # {}
      /\ Cardinality(order.deps) <= MaxDependencies
      /\ draft.access <= ReadOnly

\* An addition can name as existing only what the plan holds when it is
\* applied: the base plan and the additions before it.
KnownAt(base, p, i) ==
  DOMAIN base.works \union AllocateAll(base, Locals(SubSeq(p.adds, 1, i - 1)))

AddTargets(base, p) ==
  [id \in DOMAIN base.targets \union AllocateAll(base, Locals(p.addTargets)) |->
     IF id \in DOMAIN base.targets
     THEN base.targets[id]
     ELSE p.addTargets[CHOOSE i \in 1..Len(p.addTargets) :
                         Allocate(base, p.addTargets[i].local) = id].obligations]

TargetsValid(p) ==
  /\ LocalsValid(p.addTargets)
  /\ \A i \in 1..Len(p.addTargets) :
       p.addTargets[i].sound /\ ObligationsValid(p.addTargets[i].obligations)

AddWorkOrders(base, p) ==
  [id \in DOMAIN base.works \union AllocateAll(base, Locals(p.adds)) |->
     LET writers == {i \in 1..Len(p.adds) : p.adds[i].local # 0
                                            /\ Allocate(base, p.adds[i].local) = id}
     IN  IF writers = {} THEN base.works[id]
         ELSE LET i == CHOOSE j \in writers : \A k \in writers : k <= j
              IN  DraftOrder(base, p.adds[i].draft, p, KnownAt(base, p, i), 1)]

AddsValid(base, p) ==
  /\ LocalsValid(p.adds)
  /\ \A i \in 1..Len(p.adds) : DraftValid(base, p.adds[i].draft, p, KnownAt(base, p, i))

-----------------------------------------------------------------------------
(* Mutations of existing work orders, guarded by the exact record seen.    *)

Mutations(p) == [i \in 1..Len(p.replaces) |-> p.replaces[i].id]
                \o [i \in 1..Len(p.cancels) |-> p.cancels[i].id]

MutableUnlessRunning(order) == order.state \notin {"Running", "Cancelled"}
Mutable(order) == order.state \in {"Pending", "Failed"}

MutationValid(works, m) ==
  /\ m.id \in DOMAIN works
  /\ works[m.id] = m.seen
  /\ Mutable(works[m.id])
  /\ works[m.id].revision < OrderRevisionLimit

MutationsValid(base, works, p) ==
  /\ Cardinality(Range(Mutations(p))) = Len(Mutations(p))
  /\ \A i \in 1..Len(p.replaces) :
       /\ MutationValid(works, p.replaces[i])
       /\ DraftValid(base, p.replaces[i].draft, p, DOMAIN works)
  /\ \A i \in 1..Len(p.cancels) :
       MutationValid(works, p.cancels[i]) /\ p.cancels[i].sound

MutateWorkOrders(base, works, p) ==
  [id \in DOMAIN works |->
     LET replacing == {i \in 1..Len(p.replaces) : p.replaces[i].id = id}
     IN  IF replacing # {}
         THEN DraftOrder(base, p.replaces[CHOOSE i \in replacing : TRUE].draft, p,
                         DOMAIN works, works[id].revision + 1)
         ELSE IF \E i \in 1..Len(p.cancels) : p.cancels[i].id = id
         THEN [works[id] EXCEPT !.state = "Cancelled", !.revision = @ + 1]
         ELSE works[id]]

-----------------------------------------------------------------------------
(* What every plan must satisfy. *)

DependenciesExist(works) == \A id \in DOMAIN works : works[id].deps \subseteq DOMAIN works

NoDependencyOnCancelled(works) ==
  \A id \in DOMAIN works : \A dep \in works[id].deps \cap DOMAIN works :
    works[dep].state # "Cancelled"

\* dependency_graph_has_cycle: a set of orders each of which waits for another of
\* the set.
HasCycle(works) ==
  \E ring \in (SUBSET DOMAIN works) \ {{}} :
    \A id \in ring : works[id].deps \cap ring # {}

CoveredByAny(works, obligation) == \E id \in DOMAIN works : obligation \in works[id].obligations
Covered(works, obligation) ==
  \E id \in DOMAIN works :
    works[id].state # "Cancelled" /\ obligation \in works[id].obligations

PlanInvariant(plan, allowEmpty) ==
  /\ Cardinality(DOMAIN plan.works) <= MaxWorkOrders
  /\ Cardinality(DOMAIN plan.targets) <= MaxTargets
  /\ \A id \in DOMAIN plan.works :
       /\ plan.works[id].access <= ReadOnly
       /\ plan.works[id].targets \subseteq DOMAIN plan.targets
       /\ ObligationsValid(plan.works[id].obligations)
  /\ \A id \in DOMAIN plan.targets : ObligationsValid(plan.targets[id])
  /\ DependenciesExist(plan.works)
  /\ NoDependencyOnCancelled(plan.works)
  /\ ~HasCycle(plan.works)
  /\ (allowEmpty /\ plan.works = <<>>) \/ \A o \in Required : Covered(plan.works, o)

\* A revision-zero plan without work orders is the only one not checked as a base.
BaseValid(plan) ==
  (plan.revision > 0 \/ plan.works # <<>>) => PlanInvariant(plan, FALSE)

-----------------------------------------------------------------------------
(* Directives. *)

Selected(base, selection, plan, p) ==
  (selection.existing \cap DOMAIN plan.works)
    \union AllocateAll(base, selection.new \cap Locals(p.adds))

SelectionValid(base, selection, plan, p) ==
  /\ Resolves(selection.existing, selection.new, DOMAIN plan.works, Locals(p.adds))
  /\ \A id \in Selected(base, selection, plan, p) : plan.works[id].state = "Pending"

RequestsValid(requests) ==
  \A i \in 1..Len(requests) :
    requests[i].sound /\ ObligationsValid(requests[i].obligations)

\* Each kind fills its own field and leaves the other fields empty.
DirectiveShape(d) ==
  /\ (d.kind # "Execute") => d.execute = NoSelection
  /\ (d.kind = "Delegate") <=> (d.delegations # <<>>)
  /\ (d.kind = "Clarify") <=> (d.clarifications # <<>>)
  /\ (d.kind = "Escalate") <=> (d.escalations # <<>>)
  /\ (d.kind = "Finish") <=> (d.claims # <<>>)

ExecuteValid(base, d, plan, p) ==
  /\ Cardinality(Selected(base, d.execute, plan, p)) = 1
  /\ SelectionValid(base, d.execute, plan, p)

DelegateValid(base, d, plan, p) ==
  /\ Len(d.delegations) <= MaxDelegations
  /\ \A i \in 1..Len(d.delegations) :
       /\ d.delegations[i].sound
       /\ SelectionValid(base, d.delegations[i].work, plan, p)
       /\ Selected(base, d.delegations[i].work, plan, p) # {}
       /\ \A j \in 1..(i - 1) :
            Selected(base, d.delegations[i].work, plan, p)
              \cap Selected(base, d.delegations[j].work, plan, p) = {}

FinishValid(d, p) ==
  LET claimed == {d.claims[i].obligation : i \in 1..Len(d.claims)}
  IN  /\ IsEmptyPatch(p)
      /\ \A i \in 1..Len(d.claims) : d.claims[i].sound /\ d.claims[i].obligation \in Obligations
      /\ Cardinality(claimed) = Len(d.claims)
      /\ Required \subseteq claimed

DirectiveValid(base, d, plan, p) ==
  /\ DirectiveShape(d)
  /\ d.kind = "Execute" => ExecuteValid(base, d, plan, p)
  /\ d.kind = "Delegate" => DelegateValid(base, d, plan, p)
  /\ d.kind = "Clarify" => Len(d.clarifications) <= MaxQuestions /\ RequestsValid(d.clarifications)
  /\ d.kind = "Escalate" => RequestsValid(d.escalations)
  /\ d.kind = "Finish" => FinishValid(d, p)

\* The orders a resolved directive hands out.
Directed(base, d, plan, p) ==
  CASE d.kind = "Execute"  -> Selected(base, d.execute, plan, p)
    [] d.kind = "Delegate" -> UNION {Selected(base, d.delegations[i].work, plan, p) :
                                       i \in 1..Len(d.delegations)}
    [] OTHER -> {}

-----------------------------------------------------------------------------
(* The transition. *)

StructureValid(base, p) ==
  /\ ~IsEmptyPatch(p) => base.revision < PlanRevisionLimit
  /\ OperationCount(p) <= MaxOperations
  /\ Cardinality(DOMAIN base.works) + Len(p.adds) <= MaxWorkOrders
  /\ Cardinality(DOMAIN base.targets) + Len(p.addTargets) <= MaxTargets

BindingsValid(base, turn) == turn.bound /\ turn.base = base /\ BaseValid(base)

InitialPause(base, p, d) ==
  base.revision = 0 /\ base.works = <<>> /\ IsEmptyPatch(p) /\ d.kind \in {"Clarify", "Escalate"}

PatchedPlan(base, p) ==
  [revision |-> IF IsEmptyPatch(p) THEN base.revision ELSE base.revision + 1,
   parent   |-> IF IsEmptyPatch(p) THEN base.parent ELSE <<base.revision>>,
   targets  |-> AddTargets(base, p),
   works    |-> MutateWorkOrders(base, AddWorkOrders(base, p), p)]

\* What decoding leaves of a turn: lists of operations, and drafts that ask for an
\* access of PlannerAccess.
DecodedTurn(turn) ==
  LET p == turn.patch
      accesses == {NoAccess, ReadOnly, WorkspaceWrite}
  IN  /\ \A items \in {p.addTargets, p.adds, p.replaces, p.cancels} : Len(items) \in Nat
      /\ \A i \in 1..Len(p.adds) : p.adds[i].draft.access \in accesses
      /\ \A i \in 1..Len(p.replaces) : p.replaces[i].draft.access \in accesses

TurnValid(base, turn) ==
  LET p == turn.patch
      added == AddWorkOrders(base, p)
      plan == PatchedPlan(base, p)
  IN  /\ StructureValid(base, p)
      /\ BindingsValid(base, turn)
      /\ TargetsValid(p)
      /\ AddsValid(base, p)
      /\ MutationsValid(base, added, p)
      /\ p.sound
      /\ PlanInvariant(plan, InitialPause(base, p, turn.directive))
      /\ DirectiveValid(base, turn.directive, plan, p)

\* ValidatedPlannerTurn: the next plan and the orders the directive hands out.
Apply(base, turn) ==
  [plan  |-> PatchedPlan(base, turn.patch),
   kind  |-> turn.directive.kind,
   orders |-> Directed(base, turn.directive, PatchedPlan(base, turn.patch), turn.patch)]

-----------------------------------------------------------------------------
(* Turns for TLC.  A plan has two obligations, o1 of them required, and the  *)
(* model answers any of a family of turns: valid ones, and ones the code     *)
(* must refuse (stale references, cycles, unknown obligations, write         *)
(* access).                                                                  *)
o1 == "o1"
o2 == "o2"
foreign == "foreign"

Draft(obligations, deps, newDeps, base) ==
  [deps |-> deps, newDeps |-> newDeps,
   targets |-> IF base.targets = <<>> THEN {} ELSE {CHOOSE t \in DOMAIN base.targets : TRUE},
   newTargets |-> IF base.targets = <<>> THEN {1} ELSE {},
   obligations |-> obligations, access |-> ReadOnly, sound |-> TRUE]

Target(base) ==
  IF base.targets = <<>>
  THEN <<[local |-> 1, obligations |-> {o1}, sound |-> TRUE]>> ELSE <<>>

Add(local, draft) == [local |-> local, draft |-> draft]

WorkIds(base) == DOMAIN base.works
Waits(base) == {{}} \union {{id} : id \in WorkIds(base)}

Adds(base) ==
  {<<Add(1, Draft({o1}, deps, {}, base))>> : deps \in Waits(base)}
  \union {<<Add(1, Draft({o2}, {}, {2}, base)), Add(2, Draft({o1}, {}, new, base))>> :
            new \in {{}, {1}}}
  \union {<<Add(0, Draft({o1}, {}, {}, base))>>, <<Add(1, Draft({foreign}, {}, {}, base))>>,
          <<Add(1, [Draft({o1}, {}, {}, base) EXCEPT !.access = WorkspaceWrite])>>}

\* A reference to an order as the model saw it: now, or before it was revised.
Replaces(base) ==
  UNION {{<<[id |-> id, seen |-> seen, draft |-> Draft({o}, deps, {}, base)]>> :
             seen \in {base.works[id], [base.works[id] EXCEPT !.revision = @ - 1]}, o \in {o1, o2}, deps \in Waits(base)} : id \in WorkIds(base)}

Cancels(base) ==
  {<<>>} \union {<<[id |-> id, seen |-> base.works[id], sound |-> TRUE]>> : id \in WorkIds(base)}

\* A patch that revises the order it adds, under the identity derived for it.
AddAndRevise(base) ==
  LET adding == [EmptyPatch EXCEPT !.addTargets = Target(base), !.adds = <<Add(1, Draft({o1}, {}, {}, base))>>]
  IN  [adding EXCEPT !.replaces = <<[id |-> Allocate(base, 1),
                                     seen |-> AddWorkOrders(base, adding)[Allocate(base, 1)],
                                     draft |-> Draft({o1, o2}, {}, {}, base)]>>]

PatchesOf(base) ==
  {EmptyPatch, AddAndRevise(base)}
  \union {[EmptyPatch EXCEPT !.addTargets = Target(base), !.adds = adds] : adds \in Adds(base)}
  \union {[EmptyPatch EXCEPT !.adds = <<Add(1, Draft({o1}, {}, {}, base))>>, !.cancels = cancels] :
            cancels \in Cancels(base)}
  \union {[EmptyPatch EXCEPT !.replaces = replaces, !.cancels = cancels] :
            replaces \in {r \in Replaces(base) : r[1].draft.deps = {}}, cancels \in Cancels(base)}
  \union {[EmptyPatch EXCEPT !.replaces = replaces] : replaces \in Replaces(base)}
  \union {[EmptyPatch EXCEPT !.cancels = cancels] : cancels \in Cancels(base)}

Silent == [kind |-> "Clarify", execute |-> NoSelection, delegations |-> <<>>,
           clarifications |-> <<>>, escalations |-> <<>>, claims |-> <<>>]
Question == [obligations |-> {o1}, sound |-> TRUE]
Clarify == [Silent EXCEPT !.clarifications = <<Question>>]
Execute(existing, new) ==
  [Silent EXCEPT !.kind = "Execute", !.execute = [existing |-> existing, new |-> new]]
Delegate(x, y) ==
  [Silent EXCEPT !.kind = "Delegate",
                 !.delegations = <<[work |-> [existing |-> {x}, new |-> {}], sound |-> TRUE],
                                   [work |-> [existing |-> {y}, new |-> {}], sound |-> TRUE]>>]

Directives(base) ==
  {Clarify, [Silent EXCEPT !.kind = "Escalate", !.escalations = <<Question>>],
   [Silent EXCEPT !.kind = "Finish", !.claims = <<[obligation |-> o1, sound |-> TRUE]>>]}
  \union {Execute({id}, {}) : id \in WorkIds(base)}
  \union {Delegate(x, y) : x \in WorkIds(base), y \in WorkIds(base)}

\* Any patch with a question, a new order executed at once, any directive without
\* a patch, and an answer about the plan before this one.
Offered(base) ==
  {[base |-> base, bound |-> TRUE, patch |-> p, directive |-> Clarify] : p \in PatchesOf(base)}
  \union {[base |-> base, bound |-> TRUE, patch |-> p, directive |-> Execute({}, {1})] :
            p \in {q \in PatchesOf(base) : q.adds # <<>>}}
  \union {[base |-> base, bound |-> TRUE, patch |-> EmptyPatch, directive |-> d] :
            d \in Directives(base)}
  \union {[base |-> old, bound |-> TRUE, patch |-> p, directive |-> Clarify] :
            old \in {[base EXCEPT !.revision = r] : r \in Range(base.parent)}, p \in {q \in PatchesOf(base) : q.cancels # <<>>}}

\* A turn that adds and executes one order, about the plan asked about or the empty one.
AddOne(base) ==
  [EmptyPatch EXCEPT !.addTargets = Target(base), !.adds = <<Add(1, Draft({o1}, {}, {}, base))>>]
Single(base) ==
  {[base |-> b, bound |-> TRUE, patch |-> AddOne(base), directive |-> Execute({}, {1})] :
     b \in {base, EmptyPlan}}
=============================================================================
