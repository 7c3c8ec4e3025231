---------------------------- MODULE PlannerPrompt ----------------------------
(***************************************************************************)
(* What a planner turn may be asked and may answer: the prompt contracts   *)
(* planner-replanner and planner-replanner-v2 of crates/prompting.  The    *)
(* children of a run end one after the other; a turn is compiled from the  *)
(* plan, the evidence so far and what of it is new; an output that passes  *)
(* its checks and the orchestrator's becomes the next plan.                *)
(*                                                                         *)
(* A digest is the content it names, so two contents never share one.      *)
(* "formed" stands for what is checked of a record's own fields: UUIDs,    *)
(* lowercase hexadecimal, media types, contract versions, text lengths.    *)
(***************************************************************************)
EXTENDS Naturals, Sequences, FiniteSets, SequencesExt, FiniteSetsExt

CONSTANTS Contract,      \* 1: planner-replanner, 2: planner-replanner-v2
          Root,          \* the evidence id of the accepted root plan
          Children,      \* the evidence ids of the children's terminals
          Endings,       \* how children end: "handoff", "long handoff", "cancelled" or a kind of failure
          MaxEntries,    \* 256 entries of a packet
          MaxBytes,      \* 1 MiB of an encoded packet
          MaxBasis,      \* 64 evidence ids of one basis
          MaxOrders,     \* 256 work orders of a plan
          MaxTargets,    \* 512 verification targets of a plan
          MaxDependencies \* 64 dependencies of a work order

HandoffEndings == {"handoff", "long handoff"}
PlannerChildFailureKindV2 == {"Model", "Tool", "Context", "Budget", "Protocol", "DurableState"}

PlannerPromptAssumption ==
    /\ Contract \in {1, 2} /\ Root \in Nat /\ Children \subseteq Nat \ {Root}
    /\ Endings \subseteq HandoffEndings \union {"cancelled"} \union PlannerChildFailureKindV2
    /\ IsFiniteSet(Children)
    /\ {MaxEntries, MaxBytes, MaxBasis, MaxOrders, MaxTargets, MaxDependencies} \subseteq Nat \ {0}

VARIABLES ended,         \* how each child ended
          plan,          \* the authoritative plan
          previous,      \* the packet of the last accepted turn: <<>> or <<packet>>
          turn,          \* the invocation in flight: <<>> or <<invocation>>
          accepted       \* the accepted turns: what was new and what of it each rests on

promptVars == <<ended, plan, previous, turn, accepted>>

Malformed == [malformed |-> TRUE]
Unknown == 0             \* an evidence id that no packet has

---------------------------------------------------------------------------
(* Evidence entries. *)
PlannerReplannerV2EvidenceKind == {"AcceptedRootPlan", "ChildHandoff", "ChildFailed", "ChildCancelled"}

\* PlannerReplannerV2EvidenceEntry without its digest; the artifact is what it says of the body
EntryHashMaterial(e) == [id |-> e.id, kind |-> e.kind, event |-> e.event, binding |-> e.binding,
                         body |-> e.body, artifact |-> e.artifact, cause |-> e.cause, formed |-> e.formed]

PlannerAcceptedRootPlanEvidenceV2 ==
    [id |-> Root, kind |-> "AcceptedRootPlan", event |-> Root, binding |-> <<>>,
     body |-> [directive |-> "Plan"], artifact |-> [directive |-> "Plan"], cause |-> "none", formed |-> TRUE]

\* PlannerChildHandoff: the numbers of findings, unknowns and follow-ups, the fewest and most
\* citations of a finding, and how much of a packet it takes
PlannerChildHandoff(how) ==
    [findings |-> 1, unknowns |-> 0, followups |-> 0, fewest |-> 1, most |-> 1, unique |-> TRUE,
     bytes |-> IF how = "long handoff" THEN 2 ELSE 1]
PlannerVerifiedChildHandoffV2(c, how) ==
    [id |-> c, kind |-> "ChildHandoff", event |-> c, binding |-> <<c>>,
     body |-> PlannerChildHandoff(how), artifact |-> PlannerChildHandoff(how), cause |-> "none", formed |-> TRUE]

PlannerChildFailureCauseV2(kind) ==
    CASE kind = "Model" -> "ModelTerminal" [] kind = "Tool" -> "ToolTerminal" [] OTHER -> "RuntimeEvidence"
PlannerChildFailedV2(c, kind) ==
    [id |-> c, kind |-> "ChildFailed", event |-> c, binding |-> <<c>>,
     body |-> [failure |-> kind], artifact |-> [failure |-> kind],
     cause |-> PlannerChildFailureCauseV2(kind), formed |-> TRUE]

PlannerChildCancelledV2(c) ==
    [id |-> c, kind |-> "ChildCancelled", event |-> c, binding |-> <<c>>,
     body |-> [request |-> c], artifact |-> [request |-> c], cause |-> "Request", formed |-> TRUE]

Seal(e) == EntryHashMaterial(e) @@ [digest |-> EntryHashMaterial(e)]

EvidenceOf(c) == Seal(CASE ended[c] \in HandoffEndings -> PlannerVerifiedChildHandoffV2(c, ended[c])
                        [] ended[c] = "cancelled" -> PlannerChildCancelledV2(c)
                        [] OTHER -> PlannerChildFailedV2(c, ended[c]))

---------------------------------------------------------------------------
(* What an entry must satisfy. *)
MaxFindings == 64
MaxUnknowns == 64
MaxFollowups == 64
MaxReferences == 64

validate_accepted_root_plan(e) ==
    e.formed /\ e.artifact = e.body /\ e.body = [directive |-> "Plan"]

validate_handoff_contents(h) ==
    /\ h.findings <= MaxFindings /\ h.unknowns <= MaxUnknowns /\ h.followups <= MaxFollowups
    /\ h.findings > 0 => h.fewest \in 1..MaxReferences /\ h.most \in 1..MaxReferences
    /\ h.unique

validate_child_handoff(e) == e.formed /\ e.artifact = e.body /\ validate_handoff_contents(e.body)

validate_child_failure_cause(e) == e.cause = PlannerChildFailureCauseV2(e.body.failure)

validate_child_failed(e) == e.formed /\ e.artifact = e.body /\ validate_child_failure_cause(e)

validate_child_cancelled(e) == e.formed

evidence_entry_structure(e) ==
    CASE e.kind = "AcceptedRootPlan" -> validate_accepted_root_plan(e)
      [] e.kind = "ChildHandoff" -> validate_child_handoff(e)
      [] e.kind = "ChildFailed" -> validate_child_failed(e)
      [] e.kind = "ChildCancelled" -> validate_child_cancelled(e)

evidence_entry_integrity(e) == evidence_entry_structure(e) /\ e.digest = EntryHashMaterial(e)

---------------------------------------------------------------------------
(* Packets: the entries in the order of their ids, one per source event    *)
(* and per attempt, in the shape the purpose asks for, within the limits   *)
(* of a packet as a whole.                                                 *)
PlannerReplannerV2Purpose == {"InitialDelegation", "EvidenceReplan"}

evidence_packet_sha256(p) == [purpose |-> p.purpose, manifest |-> p.manifest, entries |-> p.entries]

Ascends(s) == \A i \in 1..(Len(s) - 1) : s[i].id < s[i + 1].id
Ids(entries) == {entries[i].id : i \in DOMAIN entries}
Roots(p) == {i \in DOMAIN p.entries : p.entries[i].kind = "AcceptedRootPlan"}

packet_purpose_shape(p) ==
    CASE Contract = 1 -> Roots(p) = {}
      [] p.purpose = "InitialDelegation" -> Len(p.entries) = 1 /\ Roots(p) = {1}
      [] p.purpose = "EvidenceReplan" -> Len(p.entries) >= 2 /\ Cardinality(Roots(p)) = 1

packet_entries_are_distinct(p) ==
    \A i, j \in DOMAIN p.entries :
        i # j => /\ p.entries[i].event # p.entries[j].event
                 /\ p.entries[i].binding # p.entries[j].binding

\* the length of the encoded packet: its entries', of which only handoffs differ in length
EntryBytes(e) == IF e.kind = "ChildHandoff" THEN e.body.bytes ELSE 1
PacketBytes(entries) == FoldLeft(LAMBDA bytes, e : bytes + EntryBytes(e), 0, entries)

evidence_packet_structure(p) ==
    /\ Len(p.entries) \in 1..MaxEntries
    /\ PacketBytes(p.entries) <= MaxBytes
    /\ packet_purpose_shape(p)
    /\ \A i \in DOMAIN p.entries : evidence_entry_integrity(p.entries[i])
    /\ Contract = 2 => packet_entries_are_distinct(p)
    /\ Ascends(p.entries)

evidence_packet_integrity(p) == evidence_packet_structure(p) /\ p.digest = evidence_packet_sha256(p)

PlannerReplannerV2EvidencePacket(purpose, manifest, entries) ==
    LET sorted == SetToSortSeq(entries, LAMBDA a, b : a.id < b.id)
        body == [purpose |-> purpose, manifest |-> manifest, entries |-> sorted]
    IN  body @@ [digest |-> body]

---------------------------------------------------------------------------
(* Deltas: what of a packet its predecessor did not have. *)
evidence_binding(e) == [id |-> e.id, digest |-> e.digest]
BindingsOf(entries) == [i \in DOMAIN entries |-> evidence_binding(entries[i])]
evidence_delta_sha256(d) == [purpose |-> d.purpose, packet |-> d.packet, before |-> d.before, new |-> d.new]

PlannerReplannerV2EvidenceDelta(purpose, p, prev) ==
    LET before == IF prev = <<>> THEN <<>> ELSE BindingsOf(prev[1].entries)
        body == [purpose |-> purpose, packet |-> IF prev = <<>> THEN Malformed ELSE prev[1].digest,
                 before |-> before,
                 new |-> SelectSeq(BindingsOf(p.entries), LAMBDA b : b.id \notin Ids(before))]
    IN  body @@ [digest |-> body]

validate_delta_bindings(bindings, p) ==
    Ascends(bindings) /\ Range(bindings) \subseteq Range(BindingsOf(p.entries))

KindsOf(bindings, p) == {e.kind : e \in {x \in Range(p.entries) : x.id \in Ids(bindings)}}

delta_purpose_shape(d, p) ==
    IF d.purpose = "InitialDelegation"
    THEN /\ d.packet = Malformed /\ d.before = <<>>
         /\ Len(d.new) = 1 /\ KindsOf(d.new, p) = {"AcceptedRootPlan"}
    ELSE /\ d.packet # Malformed
         /\ "AcceptedRootPlan" \in KindsOf(d.before, p)
         /\ d.new # <<>> /\ "AcceptedRootPlan" \notin KindsOf(d.new, p)

evidence_delta_structure(d, p) ==
    /\ d.purpose = p.purpose
    /\ validate_delta_bindings(d.before, p) /\ validate_delta_bindings(d.new, p)
    /\ Ids(d.before) \intersect Ids(d.new) = {}
    /\ Ids(d.before) \union Ids(d.new) = Ids(p.entries)
    /\ delta_purpose_shape(d, p)

evidence_delta_integrity(d, p) == evidence_delta_structure(d, p) /\ d.digest = evidence_delta_sha256(d)

---------------------------------------------------------------------------
(* The authorities a turn is compiled from. *)
PlannerReplannerV2PlanSnapshot ==
    [revision |-> 0, parent |-> Malformed, snapshot |-> "catalog", orders |-> <<>>, targets |-> <<>>]

PlannerReplannerV2ProtectedObligationCatalog == [snapshot |-> "catalog", content |-> "catalog"]
PlannerReplannerV2Policy == [digest |-> "limits", content |-> "limits"]

\* PlannerReplannerV2ContextCatalog: the id and digest of every entry
PlannerReplannerV2ContextCatalog(entries) ==
    LET bindings == BindingsOf(SetToSortSeq(entries, LAMBDA a, b : a.id < b.id))
    IN  [manifest |-> bindings, bindings |-> bindings]

validate_base_basis(basis, p) ==
    /\ basis # {} /\ Cardinality(basis) <= MaxBasis
    /\ basis \subseteq Ids(p.entries)

validate_base_target(t, p) == validate_base_basis(t.basis, p)
validate_base_work_order(base, o, p) ==
    /\ Cardinality(o.dependencies) <= MaxDependencies
    /\ o.dependencies \subseteq DOMAIN base.orders
    /\ o.targets \subseteq DOMAIN base.targets
    /\ validate_base_basis(o.basis, p)

base_plan_integrity(base, p) ==
    /\ (base.revision = 0) <=> (base.parent = Malformed)
    /\ Len(base.orders) <= MaxOrders /\ Len(base.targets) <= MaxTargets
    /\ \A i \in DOMAIN base.targets : validate_base_target(base.targets[i], p)
    /\ \A i \in DOMAIN base.orders : validate_base_work_order(base, base.orders[i], p)

obligation_catalog_integrity(c) == c.snapshot = c.content
context_catalog_integrity(c) ==
    /\ Len(c.bindings) \in 1..MaxEntries /\ Ascends(c.bindings) /\ c.manifest = c.bindings
policy_integrity(p) == p.digest = p.content

authority_integrity(i) ==
    /\ base_plan_integrity(i.plan, i.packet)
    /\ obligation_catalog_integrity(i.catalog)
    /\ context_catalog_integrity(i.context)
    /\ policy_integrity(i.policy)
    /\ i.bindings.plan = i.plan

---------------------------------------------------------------------------
(* Invocations. *)
PlannerReplannerV2Bindings(purpose, base, catalog, context, policy, p, d) ==
    [purpose |-> purpose, revision |-> base.revision, plan |-> base, snapshot |-> catalog.snapshot,
     manifest |-> context.manifest, policy |-> policy.digest, packet |-> p.digest,
     before |-> d.packet, delta |-> d.digest, formed |-> TRUE]

binding_structure(b) == b.formed /\ ((b.purpose = "InitialDelegation") <=> (b.before = Malformed))

payload_bindings(i) ==
    /\ i.plan.revision = i.bindings.revision
    /\ i.plan.snapshot = i.bindings.snapshot
    /\ i.catalog.snapshot = i.bindings.snapshot
    /\ i.context.manifest = i.bindings.manifest
    /\ i.policy.digest = i.bindings.policy

\* the artifact digest of each section's provenance
provenance_bindings(i) ==
    i.provenance = [plan |-> i.bindings.plan, catalog |-> i.bindings.snapshot,
                    context |-> i.bindings.manifest, packet |-> i.bindings.packet]

initial_base_and_root_evidence(i) ==
    /\ i.packet.entries # <<>> /\ i.packet.entries[1].kind = "AcceptedRootPlan"
    /\ i.bindings.revision = 0 /\ i.plan.parent = Malformed
    /\ i.plan.targets = <<>> /\ i.plan.orders = <<>>
    /\ i.packet.entries[1].body = [directive |-> "Plan"]

evidence_delta_binding(i) ==
    /\ i.bindings.purpose = i.delta.purpose
    /\ i.bindings.delta = i.delta.digest
    /\ i.bindings.before = i.delta.packet

invocation_bindings(i) ==
    /\ payload_bindings(i) /\ provenance_bindings(i)
    /\ i.bindings.purpose = i.packet.purpose
    /\ i.bindings.packet = i.packet.digest
    /\ evidence_delta_binding(i)
    /\ i.bindings.purpose = "InitialDelegation" => initial_base_and_root_evidence(i)

evidence_packet_in_context(p, context) ==
    /\ evidence_packet_integrity(p)
    /\ p.manifest = context.manifest
    /\ Ascends(context.bindings)
    /\ BindingsOf(p.entries) = context.bindings

\* validate_invocation of planner_replanner_v2.rs and of planner_replanner.rs
validate_invocation_v2(i) ==
    /\ binding_structure(i.bindings)
    /\ invocation_bindings(i)
    /\ authority_integrity(i)
    /\ evidence_packet_in_context(i.packet, i.context)
    /\ evidence_delta_integrity(i.delta, i.packet)

validate_invocation_v1(i) ==
    /\ payload_bindings(i)
    /\ [i.provenance EXCEPT !.packet = i.bindings.packet] =
           [plan |-> i.bindings.plan, catalog |-> i.bindings.snapshot,
            context |-> i.bindings.manifest, packet |-> i.bindings.packet]
    /\ i.provenance.packet = i.packet.digest
    /\ evidence_packet_in_context(i.packet, i.context)

validate_invocation(i) == IF Contract = 2 THEN validate_invocation_v2(i) ELSE validate_invocation_v1(i)

\* planner_replanner_v2_invocation: the sections and constraints of one turn
planner_replanner_invocation(base, entries, prev) ==
    LET purpose == IF prev = <<>> /\ Contract = 2 THEN "InitialDelegation" ELSE "EvidenceReplan"
        catalog == PlannerReplannerV2ProtectedObligationCatalog
        policy == PlannerReplannerV2Policy
        context == PlannerReplannerV2ContextCatalog(entries)
        p == PlannerReplannerV2EvidencePacket(purpose, context.manifest, entries)
        d == PlannerReplannerV2EvidenceDelta(purpose, p, prev)
        b == PlannerReplannerV2Bindings(purpose, base, catalog, context, policy, p, d)
    IN  [plan |-> base, catalog |-> catalog, context |-> context, policy |-> policy,
         packet |-> p, delta |-> d, bindings |-> b,
         provenance |-> [plan |-> b.plan, catalog |-> b.snapshot, context |-> b.manifest, packet |-> p.digest]]

---------------------------------------------------------------------------
(* Outputs: a turn's own basis, one cited basis in the patch or in the     *)
(* directive, and the directive.                                           *)
PlannerReplannerDirectiveKind == {"Execute", "Delegate", "Clarify", "Escalate", "Finish"}
PatchPlaces == {"add_verification_targets", "add_work_orders", "replace_work_orders", "cancel_work_orders"}
DirectivePlaces == {"delegations", "clarifications", "escalations", "finish_claims"}

DirectiveOf(place) ==
    CASE place = "delegations" -> "Delegate" [] place = "clarifications" -> "Clarify"
      [] place = "escalations" -> "Escalate" [] place = "finish_claims" -> "Finish" [] OTHER -> "Execute"

output_evidence_ids(o) == (IF Contract = 2 THEN o.basis ELSE {}) \union o.cites

\* Mutant of turn_basis_meets_delta: any evidence at all will do.
AnyBasis(o, i) == o.basis # {}
turn_basis_meets_delta(o, i) == o.basis # {} /\ o.basis \intersect Ids(i.delta.new) # {}

validate_planner_replanner_v2_output(o, i) ==
    /\ validate_invocation(i)
    /\ o.bindings = i.bindings
    /\ output_evidence_ids(o) \subseteq Ids(i.packet.entries)
    /\ Contract = 2 => /\ turn_basis_meets_delta(o, i)
                       /\ ~(i.bindings.purpose = "InitialDelegation" /\ o.directive = "Finish")

\* into_authoritative_parts keeps the plan, the patch and the directive; validate_and_apply
\* (orchestrator, module PlanPatch) asks every basis to be bounded and not empty and applies the
\* policy's limits, which are at most the contract's; a new work order brings a target with it
Applies(o, base) ==
    /\ o.cites # {} /\ Cardinality(o.cites) <= MaxBasis
    /\ o.place \in {"replace_work_orders", "cancel_work_orders"} => base.orders # <<>>
    /\ o.place = "add_work_orders" => Len(base.orders) < MaxOrders
    /\ o.place \in {"add_verification_targets", "add_work_orders"} => Len(base.targets) < MaxTargets

Patched(base, o) ==
    LET next == [base EXCEPT !.revision = @ + 1, !.parent = base]
        n == Len(base.orders)
        targets == Append(base.targets, [basis |-> o.cites])
    IN  CASE o.place = "add_verification_targets" -> [next EXCEPT !.targets = targets]
          [] o.place = "add_work_orders" ->
               [next EXCEPT !.targets = targets,
                            !.orders = Append(@, [basis |-> o.cites, targets |-> DOMAIN targets,
                                                  dependencies |-> 1..Min({n, MaxDependencies})])]
          [] o.place \in {"replace_work_orders", "cancel_work_orders"} ->
               [next EXCEPT !.orders[n].basis = o.cites]
          [] OTHER -> base

---------------------------------------------------------------------------
Known == {c \in Children : ended[c] # "running" /\ (Contract = 2 \/ ended[c] \in HandoffEndings)}
Available == {EvidenceOf(c) : c \in Known} \union
             (IF Contract = 2 THEN {Seal(PlannerAcceptedRootPlanEvidenceV2)} ELSE {})
News == IF previous = <<>> THEN Available # {} ELSE Known \ Ids(previous[1].entries) # {}
Finished == accepted # <<>> /\ Last(accepted).finish

PromptInit ==
    /\ ended = [c \in Children |-> "running"]
    /\ plan = PlannerReplannerV2PlanSnapshot
    /\ previous = <<>> /\ turn = <<>> /\ accepted = <<>>

\* external: a child that a turn delegated reaches its terminal (modules ChildDispatch and ReconRun)
ChildEnds(c, how) ==
    /\ ended[c] = "running" /\ (Contract = 2 => accepted # <<>>)
    /\ ended' = [ended EXCEPT ![c] = how]
    /\ UNCHANGED <<plan, previous, turn, accepted>>

CompileTurn ==
    LET i == planner_replanner_invocation(plan, Available, previous)
    IN  /\ turn = <<>> /\ ~Finished
        /\ News
        /\ validate_invocation(i)
        /\ turn' = <<i>>
        /\ UNCHANGED <<ended, plan, previous, accepted>>

Outputs(i) ==
    LET ids == Ids(i.packet.entries) \union {Unknown}
    IN  {[bindings |-> b, basis |-> basis, place |-> place, cites |-> cites, directive |-> DirectiveOf(place)] :
           b \in {i.bindings, [i.bindings EXCEPT !.revision = @ + 1]}, basis \in SUBSET ids,
           place \in PatchPlaces \union DirectivePlaces,
           cites \in {s \in SUBSET ids : Cardinality(s) <= 1}}

AcceptOutput ==
    /\ turn # <<>>
    /\ \E o \in Outputs(turn[1]) :
         /\ validate_planner_replanner_v2_output(o, turn[1])
         /\ Applies(o, plan)
         /\ plan' = Patched(plan, o)
         /\ accepted' = Append(accepted, [new |-> Ids(turn[1].delta.new),
                                          basis |-> o.basis \intersect Ids(turn[1].delta.new),
                                          finish |-> o.directive = "Finish"])
    /\ previous' = <<turn[1].packet>>
    /\ turn' = <<>>
    /\ UNCHANGED ended

PromptNext ==
    \/ \E c \in Children, how \in Endings : ChildEnds(c, how)
    \/ CompileTurn
    \/ AcceptOutput

---------------------------------------------------------------------------
(* Whenever there is something the last accepted turn did not know, the    *)
(* checks of the next turn's invocation accept it exactly when the packet  *)
(* fits: its entries and its bytes (evidence_packet_structure_violations,  *)
(* EntryCount and PacketTooLarge).  Nothing a turn could make of the plan  *)
(* and no order in which children end leaves a run with an invocation they *)
(* refuse for another reason (validate_base_basis looks up every old basis *)
(* in the packet).  A packet that does not fit is the end of the planning: *)
(* it holds all the evidence of the run and never shrinks.                 *)
EvidenceFits == Cardinality(Available) <= MaxEntries /\ PacketBytes(SetToSeq(Available)) <= MaxBytes

NextTurnCompiles ==
    turn = <<>> /\ ~Finished /\ News =>
        (validate_invocation(planner_replanner_invocation(plan, Available, previous)) <=> EvidenceFits)

(* Bindings name one invocation.  Parts of other turns, and parts with one *)
(* field changed, put in the place of their counterpart, are refused under *)
(* the bindings of the turn in flight.                                     *)
OtherPackets(i) ==
    {i.packet} \union
    {PlannerReplannerV2EvidencePacket(i.packet.purpose, i.packet.manifest, s) :
        s \in SUBSET Range(i.packet.entries)} \union
    {[i.packet EXCEPT !.entries[n] = e] : n \in DOMAIN i.packet.entries,
        e \in {[i.packet.entries[1] EXCEPT !.event = 0], [i.packet.entries[1] EXCEPT !.formed = FALSE],
               [i.packet.entries[1] EXCEPT !.binding = <<0>>]}}
OtherDeltas(i) ==
    {PlannerReplannerV2EvidenceDelta(i.packet.purpose, i.packet, prev) :
        prev \in {<<>>} \union {<<PlannerReplannerV2EvidencePacket(purpose, i.packet.manifest, s)>> :
                                  purpose \in PlannerReplannerV2Purpose, s \in SUBSET Range(i.packet.entries)}}
OtherInvocations(i) ==
    {[i EXCEPT !.packet = p] : p \in OtherPackets(i)} \union
    {[i EXCEPT !.delta = d] : d \in OtherDeltas(i)} \union
    {[i EXCEPT !.plan = q] : q \in {[i.plan EXCEPT !.orders = <<>>], [i.plan EXCEPT !.revision = @ + 1]}} \union
    {[i EXCEPT !.context.bindings = SubSeq(@, 1, k)] : k \in 0..Len(i.context.bindings)}

BindingsNameOneInvocation ==
    turn # <<>> /\ Contract = 2 =>
        \A i \in OtherInvocations(turn[1]) : validate_invocation(i) => i = turn[1]

(* Every accepted turn rests on evidence that no accepted turn before it   *)
(* had, so a run takes no more turns than its children ended, and one: a   *)
(* planner cannot go on over old evidence.  The first turn is never the    *)
(* last.                                                                   *)
EveryTurnRestsOnNews ==
    Contract = 2 =>
        /\ \A n \in DOMAIN accepted :
             /\ accepted[n].basis # {}
             /\ \A m \in 1..(n - 1) : accepted[n].new \intersect accepted[m].new = {}
        /\ Len(accepted) <= Cardinality(Known) + 1
        /\ accepted # <<>> => ~accepted[1].finish

PlannerPromptIsSound == NextTurnCompiles /\ BindingsNameOneInvocation /\ EveryTurnRestsOnNews
=============================================================================

