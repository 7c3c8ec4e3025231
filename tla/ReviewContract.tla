--------------------------- MODULE ReviewContract ---------------------------
(***************************************************************************)
(* The contract of a repository review                                     *)
(* (crates/prompting/src/repository_reviewer.rs and                        *)
(* apps/daemon/src/repository_reviewer_repair_prompt.rs): the material a   *)
(* reviewer is shown, the policy derived from it, the checks of a verdict, *)
(* and the one repair of a verdict that names too little missing evidence. *)
(*                                                                         *)
(* Collections of violations are represented by their being empty.  A      *)
(* digest is what it digests.  `formed' stands for the bounds on the texts *)
(* and identifiers of a document and for its JSON schema.                  *)
(***************************************************************************)
EXTENDS Naturals, Sequences, FiniteSets, SequencesExt

CONSTANTS MaxRequirements, MaxFindings, MaxEvidence  \* the closed limits of contract version 1

Foreign == "foreign"     \* a reference, handle or binding of some other document

Handles == {"Preimage", "Postimage", "Diff"}
Verdicts == {"Pass", "Revise", "Inconclusive"}
Statuses == {"Satisfied", "Partial", "Unsatisfied", "NotEvaluable"}

\* An evidence reference: a handle and a span of lines, <<0, 0>> for the whole artifact.
EvidenceRef(handle, first, last) == [handle |-> handle, span |-> <<first, last>>]

AssessmentOf(r, status, evidence) == [requirement |-> r, status |-> status, evidence |-> evidence]
FindingOf(id, evidence) == [id |-> id, evidence |-> evidence]
MissingOf(id, refs) == [id |-> id, refs |-> refs]

DistinctIn(s, Key(_)) == \A i, j \in DOMAIN s : Key(s[i]) = Key(s[j]) => i = j

-----------------------------------------------------------------------------
(* What the reviewer is shown, and its policy                              *)

\* section, input_violations: [subject, requirements, artifacts, formed].
ValidInput(input) ==
    /\ input.formed
    /\ Len(input.requirements) \in 1..MaxRequirements
    /\ DistinctIn(input.requirements, LAMBDA r : r)
    /\ \A i \in DOMAIN input.artifacts : input.artifacts[i].complete
    /\ DistinctIn(input.artifacts, LAMBDA a : a.handle)
    /\ {a.handle : a \in ToSet(input.artifacts)} = Handles

\* logical_line_count of the artifact shown under each handle.
LineCounts(input) ==
    [h \in Handles |-> (CHOOSE a \in ToSet(input.artifacts) : a.handle = h).lines]

derive_repository_review_policy_v1(input) ==
    [subject |-> input.subject, payload |-> input.artifacts,
     requirements |-> ToSet(input.requirements), evidence |-> LineCounts(input)]

Bindings(policy) == [subject |-> policy.subject, payload |-> policy.payload]

-----------------------------------------------------------------------------
(* validate_repository_review_output                                       *)

\* collect_evidence_violations
ValidEvidence(evidence, policy) ==
    /\ DistinctIn(evidence, LAMBDA e : e)
    /\ \A e \in ToSet(evidence) :
          /\ e.handle \in Handles
          /\ e.span # <<0, 0>> =>
                e.span[1] # 0 /\ e.span[1] <= e.span[2] /\ e.span[2] <= policy.evidence[e.handle]

\* collect_assessment_violations
ValidAssessments(output, policy) ==
    /\ Len(output.assessments) = Cardinality(policy.requirements)
    /\ DistinctIn(output.assessments, LAMBDA a : a.requirement)
    /\ \A a \in ToSet(output.assessments) :
          /\ a.requirement \in policy.requirements
          /\ a.status # "NotEvaluable" => a.evidence # <<>>
          /\ ValidEvidence(a.evidence, policy)

\* collect_finding_violations
ValidFindings(output, policy) ==
    /\ Len(output.findings) <= MaxFindings
    /\ DistinctIn(output.findings, LAMBDA f : f.id)
    /\ \A f \in ToSet(output.findings) : f.evidence # <<>> /\ ValidEvidence(f.evidence, policy)

HasStatus(output, statuses) == {a.requirement : a \in {b \in ToSet(output.assessments) : b.status \in statuses}}
NotEvaluable(output) == HasStatus(output, {"NotEvaluable"})
Covered(output) == UNION {m.refs : m \in ToSet(output.missing)}

\* collect_missing_evidence_violations
ValidMissingEvidence(output, policy) ==
    /\ DistinctIn(output.missing, LAMBDA m : m.id)
    /\ \A m \in ToSet(output.missing) : m.refs # {} /\ m.refs \subseteq policy.requirements
    /\ NotEvaluable(output) \subseteq Covered(output)

EvidenceCount(output) ==
    LET Count(s) == FoldLeft(LAMBDA n, x : n + Len(x.evidence), 0, s)
    IN  Count(output.assessments) + Count(output.findings)

\* collect_verdict_shape_violations
ValidVerdictShape(output) ==
    /\ CASE output.verdict = "Pass" ->
              /\ \A a \in ToSet(output.assessments) : a.status = "Satisfied"
              /\ output.findings = <<>> /\ output.missing = <<>>
         [] output.verdict = "Revise" ->
              /\ HasStatus(output, {"Partial", "Unsatisfied"}) # {}
              /\ output.findings # <<>> /\ output.missing = <<>>
         [] output.verdict = "Inconclusive" -> NotEvaluable(output) # {} /\ output.missing # <<>>
    /\ EvidenceCount(output) <= MaxEvidence

validate_repository_review_output(output, policy) ==
    /\ output.formed /\ output.bindings = Bindings(policy)
    /\ ValidAssessments(output, policy)
    /\ ValidFindings(output, policy)
    /\ ValidMissingEvidence(output, policy)
    /\ ValidVerdictShape(output)

-----------------------------------------------------------------------------
(* The missing-evidence repair                                             *)

\* The requirements without missing evidence, in the order of their assessments.
Uncovered(candidate) ==
    LET open == SelectSeq(candidate.assessments,
                          LAMBDA a : a.status = "NotEvaluable" /\ a.requirement \notin Covered(candidate))
    IN  [i \in DOMAIN open |-> open[i].requirement]

\* A generated identifier: one for each requirement, and none the candidate uses.
deterministic_missing_evidence_id(requirement) == requirement

\* What a list of completions, one per slot, makes of the candidate.
Completed(candidate, slots) ==
    [candidate EXCEPT !.missing =
        @ \o [i \in DOMAIN slots |-> MissingOf(deterministic_missing_evidence_id(slots[i]), {slots[i]})]]

\* prepare_repository_review_missing_evidence_repair_v1: the uncovered requirements are
\* the only defect, since placeholders for them make the whole contract pass.
Repairable(candidate, policy) ==
    LET refs == [i \in DOMAIN candidate.missing |-> candidate.missing[i].refs]
    IN  /\ candidate.verdict = "Inconclusive" /\ candidate.bindings.subject = policy.subject
        /\ NotEvaluable(candidate) # {}
        /\ Covered(candidate) \subseteq NotEvaluable(candidate)
        /\ \A i, j \in DOMAIN refs : i # j => refs[i] \cap refs[j] = {}
        /\ Uncovered(candidate) # <<>>
        /\ ToSet(Uncovered(candidate)) \subseteq policy.requirements
        /\ validate_repository_review_output(Completed(candidate, Uncovered(candidate)), policy)

\* A patch answers the slots it was asked for, each once and in their order.
ValidPatch(patch, slots) == patch.bound /\ patch.slots = slots

\* apply_repository_review_missing_evidence_repair_v1; a completion's own text may still
\* break the contract.
Applied(candidate, patch, policy) ==
    [Completed(candidate, Uncovered(candidate)) EXCEPT !.formed = @ /\ patch.formed]
Applies(candidate, patch, policy) ==
    /\ ValidPatch(patch, Uncovered(candidate))
    /\ validate_repository_review_output(Applied(candidate, patch, policy), policy)

-----------------------------------------------------------------------------
(* What the contract comes to                                              *)

\* The requirements and evidence a document reports admit one verdict only, and only a
\* verdict that leaves no requirement open may pass or ask for a revision: with three
\* independent checks (coverage, shape and assessments), none of which says so alone.
VerdictIsForced(output, policy) ==
    validate_repository_review_output(output, policy) =>
        /\ \A v \in Verdicts \ {output.verdict} :
              ~validate_repository_review_output([output EXCEPT !.verdict = v], policy)
        /\ output.verdict = "Pass" <=> HasStatus(output, {"Satisfied"}) = policy.requirements
        /\ output.verdict = "Inconclusive" <=> NotEvaluable(output) # {}
=============================================================================
