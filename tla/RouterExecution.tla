-------------------------- MODULE RouterExecution --------------------------
(***************************************************************************)
(* The semantic task router: RouterExecutor of crates/orchestrator/src/    *)
(* lib.rs and the route contract of crates/prompting/src/router.rs.        *)
(*                                                                         *)
(* One execution makes at most two calls.  The first answer is accepted,   *)
(* rejected, or, when the only defects are sections cited more than once,  *)
(* repaired by a second answer that may replace the duplicate citations    *)
(* and nothing else.  Every answer is retained before it is looked at.     *)
(***************************************************************************)
EXTENDS Naturals, Sequences, FiniteSets, SequencesExt

CONSTANTS
  Sections,       \* the sections of the prompt invocation
  UserSections,   \* those whose trust level is User
  MaxSubtasks,    \* invocation.limits.max_suggested_subtasks
  MinimalEvidence,\* the prompt version is at least 1.1.1
  Outputs,        \* decoded answers of the first call
  Patches,        \* decoded answers of the repair call
  Blank           \* a text that is empty after trimming

VARIABLES
  pc,         \* where execute is
  candidate,  \* the decoded first answer
  patch,      \* the decoded repair answer
  answer,     \* what the last call gave: Error, or a response and its defects
  journal,    \* phases of the retained attempts
  calls,      \* phases of the calls made
  status      \* the returned status and, when accepted, the output

vars == <<pc, candidate, patch, answer, journal, calls, status>>

NoOutput == [route |-> [none |-> TRUE], evidence |-> <<>>]

Init ==
  /\ pc = "Initial"
  /\ candidate = NoOutput /\ patch = <<>> /\ answer = "None"
  /\ journal = <<>> /\ calls = <<>>
  /\ status = [kind |-> "Running", output |-> NoOutput]

-----------------------------------------------------------------------------
(* The route contract. *)

Accesses == [None |-> 0, ReadOnly |-> 1, WorkspaceWrite |-> 2]

ExpectedAccess(action) ==
  CASE action \in {"Clarify", "Answer"} -> Accesses.None
    [] action = "Inspect" -> Accesses.ReadOnly
    [] action = "Change" -> Accesses.WorkspaceWrite

AxisViolations(route) ==
  (IF route.access # ExpectedAccess(route.action) THEN {"RequiredAccessMismatch"} ELSE {})
  \union (IF route.strategy = "Delegate" /\ route.action \notin {"Inspect", "Change"}
          THEN {"DelegateForUnsupportedAction"} ELSE {})
  \union (IF (route.questions = <<>>) <=> (route.action = "Clarify")
          THEN {"ClarificationQuestionPresenceMismatch"} ELSE {})
  \union (IF (route.subtasks = <<>>) <=> (route.strategy = "Delegate")
          THEN {"SuggestedSubtaskPresenceMismatch"} ELSE {})

Cites(evidence, section) == {i \in 1..Len(evidence) : evidence[i].section = section}

Duplicates(evidence) ==
  {evidence[i].section : i \in {k \in 1..Len(evidence) :
                                  Cardinality(Cites(evidence, evidence[k].section)) > 1}}

\* More than one citation of the user section is only the duplicate violation.
MinimalEvidenceViolations(evidence) ==
  (IF Duplicates(evidence) # {} THEN {"DuplicateEvidenceSection"} ELSE {})
  \union
  (IF Cardinality(UserSections) # 1 THEN {"UserSectionCount"}
   ELSE IF \E s \in UserSections : Cites(evidence, s) = {} THEN {"UserEvidenceCitationCount"}
   ELSE {})

EvidenceViolations(evidence) ==
  (IF \E i \in 1..Len(evidence) : Blank \in {evidence[i].section, evidence[i].basis}
   THEN {"BlankEvidenceField"} ELSE {})
  \union (IF \E i \in 1..Len(evidence) : evidence[i].section \notin Sections
          THEN {"UnknownEvidenceSection"} ELSE {})
  \union (IF MinimalEvidence THEN MinimalEvidenceViolations(evidence) ELSE {})

SubtaskIds(subtasks) == {subtasks[i].id : i \in 1..Len(subtasks)}
\* tasks.entry().or_insert: the first subtask with an id stands for it.
FirstWith(subtasks, id) ==
  subtasks[CHOOSE i \in 1..Len(subtasks) :
             subtasks[i].id = id /\ \A j \in 1..(i - 1) : subtasks[j].id # id]
Cyclic(subtasks) ==
  \E ring \in SUBSET SubtaskIds(subtasks) \ {{}} :
    \A id \in ring : FirstWith(subtasks, id).deps \cap ring # {}

SubtaskViolations(route) ==
  LET subtasks == route.subtasks
  IN  (IF Len(subtasks) > MaxSubtasks THEN {"TooManySuggestedSubtasks"} ELSE {})
      \union (IF \E i \in 1..Len(subtasks) : subtasks[i].access > route.access
              THEN {"SubtaskAccessExceedsRoute"} ELSE {})
      \union (IF \E i \in 1..Len(subtasks) : ~subtasks[i].sound THEN {"BlankSubtaskField"} ELSE {})
      \union (IF Cardinality(SubtaskIds(subtasks)) # Len(subtasks)
              THEN {"DuplicateSubtaskId"} ELSE {})
      \union (IF \E i \in 1..Len(subtasks) : subtasks[i].id \in subtasks[i].deps
              THEN {"SelfDependency"} ELSE {})
      \union (IF \E i \in 1..Len(subtasks) : ~(subtasks[i].deps \subseteq SubtaskIds(subtasks))
              THEN {"UnknownDependency"} ELSE {})
      \union (IF Cyclic(subtasks) THEN {"DependencyCycle"} ELSE {})

Violations(output) ==
  AxisViolations(output.route) \union EvidenceViolations(output.evidence)
    \union (IF \E i \in 1..Len(output.route.questions) : output.route.questions[i] = Blank
            THEN {"BlankClarificationQuestion"} ELSE {})
    \union SubtaskViolations(output.route)

-----------------------------------------------------------------------------
(* Repair. *)

Repairable(violations) == violations = {"DuplicateEvidenceSection"}

\* duplicate_sections_in_first_occurrence_order
DuplicateSections(evidence) ==
  LET firsts == SelectSeq([i \in 1..Len(evidence) |-> i],
                  LAMBDA i : /\ evidence[i].section \in Duplicates(evidence)
                             /\ \A j \in 1..(i - 1) : evidence[j].section # evidence[i].section)
  IN  [k \in 1..Len(firsts) |-> evidence[firsts[k]].section]

\* validate_patch: one replacement with a basis for each expected section, in order.
PatchValid(replacements, expected) ==
  /\ Len(replacements) = Len(expected)
  /\ \A i \in 1..Len(replacements) :
       replacements[i].basis # Blank /\ replacements[i].section = expected[i]

\* apply_patch: the first citation of a duplicate section becomes its replacement,
\* the later ones go, all else stays.
ApplyAtLast(output, replacements) ==
  LET kept == SelectSeq([i \in 1..Len(output.evidence) |-> i],
                LAMBDA i : \A j \in (i + 1)..Len(output.evidence) :
                             output.evidence[j].section # output.evidence[i].section)
  IN  [output EXCEPT !.evidence = [k \in 1..Len(kept) |->
         IF \E r \in Range(replacements) : r.section = output.evidence[kept[k]].section
         THEN CHOOSE r \in Range(replacements) : r.section = output.evidence[kept[k]].section
         ELSE output.evidence[kept[k]]]]
ApplyPatch(output, replacements) ==
  LET evidence == output.evidence
      duplicates == Duplicates(evidence)
      kept == SelectSeq([i \in 1..Len(evidence) |-> i],
                LAMBDA i : \/ evidence[i].section \notin duplicates
                           \/ \A j \in 1..(i - 1) : evidence[j].section # evidence[i].section)
  IN  [output EXCEPT !.evidence = [k \in 1..Len(kept) |->
         IF evidence[kept[k]].section \in duplicates
         THEN CHOOSE r \in Range(replacements) : r.section = evidence[kept[k]].section
         ELSE evidence[kept[k]]]]

-----------------------------------------------------------------------------
(* execute and repair_duplicate_evidence. *)

Answers == {"Error", "ContractViolated", "Undecodable", "Decoded"}

\* infer_structured: an error, a response that fails the response contract, one that
\* fails the schema or decoding, or a decoded output.
CallInitial ==
  /\ pc = "Initial"
  /\ calls' = Append(calls, "Initial")
  /\ \E a \in Answers, output \in Outputs :
       answer' = a /\ candidate' = (IF a = "Decoded" THEN output ELSE NoOutput)
  /\ pc' = "RetainInitial"
  /\ UNCHANGED <<patch, journal, status>>

End(kind, output) ==
  /\ pc' = "Done"
  /\ status' = [kind |-> kind, output |-> output]

RetainInitial ==
  /\ pc = "RetainInitial"
  /\ \/ journal' = Append(journal, "Initial") /\ pc' = "JudgeInitial" /\ UNCHANGED status
     \/ UNCHANGED journal /\ End("Journal", NoOutput)
  /\ UNCHANGED <<candidate, patch, answer, calls>>

JudgeInitial ==
  /\ pc = "JudgeInitial"
  /\ \/ answer = "Error" /\ End("InitialBackend", NoOutput)
     \/ answer = "ContractViolated" /\ End("InitialResponseContract", NoOutput)
     \/ answer = "Undecodable" /\ End("InitialOutputContract", NoOutput)
     \/ answer = "Decoded" /\ Violations(candidate) = {} /\ End("AcceptedFirstPass", candidate)
     \/ /\ answer = "Decoded" /\ Violations(candidate) # {} /\ ~Repairable(Violations(candidate))
        /\ End("NonRepairableInvariants", NoOutput)
     \/ /\ answer = "Decoded" /\ Repairable(Violations(candidate))
        /\ pc' = "Repair" /\ UNCHANGED status
  /\ UNCHANGED <<candidate, patch, answer, journal, calls>>

\* The repair prompt may fail to compile or to become a request.
CallRepair ==
  /\ pc = "Repair"
  /\ \/ End("RepairPreparation", NoOutput) /\ UNCHANGED <<calls, answer, patch>>
     \/ /\ calls' = Append(calls, "EvidenceRepair")
        /\ \E a \in Answers, p \in Patches :
             answer' = a /\ patch' = (IF a = "Decoded" THEN p ELSE <<>>)
        /\ pc' = "RetainRepair" /\ UNCHANGED status
  /\ UNCHANGED <<candidate, journal>>

RetainRepair ==
  /\ pc = "RetainRepair"
  /\ \/ journal' = Append(journal, "EvidenceRepair") /\ pc' = "JudgeRepair" /\ UNCHANGED status
     \/ UNCHANGED journal /\ End("Journal", NoOutput)
  /\ UNCHANGED <<candidate, patch, answer, calls>>

Repaired == ApplyPatch(candidate, patch)

JudgeRepair ==
  LET valid == answer = "Decoded" /\ PatchValid(patch, DuplicateSections(candidate.evidence))
  IN  /\ pc = "JudgeRepair"
      /\ \/ answer = "Error" /\ End("RepairBackend", NoOutput)
         \/ answer = "ContractViolated" /\ End("RepairResponseContract", NoOutput)
         \/ answer = "Undecodable" /\ End("RepairOutputContract", NoOutput)
         \/ answer = "Decoded" /\ ~valid /\ End("InvalidRepairPatch", NoOutput)
         \/ valid /\ (IF Violations(Repaired) = {}
                      THEN End("AcceptedAfterEvidenceRepair", Repaired)
                      ELSE End("RepairedOutputContract", NoOutput))
      /\ UNCHANGED <<candidate, patch, answer, journal, calls>>

Next ==
  CallInitial \/ RetainInitial \/ JudgeInitial \/ CallRepair \/ RetainRepair \/ JudgeRepair

Spec == Init /\ [][Next]_vars

-----------------------------------------------------------------------------
TypeOK ==
  /\ pc \in {"Initial", "RetainInitial", "JudgeInitial", "Repair", "RetainRepair",
             "JudgeRepair", "Done"}
  /\ candidate \in Outputs \union {NoOutput}
  /\ patch \in Patches \union {<<>>}
  /\ calls \in {<<>>, <<"Initial">>, <<"Initial", "EvidenceRepair">>}
  /\ (pc = "Done") <=> (status.kind # "Running")

AcceptedKinds == {"AcceptedFirstPass", "AcceptedAfterEvidenceRepair"}

\* The repair never touches a semantic field: an accepted route is the one of the
\* first answer, cites exactly the sections that answer cited, each once and in the
\* order of their first citation, and keeps the basis of every section that was
\* cited once.
RepairOnlyMergesCitations ==
  status.kind \in AcceptedKinds /\ MinimalEvidence =>
    LET out == status.output.evidence
        in == candidate.evidence
        FirstAt(s) == CHOOSE i \in Cites(in, s) : \A j \in Cites(in, s) : i <= j
    IN  /\ status.output.route = candidate.route
        /\ \A i \in 1..Len(in) : Cardinality(Cites(out, in[i].section)) = 1
        /\ \A i, j \in 1..Len(out) : i < j => FirstAt(out[i].section) < FirstAt(out[j].section)
        /\ \A i \in 1..Len(out) :
             Cardinality(Cites(in, out[i].section)) = 1 => out[i].basis = in[FirstAt(out[i].section)].basis

\* A repair whose patch has the required form always yields a valid route: the
\* second contract check can never be the one that rejects it.
ValidPatchAlwaysRepairs == status.kind # "RepairedOutputContract"

\* Nothing is judged, repeated or accepted before it is retained, and an accepted
\* route has every call behind it in the journal.
CallsAreRetained ==
  /\ pc \in {"JudgeInitial", "Repair", "JudgeRepair"} => journal = calls
  /\ status.kind \in AcceptedKinds => journal = calls

\* A route whose defects are more than duplicate citations is never called again.
DefectsAreNotRepaired ==
  Len(calls) = 2 =>
    Violations([candidate EXCEPT !.evidence =
                  SelectSeq(@, LAMBDA e : e.section \notin Duplicates(@))
                    \o SetToSeq({[section |-> s, basis |-> "merged"] : s \in Duplicates(@)})]) = {}

\* The invariants of the router, together.
RouteIsSound ==
  /\ TypeOK
  /\ RepairOnlyMergesCitations
  /\ ValidPatchAlwaysRepairs
  /\ CallsAreRetained
  /\ DefectsAreNotRepaired
=============================================================================

