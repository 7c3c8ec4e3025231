----------------------------- MODULE MCWorkers -----------------------------
(***************************************************************************)
(* The agent workers' effects.  A behaviour exercises one subject: one     *)
(* attempt of the implementation agent with its write lane; the lane alone *)
(* under more edits and failures; the registry of candidate heads with two *)
(* controllers on two tracks of different work orders; or the reviews of a *)
(* candidate, in three settings.                                           *)
(***************************************************************************)
EXTENDS ImplementationAttempt, CandidateHead, TLC

CONSTANTS AttemptEdits, AttemptFaults  \* bounds: an attempt's share of the edits and faults

VARIABLES subject,                                      \* what this behaviour exercises
          sealed, scheduler, reviews, at, reviewFaults  \* RepositoryReview

reviewVars == <<sealed, scheduler, reviews, at, reviewFaults>>
everything == <<subject, all, headVars, reviewVars>>

ScopeOfTwo == "t1" :> 1 @@ "t2" :> 2 @@ "x1" :> 1 @@ "x2" :> 2

Alike == Permutations(Controllers) \cup Permutations(SelectionIds) \cup Permutations(PlanSteps)

-----------------------------------------------------------------------------
(* The documents a reviewer's model answers with, of two requirements: every *)
(* shape over verdict, statuses, findings and missing evidence, and four     *)
(* documents with one defect each.                                           *)
Contract == INSTANCE ReviewContract WITH MaxRequirements <- 2, MaxFindings <- 1, MaxEvidence <- 4

Whole == Contract!EvidenceRef("Diff", 0, 0)
First(h) == Contract!EvidenceRef(h, 1, 1)
Cites(s) == IF s = "NotEvaluable" THEN <<>> ELSE <<First("Diff")>>
Document(policy, verdict, s1, s2, findings, missing) ==
    [formed |-> TRUE, bindings |-> Contract!Bindings(policy), verdict |-> verdict,
     assessments |-> <<Contract!AssessmentOf("a", s1, Cites(s1)), Contract!AssessmentOf("b", s2, Cites(s2))>>,
     findings |-> findings, missing |-> missing]
Finding == <<Contract!FindingOf("f", <<First("Postimage")>>)>>
MissingShapes == {<<>>, <<Contract!MissingOf("m1", {"a"})>>, <<Contract!MissingOf("m1", {"b"})>>, <<Contract!MissingOf("m1", {"a", "b"})>>,
    <<Contract!MissingOf("m1", {"a"}), Contract!MissingOf("m2", {"b"})>>, <<Contract!MissingOf("m1", {"a"}), Contract!MissingOf("m2", {"a"})>>}
Shapes(policy) ==
    {Document(policy, v, s1, s2, f, m) : v \in Contract!Verdicts, s1 \in Contract!Statuses, s2 \in Contract!Statuses,
        f \in {<<>>, Finding}, m \in MissingShapes}
Pass(policy) == Document(policy, "Pass", "Satisfied", "Satisfied", <<>>, <<>>)
Revise(policy) == Document(policy, "Revise", "Satisfied", "Partial", Finding, <<>>)
Undecided(policy) == Document(policy, "Inconclusive", "NotEvaluable", "NotEvaluable", <<>>, <<>>)
Half(policy) == Document(policy, "Inconclusive", "Satisfied", "NotEvaluable", <<>>, <<Contract!MissingOf("m1", {"b"})>>)
Defects(d) ==
    {[d EXCEPT !.formed = FALSE], [d EXCEPT !.bindings.payload = <<>>],
     [d EXCEPT !.bindings.subject = <<Contract!Foreign, "own">>],
     [d EXCEPT !.assessments = Tail(@)], [d EXCEPT !.assessments = <<@[1], @[1]>>],
     [d EXCEPT !.assessments[1].requirement = Contract!Foreign],
     [d EXCEPT !.assessments[2].evidence = <<Contract!EvidenceRef(Contract!Foreign, 1, 1)>>],
     [d EXCEPT !.assessments[2].evidence = <<Contract!EvidenceRef("Diff", 1, 2)>>],
     [d EXCEPT !.assessments[2].evidence = <<Contract!EvidenceRef("Diff", 0, 1)>>],
     [d EXCEPT !.assessments[2].evidence = <<Whole, Whole>>],
     [d EXCEPT !.assessments[1].evidence = <<Whole, First("Diff"), First("Preimage"), First("Postimage")>>],
     [d EXCEPT !.findings = Finding \o Finding], [d EXCEPT !.findings = <<Contract!FindingOf("f", <<>>)>>],
     [d EXCEPT !.missing = @ \o <<Contract!MissingOf("m1", {Contract!Foreign})>>],
     [d EXCEPT !.missing = @ \o <<Contract!MissingOf("m1", {})>>]}
AllAnswers(policy) ==
    Shapes(policy) \cup UNION {Defects(d) : d \in {Pass(policy), Revise(policy), Undecided(policy), Half(policy)}}
TwoAnswers(policy) == {Pass(policy), Undecided(policy)}
OneAnswer(policy) == {Pass(policy)}

\* One reviewer with every answer; one with a replayed dispatch, every usage and a failing
\* journal; and two reviewers of a producer with two attempts.
Alone == INSTANCE RepositoryReview WITH
           MaxRequirements <- 2, MaxFindings <- 1, MaxEvidence <- 4, MaxTokens <- 1,
           Requirements <- <<"a", "b">>, Retries <- <<"p1">>, Reviewers <- {"r1"}, Replayed <- {},
           Contents <- {"x", "y"}, Unreadable <- {"y"}, Answers <- AllAnswers, Usages <- {1},
           MaxFaults <- 0, store <- sealed, journal <- reviews
Failing == INSTANCE RepositoryReview WITH
           MaxRequirements <- 2, MaxFindings <- 1, MaxEvidence <- 4, MaxTokens <- 1,
           Requirements <- <<"a", "b">>, Retries <- <<"p1">>, Reviewers <- {"r1"}, Replayed <- {"r1"},
           Contents <- {"x"}, Unreadable <- {}, Answers <- TwoAnswers, Usages <- 0..2,
           MaxFaults <- 1, store <- sealed, journal <- reviews
Both == INSTANCE RepositoryReview WITH
           MaxRequirements <- 2, MaxFindings <- 1, MaxEvidence <- 4, MaxTokens <- 1,
           Requirements <- <<"a", "b">>, Retries <- <<"p1", "p2">>, Reviewers <- {"r1", "r2"},
           Replayed <- {}, Contents <- {"x"}, Unreadable <- {}, Answers <- OneAnswer, Usages <- {1},
           MaxFaults <- 0, store <- sealed, journal <- reviews

ASSUME Alone!ReviewAssumption /\ Failing!ReviewAssumption /\ Both!ReviewAssumption

-----------------------------------------------------------------------------
WorkersInit ==
    /\ AttemptInit /\ HeadInit
    /\ subject \in {"attempt", "lane", "head", "review", "failing review", "two reviews"}
    /\ CASE subject = "failing review" -> Failing!ReviewInit
         [] subject = "two reviews" -> Both!ReviewInit
         [] OTHER -> Alone!ReviewInit

WorkersNext ==
    /\ UNCHANGED subject
    /\ \/ /\ subject = "attempt" /\ AttemptNext /\ UNCHANGED <<headVars, reviewVars>>
          /\ edits' <= AttemptEdits /\ faults' <= AttemptFaults
       \/ subject = "lane" /\ Next /\ UNCHANGED <<worker, headVars, reviewVars>>
       \/ subject = "head" /\ HeadNext /\ UNCHANGED <<all, reviewVars>>
       \/ subject = "review" /\ Alone!ReviewNext /\ UNCHANGED <<all, headVars>>
       \/ subject = "failing review" /\ Failing!ReviewNext /\ UNCHANGED <<all, headVars>>
       \/ subject = "two reviews" /\ Both!ReviewNext /\ UNCHANGED <<all, headVars>>

WorkersSpec == WorkersInit /\ [][WorkersNext]_everything

\* ReviewIsSound of module RepositoryReview, in each setting.
ReviewIsSound ==
    /\ subject = "review" => Alone!ReviewIsSound
    /\ subject = "failing review" => Failing!ReviewIsSound
    /\ subject = "two reviews" => Both!ReviewIsSound
=============================================================================
