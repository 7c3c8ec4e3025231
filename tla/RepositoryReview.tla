-------------------------- MODULE RepositoryReview --------------------------
(***************************************************************************)
(* The review of a repository candidate: the candidate store               *)
(* (apps/daemon/src/repository_candidate.rs), the subject a dispatch is    *)
(* resolved to (repository_candidate_resolver.rs), the reviewer's attempt  *)
(* (repository_reviewer_worker.rs) and the reader that believes or refuses *)
(* its result (repository_review_decision.rs).                             *)
(*                                                                         *)
(* `scheduler' is the scheduler's journal, an event's identity its         *)
(* position.  `journal' is the review journal; its reader filters and      *)
(* counts and never uses an order, so it is a set, and the identity of an  *)
(* entry is the execution that made it and its kind.  A reviewer order has *)
(* one attempt; besides the execution the scheduler waits for, its         *)
(* dispatch may be replayed.  An artifact is named by the entry that       *)
(* retains it and its part in it.                                          *)
(***************************************************************************)
EXTENDS ReviewContract

CONSTANTS Retries,        \* attempts of the producer, a sequence
          Reviewers,      \* reviewer work orders of that producer, with their one attempt
          Replayed,       \* those whose dispatch may be executed a second time
          Contents,       \* bundles a producer attempt may seal
          Unreadable,     \* those whose diff is not UTF-8 or whose claims exceed the bounds
          Requirements,   \* the objective and the acceptance criteria, a sequence
          Answers(_),     \* bound: what the model may answer under a policy
          MaxTokens,      \* the output ceiling of a call
          Usages,         \* output tokens a provider may report, 0 for no report
          MaxFaults       \* bound: failures of a journal

\* What the constants satisfy; a bench assumes it of each instance.
ReviewAssumption ==
    /\ Unreadable \subseteq Contents /\ Replayed \subseteq Reviewers
    /\ MaxTokens \in Nat \ {0} /\ Usages \subseteq Nat /\ MaxFaults \in Nat

VARIABLES store,       \* candidate record of each producer attempt
          scheduler,   \* the scheduler's records
          journal,     \* entries of the review journal
          at,          \* where each execution stands
          reviewFaults

reviewVars == <<store, scheduler, journal, at, reviewFaults>>

Producers == ToSet(Retries)
Executions == (Reviewers \X {"own"}) \cup (Replayed \X {"replay"})
OrderOf(t) == t[1]
NoRecord == [content |-> "none", cleanup |-> 0]
Over == {"completed", "failed"}

EntryKinds == {"ExecutionClaimed", "ExecutionStarted", "SubjectPrepared", "InputRejected", "ModelPrepared",
    "ModelObserved", "ModelFailed", "RepairPrepared", "RepairInputRejected", "RepairObserved",
    "RepairFailed", "RepairRejected", "ModelContractRejected", "VerdictAccepted"}

Id(t, kind) == <<t, kind>>
IdOf(e) == Id(e.task, e.kind)
Entries(kind) == {e \in journal : e.kind = kind}
Ids == Executions \X (EntryKinds \cup {"none"})

\* RepositoryCandidateBundleV1, published and, with a cleanup observation, ready.
Published == [content : Contents, cleanup : 0..2]
\* RepositoryReviewExecutionClaimV1, RepositoryReviewDisclosureV1 and
\* RepositoryReviewReceiptV1, of which the source and the repair are the events named.
ExecutionClaims == [reviewer : Reviewers, producer : Producers, candidate : Published]
Disclosures == [reviewer : Reviewers, dispatch : SUBSET (1..Len(scheduler)), handoff : 1..Len(scheduler),
                producer : Producers, candidate : Published]
Receipts == [claimed : Ids, subject : Ids, prepared : Ids, observed : Ids, repair : SUBSET Ids, tokens : Nat]

\* The type of the review's state.
ReviewTypeOK ==
    /\ store \in [Producers -> Published \cup {NoRecord}]
    /\ \A e \in journal : IdOf(e) \in Ids /\ e.of \in Ids
    /\ \A e \in Entries("ExecutionClaimed") : e.data \in ExecutionClaims
    /\ \A e \in Entries("SubjectPrepared") : e.data.disclosure \in Disclosures
    /\ \A e \in Entries("VerdictAccepted") : e.data.receipt \in Receipts
    /\ at \in [Executions -> Over \cup {"idle", "claiming", "starting", "subject", "prepare", "calling",
                                        "judging", "repair", "repair_calling", "repair_judging", "accepting"}]
    /\ reviewFaults \in 0..MaxFaults

ReviewInit ==
    /\ store = [p \in Producers |-> NoRecord]
    /\ scheduler = <<>> /\ journal = {}
    /\ at = [t \in Executions |-> "idle"] /\ reviewFaults = 0

-----------------------------------------------------------------------------
(* The candidate store                                                     *)

publication_for_bundle(content) == [content |-> content, cleanup |-> 0]
ready_after_cleanup(candidate, cleanup) == [candidate EXCEPT !.cleanup = cleanup]

\* InMemoryRepositoryCandidateStore::publish: the same bundle again is answered with the
\* first publication, another one for the same attempt is refused.
publish(p, content) ==
    /\ store' = IF store[p] = NoRecord THEN [store EXCEPT ![p] = publication_for_bundle(content)] ELSE store
    /\ UNCHANGED <<scheduler, journal, at, reviewFaults>>

\* mark_cleanup_observed: the first release observation makes the candidate ready.
mark_cleanup_observed(p, cleanup) ==
    /\ store[p] # NoRecord
    /\ store' = IF store[p].cleanup = 0 THEN [store EXCEPT ![p] = ready_after_cleanup(@, cleanup)] ELSE store
    /\ UNCHANGED <<scheduler, journal, at, reviewFaults>>

\* resolve_ready, with validate_for of the retained candidate.
resolve_ready(p) == IF store[p].cleanup = 0 THEN {} ELSE {store[p]}

-----------------------------------------------------------------------------
(* The scheduler                                                           *)

Positions(kind, actor) == {i \in DOMAIN scheduler : scheduler[i].kind = kind /\ scheduler[i].actor = actor}
Dispatches(x) == Positions("AttemptDispatched", x)
Handoffs(x) == Positions("HandoffRetained", x)
Failures(x) == Positions("AttemptFailed", x)
AllHandoffs == {i \in DOMAIN scheduler : scheduler[i].kind = "HandoffRetained"}

NoCompletion == [evidence |-> {}, artifacts |-> {}, lineage |-> NoRecord, tokens |-> 0, verdict |-> "none"]

Record(kind, x, parent, about, completion) ==
    [kind |-> kind, actor |-> x, parent |-> parent, about |-> about, completion |-> completion]
Log(record) == scheduler' = Append(scheduler, record)

\* A producer attempt is dispatched when the one before it has failed.
DispatchProducer(p) ==
    /\ Dispatches(p) = {}
    /\ \A i, j \in DOMAIN Retries : i < j /\ Retries[j] = p => Failures(Retries[i]) # {}
    /\ Log(Record("AttemptDispatched", p, 0, NoRecord, NoCompletion))
    /\ UNCHANGED <<store, journal, at, reviewFaults>>

\* It ends: with a handoff naming the candidate it left ready, one naming none (its worker
\* is not the implementation worker), or a failure.
EndProducer(p) ==
    /\ \E d \in Dispatches(p) :
          \/ \E c \in {NoRecord} \cup resolve_ready(p) : Log(Record("HandoffRetained", p, d, c, NoCompletion))
          \/ Log(Record("AttemptFailed", p, d, NoRecord, NoCompletion))
    /\ Handoffs(p) \cup Failures(p) = {}
    /\ UNCHANGED <<store, journal, at, reviewFaults>>

ProducerHandoffs == UNION {Handoffs(p) : p \in Producers}

\* A reviewer is dispatched with the handoff of its dependency; `parent' is that handoff.
DispatchReviewer(r) ==
    /\ Dispatches(r) = {}
    /\ \E h \in ProducerHandoffs : Log(Record("AttemptDispatched", r, h, NoRecord, NoCompletion))
    /\ UNCHANGED <<store, journal, at, reviewFaults>>

DependencyOf(r) == CHOOSE h \in DOMAIN scheduler : \E d \in Dispatches(r) : scheduler[d].parent = h

-----------------------------------------------------------------------------
(* The review journal                                                      *)

Entry(t, kind, of, data) == [task |-> t, kind |-> kind, of |-> Id(t, of), data |-> data]
Mine(t, kind) == CHOOSE e \in Entries(kind) : e.task = t
HasMine(t, kind) == \E e \in Entries(kind) : e.task = t

To(t, place) == at' = [at EXCEPT ![t] = place]

\* retain: the entry is durable and the attempt goes on, or the journal fails, with or
\* without the entry, and the attempt with it.
Retain(t, entry, place) ==
    \/ journal' = journal \cup {entry} /\ To(t, place) /\ UNCHANGED reviewFaults
    \/ /\ reviewFaults < MaxFaults /\ reviewFaults' = reviewFaults + 1
       /\ journal' \in {journal, journal \cup {entry}} /\ To(t, "failed")

Nothing == [none |-> TRUE]

-----------------------------------------------------------------------------
(* run_attempt                                                             *)

\* require_candidate_artifacts, require_candidate_evidence: the handoff names the artifacts,
\* the publication, the cleanup and the readiness of that very candidate.
HandoffNames(h, candidate) == scheduler[h].about = candidate

\* resolve_repository_review_subjects: the candidate of the producer attempt the verified
\* dependency names.
resolve_repository_review_subjects(r) ==
    LET h == DependencyOf(r) IN
    {[producer |-> scheduler[h].actor, handoff |-> h, candidate |-> c] :
        c \in {x \in resolve_ready(scheduler[h].actor) : HandoffNames(h, x)}}

Subject(t) == CHOOSE s \in resolve_repository_review_subjects(OrderOf(t)) : TRUE

BeginReview(t) ==
    /\ at[t] = "idle" /\ Dispatches(OrderOf(t)) # {}
    /\ To(t, IF resolve_repository_review_subjects(OrderOf(t)) = {} THEN "failed" ELSE "claiming")
    /\ UNCHANGED <<store, scheduler, journal, reviewFaults>>

ExecutionClaim(t) ==
    [reviewer |-> OrderOf(t), producer |-> Subject(t).producer, candidate |-> Subject(t).candidate]

Claims(r) == {e \in Entries("ExecutionClaimed") : e.data.reviewer = r}

\* mutant: a replay acquires the execution again
ClaimAnew(t) ==
    /\ at[t] = "claiming"
    /\ Retain(t, Entry(t, "ExecutionClaimed", "none", ExecutionClaim(t)), "starting")
    /\ UNCHANGED <<store, scheduler>>

\* claim_execution: a slot is the reviewer's attempt, and is acquired once.
claim_execution(t) ==
    /\ at[t] = "claiming"
    /\ IF Claims(OrderOf(t)) = {}
         THEN Retain(t, Entry(t, "ExecutionClaimed", "none", ExecutionClaim(t)), "starting")
         ELSE To(t, "failed") /\ UNCHANGED <<journal, reviewFaults>>
    /\ UNCHANGED <<store, scheduler>>

StartExecution(t) ==
    /\ at[t] = "starting"
    /\ Retain(t, Entry(t, "ExecutionStarted", "ExecutionClaimed", Nothing), "subject")
    /\ UNCHANGED <<store, scheduler>>

\* prepare_repository_review_prompt_v1: three artifacts, complete and in UTF-8, and one
\* requirement for the objective and each criterion.
ReviewInput(t) ==
    LET c == Subject(t).candidate
        Shown(h) == [handle |-> h, complete |-> TRUE, lines |-> 1, of |-> c.content]
    IN  [subject |-> t, requirements |-> Requirements, formed |-> c.content \notin Unreadable,
         artifacts |-> <<Shown("Preimage"), Shown("Postimage"), Shown("Diff")>>]

PolicyOf(t) == derive_repository_review_policy_v1(ReviewInput(t))

\* The controller's own record of whose candidate is behind the blind subject.
disclosure(t) ==
    [reviewer |-> OrderOf(t), dispatch |-> Dispatches(OrderOf(t)), handoff |-> Subject(t).handoff,
     producer |-> Subject(t).producer, candidate |-> Subject(t).candidate]

PrepareSubject(t) ==
    /\ at[t] = "subject"
    /\ \/ ValidInput(ReviewInput(t))
          /\ Retain(t, Entry(t, "SubjectPrepared", "none",
                             [input |-> ReviewInput(t), disclosure |-> disclosure(t)]), "prepare")
       \/ ~ValidInput(ReviewInput(t)) /\ To(t, "failed") /\ UNCHANGED <<journal, reviewFaults>>
    /\ UNCHANGED <<store, scheduler>>

\* The request fits the byte fence, or is rejected with its size.
PrepareModel(t) ==
    /\ at[t] = "prepare"
    /\ \/ Retain(t, Entry(t, "ModelPrepared", "SubjectPrepared", Nothing), "calling")
       \/ Retain(t, Entry(t, "InputRejected", "SubjectPrepared", Nothing), "failed")
    /\ UNCHANGED <<store, scheduler>>

\* A response: what was reported of its tokens, whether model, instance
\* and raw text agree, and the document it holds.
Responses(documents) == [tokens : Usages, bound : BOOLEAN, document : documents]

Infer(t) ==
    /\ at[t] = "calling"
    /\ \/ \E response \in Responses(Answers(PolicyOf(t))) :
             Retain(t, Entry(t, "ModelObserved", "ModelPrepared", response), "judging")
       \/ Retain(t, Entry(t, "ModelFailed", "ModelPrepared", Nothing), "failed")
    /\ UNCHANGED <<store, scheduler>>

Response(t) == Mine(t, "ModelObserved").data

\* The order of the checks: token ceiling, binding, contract, and whether one repair may
\* follow.  reject_response journals the violation and ends the attempt.
Judge(t) ==
    LET response == Response(t)
        admitted == response.tokens <= MaxTokens /\ response.bound
        valid == validate_repository_review_output(response.document, PolicyOf(t))
        repairable == Repairable(response.document, PolicyOf(t))
    IN  /\ at[t] = "judging"
        /\ \/ /\ admitted /\ (valid \/ repairable)
              /\ To(t, IF valid THEN "accepting" ELSE "repair") /\ UNCHANGED <<journal, reviewFaults>>
           \/ /\ ~admitted \/ ~(valid \/ repairable)
              /\ Retain(t, Entry(t, "ModelContractRejected", "ModelObserved", Nothing), "failed")
        /\ UNCHANGED <<store, scheduler>>

-----------------------------------------------------------------------------
(* repair_missing_evidence                                                 *)

PrepareRepair(t) ==
    /\ at[t] = "repair"
    /\ \/ Retain(t, Entry(t, "RepairPrepared", "ModelObserved",
                          [slots |-> Uncovered(Response(t).document)]), "repair_calling")
       \/ Retain(t, Entry(t, "RepairInputRejected", "ModelObserved", Nothing), "failed")
    /\ UNCHANGED <<store, scheduler>>

\* The patches a model may answer with: the slots asked for, too few, or out of order.
Patches(slots) ==
    [bound : BOOLEAN, formed : BOOLEAN, slots : {slots, Reverse(slots), Tail(slots)}]

InferRepair(t) ==
    /\ at[t] = "repair_calling"
    /\ \/ \E response \in Responses(Patches(Mine(t, "RepairPrepared").data.slots)) :
             Retain(t, Entry(t, "RepairObserved", "RepairPrepared", response), "repair_judging")
       \/ Retain(t, Entry(t, "RepairFailed", "RepairPrepared", Nothing), "failed")
    /\ UNCHANGED <<store, scheduler>>

RepairResponse(t) == Mine(t, "RepairObserved").data

JudgeRepair(t) ==
    LET response == RepairResponse(t)
        admitted == response.tokens <= MaxTokens /\ response.bound
                    /\ Applies(Response(t).document, response.document, PolicyOf(t))
    IN  /\ at[t] = "repair_judging"
        /\ \/ admitted /\ To(t, "accepting") /\ UNCHANGED <<journal, reviewFaults>>
           \/ ~admitted /\ Retain(t, Entry(t, "RepairRejected", "RepairObserved", Nothing), "failed")
        /\ UNCHANGED <<store, scheduler>>

-----------------------------------------------------------------------------
(* The verdict and the handoff                                             *)

Repaired(t) == HasMine(t, "RepairObserved")

FinalOutput(t) ==
    IF Repaired(t) THEN Applied(Response(t).document, RepairResponse(t).document, PolicyOf(t))
                   ELSE Response(t).document

\* combined_review_usage: a total is known only when both calls reported.
combined_output_tokens(primary, repair) == IF primary > 0 /\ repair > 0 THEN primary + repair ELSE 0

AggregateTokens(t) ==
    IF Repaired(t) THEN combined_output_tokens(Response(t).tokens, RepairResponse(t).tokens)
                   ELSE Response(t).tokens

Receipt(t) ==
    [claimed |-> Id(t, "ExecutionClaimed"), subject |-> Id(t, "SubjectPrepared"),
     prepared |-> Id(t, "ModelPrepared"), observed |-> Id(t, "ModelObserved"),
     repair |-> IF Repaired(t) THEN {Id(t, "RepairPrepared"), Id(t, "RepairObserved")} ELSE {},
     tokens |-> AggregateTokens(t)]

AcceptVerdict(t) ==
    /\ at[t] = "accepting"
    /\ Retain(t, Entry(t, "VerdictAccepted", IF Repaired(t) THEN "RepairObserved" ELSE "ModelObserved",
                       [verdict |-> FinalOutput(t), receipt |-> Receipt(t)]), "completed")
    /\ UNCHANGED <<store, scheduler>>

\* The artifacts and events a completion names: its own, and as `lineage' the scheduler's
\* and the candidate's.
ReceiptArtifacts(accepted, receipt) ==
    {<<receipt.subject, part>> : part \in {"input", "disclosure", "prompt"}}
    \cup {<<receipt.prepared, "request">>, <<receipt.observed, "response">>}
    \cup {<<accepted, part>> : part \in {"verdict", "receipt"}}
    \cup UNION {{<<id, "repair">>, <<accepted, "patch">>} : id \in receipt.repair}

ReceiptEvidence(accepted, receipt) ==
    {accepted, receipt.claimed, receipt.subject, receipt.prepared, receipt.observed} \cup receipt.repair

Completion(t) ==
    LET accepted == Mine(t, "VerdictAccepted")
    IN  [evidence |-> ReceiptEvidence(IdOf(accepted), accepted.data.receipt),
         artifacts |-> ReceiptArtifacts(IdOf(accepted), accepted.data.receipt), lineage |-> disclosure(t),
         tokens |-> accepted.data.receipt.tokens, verdict |-> accepted.data.verdict.verdict]

\* The scheduler drops an execution that waits for the model.
DropReview(t) ==
    /\ at[t] \in {"calling", "repair_calling"} /\ To(t, "failed")
    /\ UNCHANGED <<store, scheduler, journal, reviewFaults>>

\* It retains the handoff, or the failure, of the execution it waits for.
EndReviewer(r) ==
    LET t == <<r, "own">> IN
    /\ at[t] \in Over /\ Handoffs(r) \cup Failures(r) = {}
    /\ \E d \in Dispatches(r) :
          IF at[t] = "completed" THEN Log(Record("HandoffRetained", r, d, NoRecord, Completion(t)))
                                 ELSE Log(Record("AttemptFailed", r, d, NoRecord, NoCompletion))
    /\ UNCHANGED <<store, journal, at, reviewFaults>>

-----------------------------------------------------------------------------
(* resolve_repository_review_result_v1, for the handoff at a position and  *)
(* the reviewer a query names                                              *)

\* exact_entry
Exact(id, kind) == {e \in Entries(kind) : IdOf(e) = id}
Naming(kind, id) == {e \in Entries(kind) : e.of = id}
Only(entries) == Cardinality(entries) = 1

AcceptedFor(claim) == {e \in Entries("VerdictAccepted") : e.data.receipt.claimed = IdOf(claim)}

\* has_conflicting_terminal
has_conflicting_terminal(receipt) ==
    \/ Naming("ModelFailed", receipt.prepared) # {}
    \/ Naming("ModelContractRejected", receipt.observed) # {}
    \/ \E id \in receipt.repair : Naming("RepairFailed", id) \cup Naming("RepairRejected", id) # {}

\* repair_branch_count
RepairBranches(parent) == Naming("RepairPrepared", parent) \cup Naming("RepairInputRejected", parent)

\* The chain of one inference: prepared once, not refused or failed, observed once, and
\* within the ceiling.
InferenceChain(prepared, rejected, observed, failed, parent, receipt_prepared, receipt_observed) ==
    /\ Only(Naming(prepared, parent)) /\ Naming(rejected, parent) = {}
    /\ Exact(receipt_prepared, prepared) # {}
    /\ Only(Naming(observed, receipt_prepared)) /\ Naming(failed, receipt_prepared) = {}
    /\ \E e \in Exact(receipt_observed, observed) :
          e.of = receipt_prepared /\ e.data.bound /\ e.data.tokens <= MaxTokens

FirstPassVerdict(accepted, receipt, first) ==
    /\ receipt.repair = {} /\ accepted.of = receipt.observed
    /\ RepairBranches(receipt.observed) = {}
    /\ receipt.tokens = first.data.tokens
    /\ accepted.data.verdict = first.data.document

\* The repair is prepared, decoded and applied again.
RepairedVerdict(accepted, receipt, first, policy) ==
    \E prepared, observed \in receipt.repair :
        /\ accepted.of = observed /\ Only(RepairBranches(receipt.observed))
        /\ InferenceChain("RepairPrepared", "RepairInputRejected", "RepairObserved", "RepairFailed",
                          receipt.observed, prepared, observed)
        /\ \A second \in Exact(observed, "RepairObserved") :
              /\ receipt.tokens = combined_output_tokens(first.data.tokens, second.data.tokens)
              /\ Repairable(first.data.document, policy)
              /\ Applies(first.data.document, second.data.document, policy)
              /\ accepted.data.verdict = Applied(first.data.document, second.data.document, policy)

\* verify_model_chain: the verdict is what the observed answers come to, decoded again.
verify_model_chain(accepted, receipt, policy) ==
    /\ InferenceChain("ModelPrepared", "InputRejected", "ModelObserved", "ModelFailed",
                      receipt.subject, receipt.prepared, receipt.observed)
    /\ \A first \in Exact(receipt.observed, "ModelObserved") :
          FirstPassVerdict(accepted, receipt, first) \/ RepairedVerdict(accepted, receipt, first, policy)

\* The dispatch the disclosure names, with the handoff of its dependency, is the scheduler's.
DispatchVerified(r, d, hidden) ==
    /\ d \in Dispatches(r) /\ scheduler[d].parent = hidden.handoff
    /\ scheduler[hidden.handoff].actor = hidden.producer

\* verify_scheduler_handoff
verify_scheduler_handoff(h, r, accepted, receipt, hidden) ==
    /\ h \in Handoffs(r) /\ Only(Handoffs(r) \cup Failures(r))
    /\ \E d \in hidden.dispatch : DispatchVerified(r, d, hidden) /\ d < h /\ scheduler[h].parent = d
    /\ scheduler[h].completion =
          [evidence |-> ReceiptEvidence(IdOf(accepted), receipt),
           artifacts |-> ReceiptArtifacts(IdOf(accepted), receipt), lineage |-> hidden,
           tokens |-> receipt.tokens, verdict |-> accepted.data.verdict.verdict]

DisclosureMatches(hidden, claim) ==
    /\ hidden.reviewer = claim.data.reviewer /\ hidden.producer = claim.data.producer
    /\ hidden.candidate = claim.data.candidate

\* The result believed for a query: none, or the accepted verdict.
resolve_repository_review_result_v1(h, r) ==
    {accepted \in Entries("VerdictAccepted") :
        \E claim \in Claims(r) :
            LET receipt == accepted.data.receipt IN
            /\ Only(Claims(r)) /\ Only(Naming("ExecutionStarted", IdOf(claim)))
            /\ AcceptedFor(claim) = {accepted}
            /\ \E subject \in Exact(receipt.subject, "SubjectPrepared") :
                  LET policy == derive_repository_review_policy_v1(subject.data.input) IN
                  /\ DisclosureMatches(subject.data.disclosure, claim)
                  /\ ValidInput(subject.data.input)
                  /\ validate_repository_review_output(accepted.data.verdict, policy)
                  /\ verify_model_chain(accepted, receipt, policy)
                  /\ ~has_conflicting_terminal(receipt)
                  /\ verify_scheduler_handoff(h, r, accepted, receipt, subject.data.disclosure)}

route_for(verdict) ==
    CASE verdict = "Pass" -> "SemanticGateSatisfied"
      [] verdict = "Revise" -> "RevisionRequired"
      [] verdict = "Inconclusive" -> "EvidenceRequired"

-----------------------------------------------------------------------------
ReviewStep(t) ==
    \/ BeginReview(t) \/ claim_execution(t) \/ StartExecution(t) \/ PrepareSubject(t) \/ PrepareModel(t)
    \/ Infer(t) \/ Judge(t) \/ PrepareRepair(t) \/ InferRepair(t) \/ JudgeRepair(t)
    \/ AcceptVerdict(t) \/ DropReview(t)

ReviewNext ==
    \/ \E p \in Producers :
          \/ DispatchProducer(p) \/ EndProducer(p)
          \/ \E c \in Contents : Dispatches(p) # {} /\ publish(p, c)
          \/ \E n \in 1..2 : mark_cleanup_observed(p, n)
    \/ \E r \in Reviewers : DispatchReviewer(r) \/ EndReviewer(r)
    \/ \E t \in Executions : ReviewStep(t)

ReviewSpec == ReviewInit /\ [][ReviewNext]_reviewVars

-----------------------------------------------------------------------------
(* Properties                                                              *)

\* The reader believes exactly the results of attempts whose handoff the scheduler
\* retained: a replayed dispatch that took the claim, a journal that failed after writing
\* and a query that pairs one reviewer with another's handoff are all refused, and no
\* completed review is refused.
ReaderBelievesCompletions ==
    \A h \in DOMAIN scheduler, r \in Reviewers :
        Cardinality(resolve_repository_review_result_v1(h, r)) = IF h \in Handoffs(r) THEN 1 ELSE 0

\* The semantic gate is satisfied only by a model that itself passed every requirement, in
\* its one answer, of the candidate that is ready for the producer attempt whose handoff
\* the reviewer was dispatched with.
GateIsEarned ==
    \A h \in AllHandoffs, r \in Reviewers :
        \A accepted \in resolve_repository_review_result_v1(h, r) :
            route_for(accepted.data.verdict.verdict) = "SemanticGateSatisfied" =>
                \E first \in Entries("ModelObserved"), claim \in Claims(r) :
                    /\ first.task = accepted.task /\ first.data.document = accepted.data.verdict
                    /\ HasStatus(first.data.document, {"Satisfied"}) = ToSet(Requirements)
                    /\ scheduler[DependencyOf(r)].actor = claim.data.producer
                    /\ claim.data.candidate = store[claim.data.producer] /\ store[claim.data.producer].cleanup # 0

\* A repair adds missing evidence for the requirements the model left open, one entry for
\* each, and changes nothing else of what the model said.
RepairOnlyAdds ==
    \A e \in Entries("VerdictAccepted") :
        e.data.receipt.repair # {} =>
            \E first \in Entries("ModelObserved") :
                /\ first.task = e.task
                /\ [e.data.verdict EXCEPT !.missing = first.data.document.missing] = first.data.document
                /\ Len(first.data.document.missing) < Len(e.data.verdict.missing)
                /\ \A r \in NotEvaluable(e.data.verdict) : Only({m \in ToSet(e.data.verdict.missing) : r \in m.refs})

\* However a dispatch is replayed, its attempt sends one review request and one repair
\* request at most, and what it claimed to review stays what the store holds.
OneReviewPerAttempt ==
    \A r \in Reviewers :
        /\ \A k \in {"ModelPrepared", "RepairPrepared", "VerdictAccepted"} :
              Cardinality({e \in Entries(k) : OrderOf(e.task) = r}) <= 1
        /\ \A claim \in Claims(r) : claim.data.candidate = store[claim.data.producer]

\* Every verdict accepted is the one its own assessments force.
AcceptedVerdictIsForced ==
    \A e \in Entries("VerdictAccepted") : VerdictIsForced(e.data.verdict, PolicyOf(e.task))

\* What is reviewed, what is answered, what is believed and what the scheduler knows of a
\* review agree.
ReviewIsSound ==
    /\ ReviewTypeOK
    /\ ReaderBelievesCompletions
    /\ GateIsEarned
    /\ RepairOnlyAdds
    /\ OneReviewPerAttempt
    /\ AcceptedVerdictIsForced
=============================================================================
