----------------------------- MODULE ToolBroker -----------------------------
(***************************************************************************)
(* RepositoryToolBroker (crates/tooling/src/broker.rs) and the Protocol's   *)
(* authorization of a repository call: Prepare, then at most one Execute    *)
(* or interruption per prepared call, and reconciliation of the calls of a  *)
(* broker whose epoch was closed.                                           *)
(*                                                                          *)
(* Several threads of several runtimes call the brokers.  A broker's mutex  *)
(* is taken for one look-up or update at a time, so a call is validated,    *)
(* consumed and carried out in separate steps.  A digest is the value it is *)
(* the digest of.  A superseded broker's process may still run.             *)
(***************************************************************************)
EXTENDS Integers, Sequences, FiniteSets, SequencesExt, FiniteSetsExt

CONSTANTS Brokers,      \* broker instances, in the order their epochs start
          Threads, Calls,
          Params,       \* what a caller may prepare: canonical parameters
          Bounds, Hard, \* RepositoryToolBoundsV1 and the REPOSITORY_TOOL_HARD_MAX_*
          Grants,       \* the tool grants of the receipt authority
          Oversized,    \* calls whose terminal receipt exceeds its ceiling
          Altered,      \* how a bundle may be altered before it is presented
          Stoppable,    \* the brokers whose process may stop
          Boundaries    \* the interruption boundaries callers report

VARIABLES epoch,        \* the Store's RepositoryBrokerEpochStateV1
          broker,       \* each broker's in-memory state
          bundles,      \* the prepared bundles that callers hold
          thread,       \* what each thread is in the middle of
          accessed,     \* bundles whose operation touched the file system
          terminals,    \* what execute, interruption and reconciliation returned
          refusal       \* the bundle that execute last called NotStarted

vars == <<epoch, broker, bundles, thread, accessed, terminals, refusal>>

None == [kind |-> "None"]

(* The interruption boundaries there are. *)
BoundariesKnown ==
  Boundaries \subseteq {"RuntimeRestart", "RuntimeShutdown", "Deadline",
                        "EvidenceCommitIndeterminate", "Cancellation"}

(* The call ceilings are numbers, parameters name calls, "none" is no broker. *)
ASSUME BrokerParameters ==
  /\ BoundariesKnown
  /\ "calls" \in DOMAIN Bounds /\ Bounds["calls"] \in Nat /\ Hard["calls"] \in Nat
  /\ \A p \in Params : p.call \in Calls
  /\ "none" \notin Brokers

---------------------------------------------------------------------------
(* repository_tool_authorization.rs *)

Authorized == [kind |-> "Authorized", limit |-> "none"]
Denied(denial, limit) == [kind |-> denial, limit |-> limit]

(* The first denial in a list of checks; a passed check is Authorized. *)
First(checks) ==
  IF \A k \in DOMAIN checks : checks[k] = Authorized THEN Authorized
  ELSE checks[Min({k \in DOMAIN checks : checks[k] # Authorized})]

Limit(name, requested, maximum, positive) ==
  IF positive /\ requested = 0 THEN Denied("LimitMustBePositive", name)
  ELSE IF requested > maximum THEN Denied("LimitExceeded", name)
  ELSE Authorized

(* "Every maximum is the narrowest of hard, broker and exact grant ceilings." *)
Narrowest(grant, name) == Min({grant.max[name], Bounds[name], Hard[name]})

(* repository_tool_path_decision_v2: components are classes of byte strings. *)
BadComponents == {"empty", "dot", "parent", "slash", "nul"}

PathDecision(p, grant) ==
  IF p.kind = "Read" /\ p.path = <<>> THEN Denied("EmptyFilePath", "none")
  ELSE First(<<Limit("path_components", Len(p.path), Narrowest(grant, "path_components"), FALSE)>>
             \o [k \in DOMAIN p.path |->
                   IF p.path[k] \in BadComponents THEN Denied("InvalidPath", p.path[k])
                   ELSE Limit("component_bytes", IF p.path[k] = "long" THEN 3 ELSE 1,
                              Narrowest(grant, "component_bytes"), FALSE)]
             \o <<Limit("path_bytes", 2 * Len(p.path), Narrowest(grant, "path_bytes"), FALSE)>>)

(* The operation's own fields in their serialized order. *)
Fields(kind) ==
  CASE kind = "Tree"   -> <<"tree_depth", "tree_entries">>
    [] kind = "Read"   -> <<"read_offset", "read_bytes">>
    [] kind = "Search" -> <<"pattern_bytes", "search_depth", "search_files", "search_matches",
                            "search_bytes_per_file", "search_total_bytes">>
MayBeZero == {"tree_depth", "read_offset", "pattern_bytes", "search_depth"}

(* An offset has only the grant's ceiling; an empty literal is its own denial. *)
FieldDecision(p, grant, name) ==
  IF name = "pattern_bytes" /\ p.max[name] = 0 THEN Denied("EmptyLiteralPattern", "none")
  ELSE Limit(name, p.max[name],
             IF name = "read_offset" THEN grant.max[name] ELSE Narrowest(grant, name),
             name \notin MayBeZero)

PreflightSize(p) == IF p.kind = "Read" THEN 2 + Len(p.path) ELSE 2

GrantDecision(p) ==
  IF \A g \in Range(Grants) : g.kind # p.kind THEN Denied("ToolNotGranted", "none")
  ELSE IF \/ \E i, j \in DOMAIN Grants : i # j /\ Grants[i].id = Grants[j].id
          \/ ~\E g \in Range(Grants) : g.id = p.grant /\ g.kind = p.kind
  THEN Denied("GrantIdentityMismatch", "none")
  ELSE Authorized

(* evaluate_repository_tool_authorization_v1: the denial order is part of the *)
(* contract, so that two evaluations of one receipt agree.                    *)
Evaluate(p, sequence) ==
  LET limits == First(<<Limit("calls", sequence, Min({Bounds["calls"], Hard["calls"]}), TRUE),
                        Limit("request_bytes", p.size,
                              Min({Bounds["request_bytes"], Hard["request_bytes"]}), TRUE),
                        GrantDecision(p)>>)
      grant == CHOOSE g \in Range(Grants) : g.id = p.grant
  IN IF limits # Authorized THEN limits
     ELSE First(<<PathDecision(p, grant)>>
                \o [k \in DOMAIN Fields(p.kind) |-> FieldDecision(p, grant, Fields(p.kind)[k])]
                \o <<Limit("artifact_bytes", PreflightSize(p),
                           Min({Bounds["artifact_bytes"], Hard["artifact_bytes"]}), FALSE)>>)

---------------------------------------------------------------------------
(* validate_bounds *)
BoundsValid == \A name \in DOMAIN Bounds : Bounds[name] \in 1..Hard[name]

(* validate_epoch *)
EpochValid(e) ==
  /\ e.active \notin Range(e.closed)
  /\ Cardinality(Range(e.closed)) = Len(e.closed)

Fresh == [open |-> FALSE, closed |-> {}, last |-> 0, issued |-> <<>>, reconciled |-> {}]

Init ==
  /\ epoch = [active |-> "none", closed |-> <<>>]
  /\ broker = [b \in Brokers |-> Fresh]
  /\ bundles = {} /\ thread = [t \in Threads |-> None]
  /\ accessed = {} /\ terminals = {} /\ refusal = None

(* External: the Store starts the epoch of a broker that never had one; the *)
(* runtime then opens it on the epoch state it read.                        *)
OpenBroker(b) ==
  /\ ~broker[b].open /\ epoch.active # b /\ b \notin Range(epoch.closed)
  /\ LET e == [active |-> b, closed |-> IF epoch.active = "none" THEN epoch.closed
                                        ELSE Append(epoch.closed, epoch.active)]
     IN /\ BoundsValid /\ EpochValid(e)
        /\ epoch' = e
        /\ broker' = [broker EXCEPT ![b] = [Fresh EXCEPT !.open = TRUE,
                                                         !.closed = Range(e.closed)]]
  /\ UNCHANGED <<bundles, thread, accessed, terminals, refusal>>

(* next_broker_call_sequence and Prepare's publication: sequence number and  *)
(* issued record appear together, after everything that can fail.            *)
Prepare(b, p) ==
  /\ broker[b].open
  /\ p.size <= Hard["request_bytes"]
  /\ p.call \notin DOMAIN broker[b].issued
  /\ LET seq == broker[b].last + 1
         receipt == [params |-> p, authority |-> "own", sequence |-> seq,
                     authorization |-> Evaluate(p, seq), broker |-> b]
     IN /\ p.receipt_fits
        /\ broker' = [broker EXCEPT ![b].last = seq,
                        ![b].issued = [c \in DOMAIN @ \cup {p.call} |->
                           IF c = p.call THEN [digest |-> receipt, consumed |-> FALSE]
                           ELSE @[c]]]
        /\ bundles' = bundles \cup {receipt}
  /\ UNCHANGED <<epoch, thread, accessed, terminals, refusal>>

(* decode_exact_prepared_parameters: the artifacts are exact and the receipt  *)
(* repeats them, its authorization included.                                  *)
BundleValid(b, r) ==
  /\ r.authorization = Evaluate(r.params, r.sequence)
  /\ r.authority = "own"

(* validate_active_prepared *)
ActiveValid(b, r) ==
  /\ r.broker = b
  /\ r.params.call \in DOMAIN broker[b].issued
  /\ broker[b].issued[r.params.call].digest = r
  /\ BundleValid(b, r)

(* The bundles a caller can present: those prepared, and altered ones (a     *)
(* receipt with another decision, authority or parameters).                  *)
Alterations(r) ==
  {x \in {[r EXCEPT !.authorization = Authorized]} : "decision" \in Altered}
  \cup {x \in {[r EXCEPT !.authority = "another root's"]} : "authority" \in Altered}
  \cup {[r EXCEPT !.params = p, !.authorization = Evaluate(p, r.sequence)] :
          p \in {q \in Params : "parameters" \in Altered /\ q.call = r.params.call}}

Presentable == bundles \cup UNION {Alterations(r) : r \in bundles}

(* Mutant: a call is never found consumed. *)
NeverConsumed(b, r) == FALSE

(* execute_classified and record_interruption up to validation; a bundle that *)
(* fails it is refused and nothing changes.                                   *)
Begin(t, b, kind) ==
  /\ thread[t] = None /\ broker[b].open
  /\ \E r \in Presentable, boundary \in (IF kind = "Execute" THEN {"none"} ELSE Boundaries) :
       /\ ActiveValid(b, r)
       /\ thread' = [thread EXCEPT ![t] = [kind |-> kind, broker |-> b, bundle |-> r,
                                           boundary |-> boundary, at |-> "validated"]]
  /\ UNCHANGED <<epoch, broker, bundles, accessed, terminals, refusal>>

Consumed(b, r) == broker[b].issued[r.params.call].consumed

Consume(b, r) == broker' = [broker EXCEPT ![b].issued[r.params.call].consumed = TRUE]



(* cleanup_for_effect *)
CleanupFor(effect) == IF effect = "Indeterminate" THEN "Indeterminate" ELSE "Completed"

Unknown(r, effect, timing, boundary) ==
  [bundle |-> r, kind |-> "Unknown", effect |-> effect, timing |-> timing,
   boundary |-> boundary, cleanup |-> CleanupFor(effect)]

Observed(r, kind, effect) ==
  [bundle |-> r, kind |-> kind, effect |-> effect, timing |-> "BrokerRecorded",
   boundary |-> "none", cleanup |-> CleanupFor(effect)]

(* observed_success and observed_failure: a result that is incoherent, does  *)
(* not encode or exceeds the artifact ceiling is observed as a failure.      *)
ObservedKinds(r) ==
  IF r.authorization # Authorized THEN {"AuthorizationDenied"} ELSE {"Succeeded", "Failed"}

(* consume in execute_classified: the one-shot boundary. *)
ExecuteConsume(t) ==
  /\ thread[t].kind = "Execute" /\ thread[t].at = "validated"
  /\ LET b == thread[t].broker
         r == thread[t].bundle
     IN IF Consumed(b, r)
        THEN /\ refusal' = r
             /\ thread' = [thread EXCEPT ![t] = None] /\ UNCHANGED broker
        ELSE /\ Consume(b, r)
             /\ thread' = [thread EXCEPT ![t].at = "consumed"] /\ UNCHANGED refusal
  /\ UNCHANGED <<epoch, bundles, accessed, terminals>>

(* The rest of execute_classified.  A denied call touches nothing; an        *)
(* authorized one is carried out (module RepositoryWalk) and its result or   *)
(* failure observed; a terminal that does not encode leaves the call         *)
(* consumed without one (OutcomeIndeterminate).                              *)
ExecuteFinish(t) ==
  /\ thread[t].kind = "Execute" /\ thread[t].at = "consumed"
  /\ LET r == thread[t].bundle
         denied == r.authorization # Authorized
         effect == IF denied THEN "NoFilesystemAccessAttempted"
                   ELSE "ReadOnlyFilesystemAccessAttempted"
     IN /\ accessed' = IF denied THEN accessed ELSE accessed \cup {r}
        /\ IF r.params.call \in Oversized THEN UNCHANGED terminals
           ELSE \E kind \in ObservedKinds(r) :
                  terminals' = terminals \cup {Observed(r, kind, effect)}
  /\ thread' = [thread EXCEPT ![t] = None]
  /\ UNCHANGED <<epoch, broker, bundles, refusal>>

(* record_interruption: the terminal is built first and handed out only if   *)
(* this caller is the one that consumes the call.                            *)
InterruptFinish(t) ==
  /\ thread[t].kind = "Interrupt"
  /\ LET b == thread[t].broker
         r == thread[t].bundle
     IN IF r.params.call \in Oversized \/ Consumed(b, r)
        THEN UNCHANGED <<broker, terminals>>
        ELSE /\ Consume(b, r)
             /\ terminals' = terminals \cup
                  {Unknown(r, "NoFilesystemAccessAttempted", "BrokerRecorded",
                            thread[t].boundary)}
  /\ thread' = [thread EXCEPT ![t] = None]
  /\ UNCHANGED <<epoch, bundles, accessed, refusal>>

(* reconcile_abandoned_prepared: only for a broker in the closed set; the    *)
(* call is marked before its terminal is built.                              *)
Reconcile(b, r, boundary) ==
  /\ broker[b].open
  /\ r.broker # b /\ r.broker \in broker[b].closed
  /\ r \notin broker[b].reconciled
  /\ BundleValid(b, r)
  /\ broker' = [broker EXCEPT ![b].reconciled = @ \cup {r}]
  /\ terminals' = IF r.params.call \in Oversized THEN terminals
                  ELSE terminals \cup {Unknown(r, "Indeterminate",
                                                "RuntimeReconciled", boundary)}
  /\ UNCHANGED <<epoch, bundles, thread, accessed, refusal>>

(* The runtime of a broker stops: its memory and its threads are gone. *)
Crash(b) ==
  /\ b \in Stoppable /\ broker[b].open
  /\ broker' = [broker EXCEPT ![b] = Fresh]
  /\ thread' = [t \in Threads |-> IF thread[t] # None /\ thread[t].broker = b THEN None
                                  ELSE thread[t]]
  /\ UNCHANGED <<epoch, bundles, accessed, terminals, refusal>>

Next ==
  \/ \E b \in Brokers : OpenBroker(b) \/ Crash(b) \/ \E p \in Params : Prepare(b, p)
  \/ \E t \in Threads, b \in Brokers : Begin(t, b, "Execute") \/ Begin(t, b, "Interrupt")
  \/ \E t \in Threads : ExecuteConsume(t) \/ ExecuteFinish(t) \/ InterruptFinish(t)
  \/ \E b \in Brokers, r \in bundles, boundary \in Boundaries : Reconcile(b, r, boundary)

Spec == Init /\ [][Next]_vars

---------------------------------------------------------------------------
(* verify_terminal_output_v2: what a projection to a durable event demands.  *)
Verifies(t) ==
  /\ t.bundle.authorization = Evaluate(t.bundle.params, t.bundle.sequence)
  /\ t.bundle.params.call \notin Oversized
  /\ t.cleanup = CleanupFor(t.effect)
  /\ CASE t.kind \in {"Succeeded", "Failed"} -> t.effect = "ReadOnlyFilesystemAccessAttempted"
       [] t.kind = "AuthorizationDenied"    -> t.effect = "NoFilesystemAccessAttempted"
       [] t.kind = "Unknown" ->
            \/ t.timing = "BrokerRecorded" /\ t.effect = "NoFilesystemAccessAttempted"
            \/ t.timing = "RuntimeReconciled" /\ t.effect = "Indeterminate"

(* projected_interruption_boundary: the daemon's typed reason and boundary,  *)
(* and the broker boundary they stand for.                                   *)
Projections ==
  { <<"RuntimeRestartedBeforeObservation", "Restart", "RuntimeRestart">>,
    <<"RuntimeRestartedBeforeObservation", "Shutdown", "RuntimeShutdown">>,
    <<"ClaimExpiredBeforeObservation", "ClaimRenewalFailed", "Deadline">>,
    <<"ClaimExpiredBeforeObservation", "Deadline", "Deadline">>,
    <<"EvidenceCommitIndeterminate", "Shutdown", "EvidenceCommitIndeterminate">>,
    <<"EvidenceCommitIndeterminate", "Deadline", "EvidenceCommitIndeterminate">>,
    <<"ExecutionCancelledBeforeObservation", "Cancelled", "Cancellation">> }

(* project_observed_event_v2 and project_unknown_event_v2. *)
Projectable(t) ==
  /\ Verifies(t)
  /\ t.kind = "Unknown" => \E p \in Projections : p[3] = t.boundary

---------------------------------------------------------------------------
TypeOK ==
  /\ epoch.active \in Brokers \cup {"none"} /\ Range(epoch.closed) \subseteq Brokers
  /\ \A b \in Brokers : /\ DOMAIN broker[b].issued \subseteq Calls
                        /\ broker[b].closed \subseteq Brokers
                        /\ broker[b].last \in Nat
  /\ \A r \in bundles : r.broker \in Brokers /\ r.params \in Params
  /\ \A t \in Threads : thread[t] = None \/ thread[t].broker \in Brokers
  /\ accessed \subseteq bundles

(* A terminal that says nothing was touched is true for good: the call never *)
(* reaches the file system, before it or after it, in any thread.            *)
NoEffectClaimsAreTrue ==
  \A t \in terminals : t.effect = "NoFilesystemAccessAttempted" => t.bundle \notin accessed

(* One prepared call gets at most one terminal from the broker that issued   *)
(* it, however many threads execute and interrupt it at once.                *)
OneTerminalPerCall ==
  \A t, u \in terminals :
    (t.bundle = u.bundle /\ t.timing = "BrokerRecorded" /\ u.timing = "BrokerRecorded") => t = u

(* Sequence numbers are the order of publication without gaps: a refused     *)
(* Prepare does not use one up, and no two receipts of a broker share one.   *)
SequenceIsDense ==
  \A b \in Brokers :
    LET mine == {r \in bundles : r.broker = b}
    IN {r.sequence : r \in mine} = 1..Cardinality(mine)

(* The broker carries out no more calls than its authority allows, and only  *)
(* ones whose recorded decision was Authorized.                              *)
CallLimitHolds ==
  \A b \in Brokers : LET mine == {r \in accessed : r.broker = b}
                    IN /\ Cardinality(mine) <= Bounds["calls"]
                       /\ \A r \in mine : r.authorization = Authorized

(* What is carried out under a call id is what was prepared under it: a      *)
(* receipt altered on the way is never executed.                             *)
ExecutesWhatWasPrepared ==
  \A t \in Threads : thread[t] # None => thread[t].bundle \in bundles

(* Every terminal the brokers hand out can become the durable event: it      *)
(* verifies against its Prepared, and its boundary has a typed reason.       *)
TerminalsAreProjectable == \A t \in terminals : Projectable(t)

(* A live broker is never asked to reconcile its own or an open epoch's call: *)
(* an indeterminate terminal belongs to a broker whose epoch was closed.      *)
ReconciledWasClosed ==
  \A t \in terminals : t.timing = "RuntimeReconciled" =>
     /\ t.bundle.broker \in Range(epoch.closed)
     /\ epoch.active # t.bundle.broker

(* The calls are accounted for: the types hold, sequence numbers are dense,  *)
(* the call limit holds, only what was prepared is carried out, a call that  *)
(* an abandoned broker left open is reconciled only after its epoch closed.  *)
CallsAreAccounted ==
  /\ TypeOK /\ SequenceIsDense /\ CallLimitHolds /\ ExecutesWhatWasPrepared
  /\ ReconciledWasClosed

(* What the brokers report is true: one terminal per call, no false claim of *)
(* no effect, and every terminal can become its durable event.               *)
TerminalsAreTrue ==
  NoEffectClaimsAreTrue /\ OneTerminalPerCall /\ TerminalsAreProjectable

(* What the brokers do is accounted for, and what they report is true.       *)
BrokersAreSound == CallsAreAccounted /\ TerminalsAreTrue

(* model.rs on RepositoryToolExecuteErrorV2: "`NotStarted` proves the broker  *)
(* did not consume the Prepared call and no repository operation began."      *)
NotStartedMeansNoEffect == refusal \notin accessed
=============================================================================

