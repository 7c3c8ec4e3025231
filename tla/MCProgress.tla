---------------------------- MODULE MCProgress ----------------------------
(***************************************************************************)
(* What must come to an end.  A behaviour exercises one subject: a         *)
(* reconnaissance run under two claims, the opening of a Store file by two *)
(* processes, the recovery of a repository snapshot, one attempt of the    *)
(* implementation agent, or a run of an actor graph.  The subjects share   *)
(* no state, and the fairness of each is that of its module.               *)
(***************************************************************************)
EXTENDS ReconRun, TLC

VARIABLES subject,                                        \* what this behaviour exercises
          db, opener, origin, stops,                      \* StoreOpening
          record, disk, source, gate, worker, run, log, edits, faults,      \* SnapshotLifecycle
          wsource, wdisk, wtree, lane, journal, wedits, wfaults, attempt, candidate,
                                                          \* ImplementationAttempt
          graph, policy, phase, loop, progress, blocking, work, unproven, records, root
                                                          \* ActorGraphExecutor

storeVars == <<db, opener, origin, stops>>
snapshotVars == <<record, disk, source, gate, worker, run, log, edits, faults>>
attemptVars == <<wsource, wdisk, wtree, lane, journal, wedits, wfaults, attempt, candidate>>
graphVars == <<graph, policy, phase, loop, progress, blocking, work, unproven, records, root>>
everything == <<subject, vars, storeVars, snapshotVars, attemptVars, graphVars>>

Store == INSTANCE StoreOpening WITH
           Openers <- {"o1", "o2"}, Sources <- {}, MaxStops <- 1, RowBatch <- 2

Snapshot == INSTANCE SnapshotLifecycle WITH MaxEdits <- 1, MaxFaults <- 2, MaxClaims <- 0

Attempt == INSTANCE ImplementationAttempt WITH
             MaxEdits <- 0, MaxFaults <- 1, PlanSteps <- {"s1"}, MaxModelCalls <- 4,
             MaxActionRejections <- 1, FinishCallReserve <- 1, TokensPerCall <- 2,
             MaxOutputTokens <- 8, MinimumPlanRevisions <- 3, source <- wsource,
             disk <- wdisk, tree <- wtree, edits <- wedits, faults <- wfaults

(* Three orders, the first of them retried once. *)
Chain(id, deps) ==
    [id |-> id, dependencies |-> deps, reviews |-> {}, priority |-> IF id = 3 THEN 1 ELSE 0,
     group |-> "none", contract |-> "contract", profile |-> "p", domain |-> "d",
     capabilities |-> {"read"}, lease |-> id, source |-> "Git", access |-> "ReadOnly",
     attempts |-> IF id = 1 THEN 2 ELSE 1, tokens |-> 1, wall |-> 1, cleanup |-> 1]
Allows(parallel) ==
    [orders |-> 3, parallel |-> parallel, attempts |-> 4, tokens |-> 8, wall |-> 16,
     root |-> {"read"}, reported |-> TRUE, profiles |-> [p |-> "d"],
     leases |-> [l \in 1..3 |-> [source |-> "Git", access |-> "Write"]]]
Graph == INSTANCE ActorGraphExecutor WITH
           Blank <- "", NoGroup <- "none", MaxU64 <- 63, HardMaxOrders <- 3, HardMaxLinks <- 2,
           Policies <- {Allows(1), Allows(2)}, journal <- records,
           Graphs <- {[id \in 1..3 |-> Chain(id, deps[id])] :
                        deps \in {<<{}, {1}, {1, 2}>>, <<{}, {1}, {}>>}}

SomeFile == Store!FileOf(1, FALSE, <<>>, FALSE, "chain", "Text", Store!Bare, "none")

ProgressInit ==
    /\ subject \in {"run", "store", "snapshot", "attempt", "graph"}
    /\ Init /\ Snapshot!SnapshotInit /\ Attempt!AttemptInit
    /\ Store!InitFrom(IF subject = "store" THEN Store!LiveSources ELSE {SomeFile})
    /\ Graph!Init
    /\ records = <<>>
    /\ subject # "graph" => policy.parallel = 1 /\ graph[3].dependencies = {}

ProgressNext ==
    /\ UNCHANGED subject
    /\ \/ subject = "run" /\ Next /\ UNCHANGED <<storeVars, snapshotVars, attemptVars, graphVars>>
       \/ subject = "store" /\ Store!Next /\ UNCHANGED <<vars, snapshotVars, attemptVars, graphVars>>
       \/ subject = "snapshot" /\ Snapshot!SnapshotNext /\ UNCHANGED <<vars, storeVars, attemptVars, graphVars>>
       \/ subject = "attempt" /\ Attempt!AttemptNext /\ UNCHANGED <<vars, storeVars, snapshotVars, graphVars>>
       \/ subject = "graph" /\ Graph!Next /\ UNCHANGED <<vars, storeVars, snapshotVars, attemptVars>>

\* One fairness condition serves several subjects: the subject never changes.
Run(A) == subject = "run" /\ UNCHANGED <<subject, storeVars, snapshotVars, attemptVars, graphVars>> /\ A
Open(A) == subject = "store" /\ UNCHANGED <<subject, vars, snapshotVars, attemptVars, graphVars>> /\ A
Mount(A) == subject = "snapshot" /\ UNCHANGED <<subject, vars, storeVars, attemptVars, graphVars>> /\ A
Work(A) == subject = "attempt" /\ UNCHANGED <<subject, vars, storeVars, snapshotVars, graphVars>> /\ A
Schedule(A) == subject = "graph" /\ UNCHANGED <<subject, vars, storeVars, snapshotVars, attemptVars>> /\ A

ProgressFairness ==
    /\ WF_everything(Run(ExpireLease) \/ Mount(Snapshot!OpenManager) \/ Work(Attempt!AttemptStep)
                     \/ Schedule(Graph!Loop) \/ Open(Store!Continues("o1")))
    /\ WF_everything(Mount(Snapshot!Acquire) \/ Work(Attempt!LaneStep) \/ Open(Store!Continues("o2"))
                     \/ Schedule(\E o \in Graph!Orders : Graph!Dispatch(o) \/ Graph!Timeout(o) \/ Graph!CleanUp(o)))
    /\ WF_everything(Mount(Snapshot!ReleaseStep) \/ Work(Attempt!DropWorktree))
    /\ WF_everything(Mount(Snapshot!BindRecovered))
    /\ SF_everything(Mount(Snapshot!Recover))
    /\ \A r \in Runtimes :
          /\ WF_everything(Run(StartDrive(r)))
          /\ SF_everything(Run(claim.runtime = r /\ Drive(r)))
          /\ WF_everything(Run(Refused(r)))
          /\ WF_everything(Run(claim.runtime = r /\ Recon(r)))
          /\ WF_everything(Run(~claim.live /\ ClaimRun(r)))
          /\ WF_everything(Run(RefreshClaim(r)))

ProgressSpec == ProgressInit /\ [][ProgressNext]_everything /\ ProgressFairness

(* RunEndsOrRests of module ReconRun, EveryOpenEnds of StoreOpening,       *)
(* RecoveryCompletes of SnapshotLifecycle, AttemptEnds of                  *)
(* ImplementationAttempt and RunEnds of ActorGraphExecutor, in one:        *)
(* whatever crashes, expires, fails or is dropped, what was begun is       *)
(* ended, or rests where its module says.  One opener stands for both.     *)
Begun ==
    CASE subject = "run" -> TRUE
      [] subject = "store" -> opener["o1"] # "closed"
      [] subject = "snapshot" -> record # Snapshot!NoRecord
      [] subject = "attempt" -> TRUE
      [] subject = "graph" -> phase = "Running"

Settled ==
    CASE subject = "run" -> RunSettled
      [] subject = "store" -> Store!OpenEnded("o1")
      [] subject = "snapshot" -> Snapshot!Recovered
      [] subject = "attempt" -> Attempt!AttemptOver
      [] subject = "graph" -> phase \in Graph!Ended

WorkSettles == Begun ~> Settled
=============================================================================
