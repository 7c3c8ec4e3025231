---------------------------- MODULE MCDispatch ----------------------------
(***************************************************************************)
(* The two queues of the supervisor: the durable dispatch of runs and the  *)
(* model-call lane.  They share no state, so a behaviour exercises one     *)
(* subject: dispatch; dispatch among runs of which only the last is        *)
(* executable; or the lane.                                                *)
(***************************************************************************)
EXTENDS RunDispatch, ModelCallScheduler, TLC

CONSTANT Subjects

VARIABLE subject    \* what this behaviour exercises

everything == <<subject, vars, laneVars>>

Sparse == INSTANCE RunDispatch WITH Executable <- {2}

CallSymmetry == Permutations(Calls)

BenchInit ==
    /\ subject \in Subjects
    /\ Init /\ LaneInit
    /\ subject = "lane" => durable = [r \in Runs |-> "absent"]

BenchNext ==
    /\ UNCHANGED subject
    /\ \/ subject = "dispatch" /\ Next /\ UNCHANGED laneVars
       \/ subject = "sparse" /\ Sparse!Next /\ UNCHANGED laneVars
       \/ subject = "lane" /\ LaneNext /\ UNCHANGED vars

BenchSafe == BenchInit /\ [][BenchNext]_everything

(* One fairness condition serves every subject: the subject never changes. *)
Fair(dispatch, sparse) ==
    /\ UNCHANGED <<subject, laneVars>>
    /\ \/ subject = "dispatch" /\ dispatch
       \/ subject = "sparse" /\ sparse

BenchFairness ==
    /\ WF_everything(Fair(ServerStep, Sparse!ServerStep))
    /\ WF_everything(Fair(LoopStep, Sparse!LoopStep))
    /\ WF_everything(Fair(DispatcherStep, Sparse!DispatcherStep))
    /\ SF_everything(Fair(load_nonterminal_page, Sparse!load_nonterminal_page))
    /\ SF_everything(Fair(reserve, Sparse!reserve))
    /\ \A r \in Runs : WF_everything(Fair(TaskEnds(r), Sparse!TaskEnds(r)))
    /\ WF_everything(subject = "lane" /\ Assign /\ UNCHANGED <<subject, vars>>)
    /\ \A c \in Calls :
         WF_everything(subject = "lane" /\ Progress(c) /\ UNCHANGED <<subject, vars>>)

BenchSpec == BenchSafe /\ BenchFairness

(* Every executable run is dispatched, among executable runs as among      *)
(* others, and shutdown completes (module RunDispatch).                    *)
RunsAreDispatched ==
    /\ \A r \in Runs :
         \/ ResubmittedForever(r)
         \/ (durable[r] = "live" /\ (subject = "sparse" => r = 2))
              ~> (r \in tasks \/ durable[r] = "terminal" \/ shutdown)
    /\ ShutdownCompletes
=============================================================================
