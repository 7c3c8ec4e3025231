-------------------------- MODULE MCOrchestration --------------------------
(***************************************************************************)
(* The orchestrator crate.  A behaviour exercises one subject: the actor   *)
(* graph executor, a plan under accepted turns, planner executions on a    *)
(* shared journal, the intent router's two calls, or the planner's packets *)
(* and outputs.  The subjects share no state.                              *)
(***************************************************************************)
EXTENDS ActorGraphExecutor, PlanEvolution, PlannerExecution, TLC

VARIABLES subject,                                                \* what this behaviour exercises
          pc, candidate, patch, answer, retained, made, status,   \* RouterExecution
          ended, prompted, previous, turn, accepted               \* PlannerPrompt

routerVars == <<pc, candidate, patch, answer, retained, made, status>>
promptVars == <<ended, prompted, previous, turn, accepted>>

(* Three orders over every dependency relation, in a few casts: a pair of    *)
(* candidates, a producer with its reviewer, a writer and a reader on one    *)
(* lease.                                                                    *)
Leases == <<"l1", "l2", "l3">>
Plain(id, deps) ==
    [id |-> id, dependencies |-> deps, reviews |-> {}, priority |-> 0, group |-> NoGroup,
     contract |-> "contract", profile |-> "p1", domain |-> "d1", capabilities |-> {"read"},
     lease |-> Leases[id], source |-> "Git", access |-> "ReadOnly",
     attempts |-> 1, tokens |-> 1, wall |-> 1, cleanup |-> 1]
Policy(parallel) ==
    [orders |-> 3, parallel |-> parallel, attempts |-> 4, tokens |-> 8, wall |-> 15,
     root |-> {"read"}, reported |-> TRUE,
     profiles |-> [p1 |-> "d1", p2 |-> "d2"],
     leases |-> [l \in {"l1", "l2", "l3", "shared"} |-> [source |-> "Git", access |-> "Write"]]]
MCPolicies == {Policy(2)}

Relations == {r \in [1..3 -> SUBSET (1..3)] : 1 \notin r[1] /\ 2 \notin r[2]}
Cast(deps, first, second, third) ==
    <<[first EXCEPT !.dependencies = deps[1]], [second EXCEPT !.dependencies = deps[2]],
      [third EXCEPT !.dependencies = deps[3]]>>
Retried(o) == [o EXCEPT !.attempts = 2]
Urgent(o) == [o EXCEPT !.priority = 1]
Candidate(o) == [o EXCEPT !.group = "g"]
Writer(o) == [o EXCEPT !.access = "Write", !.lease = "shared"]
Reader(o) == [o EXCEPT !.lease = "shared"]
Reviewer(o, t) == [o EXCEPT !.reviews = {t}, !.profile = "p2", !.domain = "d2"]
P(id) == Plain(id, {})
Casts(deps) ==
    {Cast(deps, Retried(P(1)), P(2), Urgent(P(3))),
     Cast(deps, Candidate(P(1)), Candidate(P(2)), P(3)),
     Cast(deps, P(1), Reviewer(P(2), 1), P(3)),
     Cast(deps, Writer(P(1)), P(2), Reader(P(3))),
     Cast(deps, P(1), Writer(Retried(P(2))), P(3))}
\* Two orders with budgets at the edge of an unsigned width of four bits.
Spending(id, n, t, w, c) == [P(id) EXCEPT !.attempts = n, !.tokens = t, !.wall = w, !.cleanup = c]
Spenders == {<<Spending(1, n, t, w, 1), Spending(2, 1, u, v, c)>> :
    n \in 1..2, t \in {0, 7, 8, 15}, u \in {1, 8, 15}, w \in {1, 5, 6, 15}, v \in {1, 15}, c \in {1, 2, 15}}
MCGraphs == UNION {Casts(deps) : deps \in Relations} \cup Spenders \cup {<<P(1), P(1), P(2)>>, <<>>}

-----------------------------------------------------------------------------
(* A plan with two obligations, one of them required, under every turn on    *)
(* offer; executions that ask for one order more; three callers, the third   *)
(* of which holds another inference policy, and requests that repeat an      *)
(* execution, an attempt or a reservation.                                   *)
MCObligations == {"o1", "o2"}
MCRequired == {"o1"}

MCPolicyOf == [c \in Callers |-> IF c = "c3" THEN "other" ELSE "trusted"]
Asked(e, a, r, parented) ==
  [execution |-> e, attempt |-> a, reservation |-> r, parented |-> parented]
MCRequests ==
  {Asked(1, 1, 1, FALSE), Asked(2, 2, 2, FALSE), Asked(1, 2, 2, TRUE),
   Asked(1, 2, 3, FALSE), Asked(2, 3, 1, FALSE)}

-----------------------------------------------------------------------------
(* Every list of up to three citations of two sections and an unknown one    *)
(* on a sound route, and a family of unsound routes.                         *)
Evidence == [section : {"user", "repo", "Unknown"}, basis : {"x", "y"}]
Evidences == UNION {[1..n -> Evidence] : n \in 0..3}

Route(action, strategy, access, questions, subtasks) ==
  [action |-> action, strategy |-> strategy, access |-> access, questions |-> questions,
   subtasks |-> subtasks]
Subtask(id, access, deps, sound) == [id |-> id, access |-> access, deps |-> deps, sound |-> sound]

Subtasks ==
  {<<>>, <<Subtask("a", 1, {}, TRUE)>>, <<Subtask("a", 2, {}, TRUE)>>,
   <<Subtask("a", 1, {"a"}, TRUE)>>, <<Subtask("a", 1, {"c"}, TRUE)>>,
   <<Subtask("a", 1, {"b"}, TRUE), Subtask("b", 0, {}, TRUE)>>,
   <<Subtask("a", 1, {"b"}, TRUE), Subtask("b", 0, {"a"}, TRUE)>>,
   <<Subtask("a", 1, {}, TRUE), Subtask("a", 0, {}, FALSE)>>}

Routes ==
  {Route(action, strategy, access, questions, <<>>) :
     action \in {"Clarify", "Answer", "Inspect", "Change"}, strategy \in {"Direct", "Delegate"},
     access \in 0..2, questions \in {<<>>, <<"q">>, <<"">>}}
  \union {Route(action, "Delegate", access, <<>>, subtasks) :
            action \in {"Inspect", "Change"}, access \in 1..2, subtasks \in Subtasks}

Cite(section, basis) == [section |-> section, basis |-> basis]

RouteOutputs ==
  {[route |-> Route("Inspect", "Direct", 1, <<>>, <<>>), evidence |-> e] : e \in Evidences}
  \union {[route |-> route, evidence |-> e] : route \in Routes,
            e \in {<<Cite("user", "x")>>, <<Cite("user", "x"), Cite("repo", "y"), Cite("user", "y")>>,
                   <<Cite("user", "")>>}}

RoutePatches ==
  UNION {[1..n -> [section : {"user", "repo"}, basis : {"m", ""}]] : n \in 0..2}

Router == INSTANCE RouterExecution WITH
            Sections <- {"user", "repo"}, UserSections <- {"user"}, MaxSubtasks <- 2,
            MinimalEvidence <- TRUE, Outputs <- RouteOutputs, Patches <- RoutePatches,
            Blank <- "", journal <- retained, calls <- made

-----------------------------------------------------------------------------
(* A run's planner turns over two children, under either prompt contract.    *)
Prompt == INSTANCE PlannerPrompt WITH
            Contract <- 2, Root <- 5, Children <- {3, 8}, Endings <- {"handoff", "long handoff", "Budget"},
            MaxEntries <- 3, MaxBytes <- 4, MaxBasis <- 64, MaxOrders <- 2, MaxTargets <- 2,
            MaxDependencies <- 1, plan <- prompted
FirstPrompt == INSTANCE PlannerPrompt WITH
            Contract <- 1, Root <- 5, Children <- {3, 8, 9}, Endings <- {"handoff", "long handoff", "cancelled"},
            MaxEntries <- 2, MaxBytes <- 3, MaxBasis <- 64, MaxOrders <- 2, MaxTargets <- 2,
            MaxDependencies <- 1, plan <- prompted

ASSUME Prompt!PlannerPromptAssumption /\ FirstPrompt!PlannerPromptAssumption

-----------------------------------------------------------------------------
OrchestrationInit ==
  /\ subject \in {"graph", "plan", "planner", "router", "prompt", "first"}
  /\ Init /\ (subject # "graph" => graph = <<>> /\ journal = <<>>)
  /\ PlanInit /\ PlannerInit /\ Router!Init
  /\ IF subject = "first" THEN FirstPrompt!PromptInit ELSE Prompt!PromptInit

OrchestrationNext ==
  /\ UNCHANGED subject
  /\ \/ subject = "graph" /\ Next /\ UNCHANGED <<planVars, plannerVars, routerVars, promptVars>>
     \/ subject = "plan" /\ PlanNext /\ UNCHANGED <<vars, plannerVars, routerVars, promptVars>>
     \/ subject = "planner" /\ PlannerNext /\ UNCHANGED <<vars, planVars, routerVars, promptVars>>
     \/ subject = "router" /\ Router!Next /\ UNCHANGED <<vars, planVars, plannerVars, promptVars>>
     \/ subject = "prompt" /\ Prompt!PromptNext /\ UNCHANGED <<vars, planVars, plannerVars, routerVars>>
     \/ subject = "first" /\ FirstPrompt!PromptNext /\ UNCHANGED <<vars, planVars, plannerVars, routerVars>>

OrchestrationSpec ==
  /\ OrchestrationInit
  /\ [][OrchestrationNext]_<<subject, vars, planVars, plannerVars, routerVars, promptVars>>

(* The properties of each subject's module, by their names there.            *)
RouteIsSound == subject = "router" => Router!RouteIsSound
PromptsAreSound ==
  /\ subject = "prompt" => Prompt!PlannerPromptIsSound
  /\ subject = "first" => FirstPrompt!PlannerPromptIsSound
=============================================================================
