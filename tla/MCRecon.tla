------------------------------ MODULE MCRecon ------------------------------
(* One reconnaissance run: three claims with one attempt of each child, or *)
(* two claims with two attempts; what the planner turns of such a run say, *)
(* as the Store builds them or as they are imported; and what the events   *)
(* of one child attempt say, with more calls or with more plans.           *)
EXTENDS ReconRun, TLC

VARIABLES subject,      \* what this behaviour exercises
          log, ended,   \* the events of PlannerTurnLog
          order, attempt, turns  \* those of ChildTurns

turnVars == <<log, ended>>
childVars == <<order, attempt, turns>>

\* The two children of a run are interchangeable.
ChildSymmetry == Permutations(Children)

\* The run of the configuration with one attempt, or with one claim less.
Claims == INSTANCE ReconRun WITH MaxAttempts <- 1
Retried == INSTANCE ReconRun WITH MaxClaims <- 2

Built == INSTANCE PlannerTurnLog WITH
    WorkOrders <- Children, Importing <- FALSE, MaxTurns <- 8, StageTurns <- AttemptsPerStage,
    TokenLimit <- 8, MaxEvidence <- 256
Imported == INSTANCE PlannerTurnLog WITH
    WorkOrders <- {"order"}, Importing <- TRUE, MaxTurns <- 3, StageTurns <- AttemptsPerStage,
    TokenLimit <- 4, MaxEvidence <- 256

Calls == INSTANCE ChildTurns WITH
    Runtimes <- {"owner"}, MaxModelCalls <- 3, MaxToolCalls <- 2, Steps <- {"inspect"}, Tools <- {"read"},
    HardMaximum <- 1, MaxSize <- 2, BrokerCalls <- 2, MinPlanRevisions <- 2
Plans == INSTANCE ChildTurns WITH
    Runtimes <- {"owner"}, MaxModelCalls <- 2, MaxToolCalls <- 1, Steps <- {"inspect", "report"},
    Tools <- {"read"}, HardMaximum <- 1, MaxSize <- 1, BrokerCalls <- 2, MinPlanRevisions <- 2

ASSUME TurnLogAssumption ==
    /\ Built!PlannerTurnLogAssumption /\ Imported!PlannerTurnLogAssumption
    /\ Calls!ChildTurnsAssumption /\ Plans!ChildTurnsAssumption

ReconInit ==
    /\ subject \in {"claims", "retried", "turns", "imports", "calls", "plans"}
    /\ Init /\ Built!TurnInit /\ Calls!ChildTurnsInit

ReconNext ==
    /\ UNCHANGED subject
    /\ \/ subject = "claims" /\ Claims!Next /\ UNCHANGED <<turnVars, childVars>>
       \/ subject = "retried" /\ Retried!Next /\ UNCHANGED <<turnVars, childVars>>
       \/ subject = "turns" /\ Built!TurnNext /\ UNCHANGED <<vars, childVars>>
       \/ subject = "imports" /\ Imported!TurnNext /\ UNCHANGED <<vars, childVars>>
       \/ subject = "calls" /\ Calls!ChildTurnsNext /\ UNCHANGED <<vars, turnVars>>
       \/ subject = "plans" /\ Plans!ChildTurnsNext /\ UNCHANGED <<vars, turnVars>>

ReconSpec == ReconInit /\ [][ReconNext]_<<subject, vars, turnVars, childVars>>

(* What the turns of a run say, whoever drives them, and the events of the *)
(* attempts of its children.                                               *)
EveryTurnLogIsSound ==
    CASE subject = "turns" -> Built!TurnLogIsSound
      [] subject = "imports" -> Imported!TurnLogIsSound
      [] subject = "calls" -> Calls!ChildTurnsAreSound
      [] subject = "plans" -> Plans!ChildTurnsAreSound
      [] OTHER -> TRUE
=============================================================================
