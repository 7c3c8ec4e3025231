--------------------------- MODULE MCSupervision ---------------------------
(***************************************************************************)
(* One planning run.  A behaviour exercises one subject: the log alone,    *)
(* with two daemon processes that propose any event naming events of the   *)
(* log; the supervisor under the faults of the configuration; or           *)
(* takeovers, where both processes may be stopped and asked to cancel.     *)
(***************************************************************************)
EXTENDS RunSupervision, FiniteSets, TLC

CONSTANTS Subjects,
          MaxClaims    \* bound: claims and renewals proposed to the log

VARIABLE subject

ActorSymmetry == Permutations(Actors)

Takeover == INSTANCE RunSupervision
              WITH MaxFaults <- 0, Stoppable <- Actors, MaxRecoveryEvents <- 16

-----------------------------------------------------------------------------
\* For the store an observed failure is one whatever its evidence says.
PlainKinds == {"CancelRequested", "Succeeded", "ObservedFailed", "PlanningFailed"}
              \cup Decisions \cup StateChanges

PlanCandidates == {0} \cup {i \in DOMAIN log : log[i].kind = "PlanAccepted"}

Claims == Cardinality({i \in DOMAIN log : log[i].kind = "Claimed"})

Propose(a, p) ==
    \/ \E k \in PlainKinds : append_event(Plain(k, a, p))
    \/ \E g \in {0, 1} : Claims < MaxClaims /\ append_event(Claim(a, p, g))
    \/ \E g \in {0, 1} : append_event(UnknownOutcome(a, p, g))
    \/ \E s \in Stages : append_event(StageFailure(a, p, s))
    \/ \E s \in Stages, g \in {0, 1}, c \in PlanCandidates :
          append_event(Preparation(a, p, s, c, g))

LogStep == ExpireLease \/ \E a \in Actors, p \in DOMAIN log : Propose(a, p)

-----------------------------------------------------------------------------
SupervisionInit == subject \in Subjects /\ Init

SupervisionNext ==
    /\ UNCHANGED subject
    /\ \/ subject = "log" /\ LogStep /\ UNCHANGED taskVars
       \/ subject = "supervisor" /\ Next
       \/ subject = "takeover" /\ Takeover!Next

SupervisionSafe == SupervisionInit /\ [][SupervisionNext]_<<subject, vars>>

\* Spec, where the only subject is the supervisor: the subject never changes.
SupervisionLive == SupervisionSafe /\ Fairness
=============================================================================
