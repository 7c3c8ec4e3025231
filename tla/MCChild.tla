------------------------------ MODULE MCChild ------------------------------
(***************************************************************************)
(* The child dispatch lane on three small runs: a work order that may be   *)
(* attempted twice (the subject whose progress is checked), a work order   *)
(* with two calls of each kind, and two work orders.  The last run is the  *)
(* same for both of its orders, so the properties are read off the first.  *)
(***************************************************************************)
EXTENDS ChildDispatch, TLC

CONSTANTS c1, c2

VARIABLE subject    \* what this behaviour exercises

everything == <<subject, vars>>

Retried == INSTANCE ChildDispatch WITH
          MaxModelCalls <- 1, MaxToolCalls <- 1, MaxCallsPerBroker <- 1, MaxReservations <- 2
Long == INSTANCE ChildDispatch WITH MaxAttempts <- 1
Pair == INSTANCE ChildDispatch WITH
          Children <- {c1, c2}, MaxModelCalls <- 1, MaxToolCalls <- 1, MaxAttempts <- 1,
          MaxReservations <- 2, MaxClaims <- 1

ChildInit == \/ subject = "retried" /\ Retried!Init
             \/ subject = "long" /\ Long!Init
             \/ subject = "pair" /\ Pair!Init

ChildNext ==
    /\ UNCHANGED subject
    /\ \/ subject = "retried" /\ Retried!Next
       \/ subject = "long" /\ Long!Next
       \/ subject = "pair" /\ Pair!Next

Keeps(A) == subject = "retried" /\ UNCHANGED subject /\ A

\* FairSpec, for the first subject.
ChildSpec ==
    /\ ChildInit /\ [][ChildNext]_everything
    /\ WF_everything(Keeps(Retried!ExpireLease))
    /\ \A r \in Runtimes :
          /\ WF_everything(Keeps(Retried!RefreshClaim(r))) /\ WF_everything(Keeps(Retried!OpenOwnEpoch(r)))
          /\ WF_everything(Keeps(\E c \in Children : Retried!Settle(r, c)))
          /\ WF_everything(Keeps(\E c \in Children : Retried!EndCancelled(r, c)))

(* The effect of a dead or deposed runtime is settled, and what a          *)
(* cancelled run does not strand is ended.                                 *)
EffectsAndCancellationsSettle ==
    subject = "retried" => Retried!PendingEffectIsSettled /\ Retried!CancellationReconciles
=============================================================================
