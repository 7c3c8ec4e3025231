----------------------------- MODULE WorkOrder -----------------------------
(***************************************************************************)
(* What the Store promises of the reconnaissance work orders of one run:   *)
(* the projection child_recovery_state gives the rest of the system        *)
(* (crates/store/src/store_child_dispatch/recovery.rs), without the calls, *)
(* claims and clocks that produce it.  ChildDispatch implements it.        *)
(***************************************************************************)
EXTENDS Naturals

CONSTANTS Children,     \* work orders of the run
          MaxAttempts   \* max_attempts of every work order

VARIABLES status,    \* of each work order
          attempts   \* attempts started so far

Statuses == {"Unissued", "Issued", "Running", "Retryable", "Succeeded", "Failed", "Cancelled"}
Ended == {"Succeeded", "Failed", "Cancelled"}

OrderTypeOK ==
    /\ status \in [Children -> Statuses]
    /\ attempts \in [Children -> 0..MaxAttempts]

OrderInit ==
    /\ status = [c \in Children |-> "Unissued"]
    /\ attempts = [c \in Children |-> 0]

\* One bootstrap transaction issues every work order of the run.
IssueAll ==
    /\ \A c \in Children : status[c] = "Unissued"
    /\ status' = [c \in Children |-> "Issued"]
    /\ UNCHANGED attempts

\* The first attempt, or another one after an attempt that asked for it.
Begin(c) ==
    /\ status[c] \in {"Issued", "Retryable"}
    /\ attempts[c] < MaxAttempts
    /\ status' = [status EXCEPT ![c] = "Running"]
    /\ attempts' = [attempts EXCEPT ![c] = @ + 1]

\* An attempt ends once: with its verdict, or so that another may follow.
End(c, verdict) ==
    /\ status[c] = "Running"
    /\ verdict \in Ended \cup {"Retryable"}
    /\ verdict = "Retryable" => attempts[c] < MaxAttempts
    /\ status' = [status EXCEPT ![c] = verdict]
    /\ UNCHANGED attempts

OrderNext ==
    \/ IssueAll
    \/ \E c \in Children : Begin(c) \/ \E verdict \in Ended \cup {"Retryable"} : End(c, verdict)

OrderSpec == OrderInit /\ [][OrderNext]_<<status, attempts>>
=============================================================================
