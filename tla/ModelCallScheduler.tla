------------------------- MODULE ModelCallScheduler -------------------------
(***************************************************************************)
(* The model-call lane of the daemon: one semaphore shared by every        *)
(* supervised run (apps/daemon/src/model_call_scheduler.rs) and the wait   *)
(* around it that keeps the run's durable claim alive and rechecks every   *)
(* reason not to call the provider (await_model_call_slot in               *)
(* apps/daemon/src/supervisor.rs).                                         *)
(*                                                                         *)
(* A call is one prepared inference.  The tokio semaphore is external: its *)
(* waiters form a FIFO queue, a free permit is assigned to the oldest one, *)
(* and dropping the waiting future or the permit gives the permit back.    *)
(***************************************************************************)
EXTENDS Integers, FiniteSets, Sequences

CONSTANTS Calls,        \* prepared inferences that want a lane
          MaxParallel   \* maximum_parallel_calls

\* ModelCallScheduler::new refuses a lane of no capacity.
ASSUME LaneAssumption == IsFiniteSet(Calls) /\ MaxParallel \in Nat \ {0}

VARIABLES pc,          \* where each call stands in await_model_call_slot
          queue,       \* waiters of the semaphore, oldest first
          available,   \* permits the semaphore holds
          renewing,    \* calls inside the heartbeat's claim renewal
          cancelled,   \* calls whose in-memory cancellation token is set
          revoked,     \* calls whose run has a durable cancellation
          expired,     \* calls whose run deadline has elapsed
          stopping,    \* the supervisor's shutdown token
          doomed       \* history: durably cancelled before a lane was assigned

laneVars == <<pc, queue, available, renewing, cancelled, revoked, expired,
              stopping, doomed>>

Waiting == {"queued", "assigned"}
Holding == {"assigned", "granted", "checked", "calling"}
Exits   == {"Cancelled", "Shutdown", "Deadline", "ClaimRenewalFailed",
            "StoreError", "Called"}
LaneSteps   == {"idle", "queued"} \cup Holding \cup Exits

Holders == {c \in Calls : pc[c] \in Holding}

LaneTypeOK ==
    /\ pc \in [Calls -> LaneSteps]
    /\ queue \in Seq(Calls)
    /\ available \in 0..MaxParallel
    /\ renewing \subseteq Calls
    /\ cancelled \subseteq Calls
    /\ revoked \subseteq Calls
    /\ expired \subseteq Calls
    /\ stopping \in BOOLEAN
    /\ doomed \subseteq Calls

LaneInit ==
    /\ pc = [c \in Calls |-> "idle"]
    /\ queue = <<>>
    /\ available = MaxParallel
    /\ renewing = {}
    /\ cancelled = {}
    /\ revoked = {}
    /\ expired = {}
    /\ stopping = FALSE
    /\ doomed = {}

-----------------------------------------------------------------------------
(* The queue without call c, which waits in it at most once.               *)
Without(q, c) ==
    IF \A i \in DOMAIN q : q[i] # c THEN q
    ELSE LET k == CHOOSE i \in DOMAIN q : q[i] = c
         IN  [i \in 1..Len(q) - 1 |-> IF i < k THEN q[i] ELSE q[i + 1]]

(* Leaving the wait: the acquisition future or the permit is dropped.      *)

(* Mutant: only a call that reached the provider gives its permit back.    *)
LeaveLeaking(c, exit) ==
    /\ pc' = [pc EXCEPT ![c] = exit]
    /\ queue' = Without(queue, c)
    /\ available' = available + (IF pc[c] = "calling" THEN 1 ELSE 0)
    /\ renewing' = renewing \ {c}

Leave(c, exit) ==
    /\ pc' = [pc EXCEPT ![c] = exit]
    /\ queue' = Without(queue, c)
    /\ available' = available + (IF pc[c] \in Holding THEN 1 ELSE 0)
    /\ renewing' = renewing \ {c}

(* The order every check of the code uses: cancellation, then shutdown.    *)
TokenExit(c) == IF c \in cancelled THEN "Cancelled" ELSE "Shutdown"
TokenSet(c)  == c \in cancelled \/ stopping

SlotUnchanged == UNCHANGED <<cancelled, revoked, expired, stopping>>

-----------------------------------------------------------------------------
(* ModelCallScheduler::acquire: both tokens are read before queueing.      *)
Enter(c) ==
    /\ pc[c] = "idle"
    /\ \/ /\ TokenSet(c)
          /\ Leave(c, TokenExit(c))
       \/ /\ ~TokenSet(c)
          /\ pc' = [pc EXCEPT ![c] = "queued"]
          /\ queue' = Append(queue, c)
          /\ UNCHANGED <<available, renewing>>
    /\ SlotUnchanged /\ UNCHANGED doomed

(* The semaphore hands a free permit to its oldest waiter.                 *)
Assign ==
    /\ queue # <<>>
    /\ available > 0
    /\ LET c == Head(queue) IN
         /\ pc' = [pc EXCEPT ![c] = "assigned"]
         /\ doomed' = IF c \in revoked THEN doomed \cup {c} ELSE doomed
    /\ queue' = Tail(queue)
    /\ available' = available - 1
    /\ SlotUnchanged /\ UNCHANGED renewing

(* acquire's biased select: the tokens win over a permit that is ready.    *)
PollTokens(c) ==
    /\ pc[c] \in Waiting /\ c \notin renewing
    /\ TokenSet(c)
    /\ Leave(c, TokenExit(c))
    /\ SlotUnchanged /\ UNCHANGED doomed

PollPermit(c) ==
    /\ pc[c] = "assigned" /\ c \notin renewing
    /\ ~TokenSet(c)
    /\ pc' = [pc EXCEPT ![c] = "granted"]
    /\ SlotUnchanged /\ UNCHANGED <<queue, available, renewing, doomed>>

(* await_model_call_slot's select: the deadline is polled after acquire.   *)
PollDeadline(c) ==
    /\ pc[c] = "queued" /\ c \notin renewing
    /\ ~TokenSet(c)
    /\ c \in expired
    /\ Leave(c, "Deadline")
    /\ SlotUnchanged /\ UNCHANGED doomed

(* The heartbeat timer fires; while the claim is renewed the acquisition   *)
(* is not polled, but it keeps its place and may be assigned a permit.     *)
HeartbeatStart(c) ==
    /\ pc[c] = "queued" /\ c \notin renewing
    /\ ~TokenSet(c) /\ c \notin expired
    /\ renewing' = renewing \cup {c}
    /\ SlotUnchanged /\ UNCHANGED <<pc, queue, available, doomed>>

HeartbeatEnd(c) ==
    /\ c \in renewing
    /\ \/ Leave(c, "ClaimRenewalFailed")
       \/ Leave(c, "StoreError")
       \/ /\ c \in revoked
          /\ Leave(c, "Cancelled")
       \/ /\ c \notin revoked
          /\ renewing' = renewing \ {c}
          /\ UNCHANGED <<pc, queue, available>>
    /\ SlotUnchanged /\ UNCHANGED doomed

(* The rechecks after the grant, in acquire and again in its caller.       *)
Recheck(c) ==
    /\ pc[c] = "granted"
    /\ \/ /\ TokenSet(c)
          /\ Leave(c, TokenExit(c))
       \/ /\ ~TokenSet(c) /\ c \in expired
          /\ Leave(c, "Deadline")
       \/ /\ ~TokenSet(c) /\ c \notin expired
          /\ pc' = [pc EXCEPT ![c] = "checked"]
          /\ UNCHANGED <<queue, available, renewing>>
    /\ SlotUnchanged /\ UNCHANGED doomed

(* Mutant: the store is not read again once the lane is granted.           *)
DurableCheckSkipped(c) ==
    /\ pc[c] = "checked"
    /\ \/ /\ TokenSet(c)
          /\ Leave(c, TokenExit(c))
       \/ /\ ~TokenSet(c) /\ c \in expired
          /\ Leave(c, "Deadline")
       \/ /\ ~TokenSet(c) /\ c \notin expired
          /\ pc' = [pc EXCEPT ![c] = "calling"]
          /\ UNCHANGED <<queue, available, renewing>>
    /\ SlotUnchanged /\ UNCHANGED doomed

(* The durable cancellation is read from the store, then every in-memory   *)
(* reason is read once more; only then is the provider future built.       *)
DurableCheck(c) ==
    /\ pc[c] = "checked"
    /\ \/ Leave(c, "StoreError")
       \/ /\ c \in revoked \cup cancelled
          /\ Leave(c, "Cancelled")
       \/ /\ c \notin revoked \cup cancelled
          /\ stopping
          /\ Leave(c, "Shutdown")
       \/ /\ c \notin revoked /\ ~TokenSet(c) /\ c \in expired
          /\ Leave(c, "Deadline")
       \/ /\ c \notin revoked /\ ~TokenSet(c) /\ c \notin expired
          /\ pc' = [pc EXCEPT ![c] = "calling"]
          /\ UNCHANGED <<queue, available, renewing>>
    /\ SlotUnchanged /\ UNCHANGED doomed

(* The provider future ends or is dropped; the permit goes with it.        *)
CallEnds(c) ==
    /\ pc[c] = "calling"
    /\ Leave(c, "Called")
    /\ SlotUnchanged /\ UNCHANGED doomed

-----------------------------------------------------------------------------
(* The environment: the client, the clock and the daemon's shutdown.       *)

CancelToken(c) ==
    /\ c \notin cancelled
    /\ cancelled' = cancelled \cup {c}
    /\ UNCHANGED <<pc, queue, available, renewing, revoked, expired, stopping,
                   doomed>>

DurableCancel(c) ==
    /\ c \notin revoked
    /\ revoked' = revoked \cup {c}
    /\ UNCHANGED <<pc, queue, available, renewing, cancelled, expired, stopping,
                   doomed>>

Expire(c) ==
    /\ c \notin expired
    /\ expired' = expired \cup {c}
    /\ UNCHANGED <<pc, queue, available, renewing, cancelled, revoked, stopping,
                   doomed>>

StopLane ==
    /\ ~stopping
    /\ stopping' = TRUE
    /\ UNCHANGED <<pc, queue, available, renewing, cancelled, revoked, expired,
                   doomed>>

Progress(c) ==
    \/ PollTokens(c) \/ PollPermit(c) \/ HeartbeatEnd(c)
    \/ Recheck(c) \/ DurableCheck(c) \/ CallEnds(c)

Env(c) == CancelToken(c) \/ DurableCancel(c) \/ Expire(c)

LaneNext ==
    \/ Assign
    \/ StopLane
    \/ \E c \in Calls :
         \/ Enter(c) \/ PollDeadline(c) \/ HeartbeatStart(c)
         \/ Progress(c) \/ Env(c)

(* Tokio polls every woken task and the semaphore wakes its oldest waiter, *)
(* and every provider call ends: the backend bounds each request.          *)
LaneFairness == WF_laneVars(Assign) /\ \A c \in Calls : WF_laneVars(Progress(c))

LaneSpec == LaneInit /\ [][LaneNext]_laneVars /\ LaneFairness

-----------------------------------------------------------------------------
(* A permit is never lost or duplicated, whichever of the exits drops the  *)
(* future that waits for it or holds it ("never leaks capacity",           *)
(* ModelCallScheduler::acquire).                                           *)
CapacityConserved == available + Cardinality(Holders) = MaxParallel

(* A call queued exactly when its future waits without a permit, and once. *)
QueueMatchesWaiters ==
    /\ {queue[i] : i \in DOMAIN queue} = {c \in Calls : pc[c] = "queued"}
    /\ \A i, j \in DOMAIN queue : queue[i] = queue[j] => i = j

(* A run cancelled durably while its call was still queued never reaches   *)
(* the provider, even if no in-memory token was ever set (the store is     *)
(* read after the lane is granted, await_model_call_slot).                 *)
QueuedCancellationPreventsCall ==
    \A c \in doomed : pc[c] \notin {"calling", "Called"}

(* The lane keeps its promises: no permit leaks, the queue is exactly the  *)
(* waiting calls, and a call that was cancelled durably while it waited    *)
(* never reaches the provider.                                             *)
LaneIsSound ==
    LaneTypeOK /\ CapacityConserved /\ QueueMatchesWaiters /\ QueuedCancellationPreventsCall

(* A waiting call always leaves the lane queue: to the provider or with a  *)
(* named exit; cancellations and renewals of others never starve it.       *)
WaiterIsServed ==
    \A c \in Calls : pc[c] = "queued" ~> pc[c] \in {"calling"} \cup Exits

=============================================================================
