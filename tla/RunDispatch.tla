---------------------------- MODULE RunDispatch ----------------------------
(***************************************************************************)
(* How one daemon process finds the runs it executes: the server thread    *)
(* that submits a run it has just created, the durable dispatcher that     *)
(* pages through the store's non-terminal runs, the bounded command        *)
(* channel between them and the supervisor's loop, which queues commands,  *)
(* spawns a task for each, joins it and shuts everything down              *)
(* (apps/daemon/src/supervisor/runtime_dispatch.rs and RunSupervisor in    *)
(* apps/daemon/src/supervisor.rs).                                         *)
(*                                                                         *)
(* The three threads share the map of active runs behind a mutex; a step   *)
(* of this module is what a thread does between two awaits or inside one   *)
(* critical section.  What a task does to its run is module RunSupervision *)
(* and here only an end that leaves the run terminal or not.               *)
(***************************************************************************)
EXTENDS Naturals, Sequences, FiniteSets

CONSTANTS Runs,             \* run ids, ordered as the store orders them
          Executable,       \* runs whose purpose this daemon can execute
          CommandCapacity,  \* command_capacity
          MaxConcurrent,    \* max_concurrent_runs
          PageSize          \* RUN_RECOVERY_PAGE_SIZE

ASSUME RunsAssumption == Runs \subseteq Nat \ {0} /\ IsFiniteSet(Runs)
ASSUME ExecutableAssumption == Executable \subseteq Runs
ASSUME CapacityAssumption == /\ CommandCapacity \in Nat \ {0}
                             /\ MaxConcurrent \in Nat \ {0}
                             /\ PageSize \in Nat \ {0}

VARIABLES durable,     \* the projected state of each run in the store
          active,      \* active_cancellations: the runs registered
          channel,     \* commands sent and not yet received
          discoveries, \* how many discovery requests are queued
          permit,      \* the dispatcher holds a reserved slot of the channel
          closed,      \* the receiver closed the channel
          pending,     \* commands received and not yet spawned
          tasks,       \* runs whose task is spawned and not yet joined
          ended,       \* those of them whose task has ended
          server,      \* what the server thread does, and for which run
          dispatcher,  \* where the durable dispatcher stands
          page,        \* the runs of its page still to visit
          hasMore,     \* whether the store had more than that page
          cursor,      \* the last run it visited, 0 for none
          loop,        \* where the supervisor's loop stands
          shutdown     \* the shutdown token

serverVars == <<server>>
dispatcherVars == <<dispatcher, permit, page, hasMore, cursor>>
loopVars == <<closed, pending, tasks, ended, loop>>
vars == <<durable, active, channel, discoveries, serverVars, dispatcherVars, loopVars, shutdown>>

Idle == [op |-> "idle", run |-> 0]
ServerOps == {"idle", "submit", "send", "refused", "discover", "stopped"}

TypeOK ==
    /\ durable \in [Runs -> {"absent", "live", "terminal"}]
    /\ active \subseteq Runs
    /\ channel \in Seq(Runs)
    /\ discoveries \in 0..CommandCapacity
    /\ permit \in BOOLEAN
    /\ closed \in BOOLEAN
    /\ pending \in Seq(Runs)
    /\ tasks \subseteq Runs
    /\ ended \subseteq tasks
    /\ server \in [op : ServerOps, run : Runs \cup {0}]
    /\ dispatcher \in {"load", "visit", "reserve", "register", "wait", "stopped", "failed"}
    /\ page \in Seq(Runs)
    /\ hasMore \in BOOLEAN
    /\ cursor \in Runs \cup {0}
    /\ loop \in {"select", "discovering", "stopping", "draining", "joining", "done"}
    /\ shutdown \in BOOLEAN

(* The process starts on a store that may already hold runs.               *)
Init ==
    /\ durable \in [Runs -> {"absent", "live"}]
    /\ active = {}
    /\ channel = <<>> /\ pending = <<>> /\ discoveries = 0
    /\ permit = FALSE /\ closed = FALSE
    /\ tasks = {} /\ ended = {}
    /\ server = Idle
    /\ dispatcher = "load" /\ page = <<>> /\ hasMore = FALSE /\ cursor = 0
    /\ loop = "select"
    /\ shutdown = FALSE

-----------------------------------------------------------------------------
(* The server thread.                                                      *)

ServerOnly == UNCHANGED <<dispatcherVars, loopVars, shutdown>>

(* CreateRun: the run is durable before it is submitted, and only one of   *)
(* an executable purpose is.  A client may send the request again: the run *)
(* found in the store is submitted again unless it is terminal.            *)
create_run(r) ==
    /\ server = Idle
    /\ durable' = [durable EXCEPT ![r] = IF @ = "absent" THEN "live" ELSE @]
    /\ server' = IF durable'[r] = "live" /\ r \in Executable
                   THEN [op |-> "submit", run |-> r] ELSE Idle
    /\ ServerOnly /\ UNCHANGED <<active, channel, discoveries>>

(* submit: register under the lock, or return AlreadyActive.               *)
submit ==
    /\ server.op = "submit"
    /\ \/ server.run \in active /\ server' = Idle /\ UNCHANGED active
       \/ /\ server.run \notin active
          /\ active' = active \cup {server.run}
          /\ server' = [server EXCEPT !.op = "send"]
    /\ ServerOnly /\ UNCHANGED <<durable, channel, discoveries>>

Slots == Len(channel) + (IF permit THEN 1 ELSE 0)

try_send ==
    /\ server.op = "send"
    /\ \/ /\ ~closed /\ Slots < CommandCapacity
          /\ channel' = Append(channel, server.run)
          /\ server' = Idle
       \/ /\ closed \/ Slots = CommandCapacity
          /\ server' = [server EXCEPT !.op = "refused"]
          /\ UNCHANGED channel
    /\ ServerOnly /\ UNCHANGED <<durable, active, discoveries>>

\* mutant: a submission that was refused stays registered
KeepRegistered ==
    /\ server.op = "refused"
    /\ server' = Idle
    /\ ServerOnly /\ UNCHANGED <<durable, active, channel, discoveries>>

(* A refused submission unregisters.                                       *)
rollback ==
    /\ server.op = "refused"
    /\ active' = active \ {server.run}
    /\ server' = Idle
    /\ ServerOnly /\ UNCHANGED <<durable, channel, discoveries>>

(* discover_models queues a request, if there is room, and blocks the      *)
(* server until it is answered or times out; the request is then stale but *)
(* still queued.                                                           *)
discover_models ==
    /\ server = Idle /\ ~closed /\ discoveries < CommandCapacity
    /\ discoveries' = discoveries + 1
    /\ server' = [Idle EXCEPT !.op = "discover"]
    /\ ServerOnly /\ UNCHANGED <<durable, active, channel>>

discovery_returns ==
    /\ server.op = "discover" /\ server' = Idle
    /\ ServerOnly /\ UNCHANGED <<durable, active, channel, discoveries>>

(* stop_and_join, once the server loop has returned.                       *)
stop_and_join ==
    /\ server = Idle
    /\ server' = [Idle EXCEPT !.op = "stopped"]
    /\ shutdown' = TRUE
    /\ UNCHANGED <<durable, active, channel, discoveries, dispatcherVars, loopVars>>

-----------------------------------------------------------------------------
(* The durable dispatcher.                                                 *)

DispatcherOnly == UNCHANGED <<durable, discoveries, serverVars, loopVars, shutdown>>
Stops == shutdown /\ dispatcher' = "stopped" /\ permit' = FALSE

NonTerminal(after) == {r \in Runs : durable[r] = "live" /\ r > after}

(* The first PageSize runs after the cursor, in the order of their ids.    *)
IsPage(p, after) ==
    /\ Len(p) = IF Cardinality(NonTerminal(after)) < PageSize
                  THEN Cardinality(NonTerminal(after)) ELSE PageSize
    /\ \A i, j \in DOMAIN p : i < j => p[i] < p[j]
    /\ \A i \in DOMAIN p : p[i] \in NonTerminal(after)
    /\ \A r \in NonTerminal(after) :
         \/ \E i \in DOMAIN p : p[i] = r
         \/ \A i \in DOMAIN p : p[i] < r

Pages == UNION {[1..n -> Runs] : n \in 0..PageSize}

(* load_nonterminal_page: a read of the store after the cursor.  An empty  *)
(* page means that the scan has to start again.                            *)
load_nonterminal_page ==
    /\ dispatcher = "load"
    /\ \/ Stops /\ UNCHANGED <<page, hasMore, cursor>>
       \/ /\ ~shutdown
          /\ page' \in {p \in Pages : IsPage(p, cursor)}
          /\ hasMore' = (Cardinality(NonTerminal(cursor)) > PageSize)
          /\ cursor' = IF page' = <<>> THEN 0 ELSE cursor
          /\ dispatcher' = IF page' = <<>> THEN "wait" ELSE "visit"
          /\ UNCHANGED permit
    /\ DispatcherOnly /\ UNCHANGED <<active, channel>>

(* The read fails: the scan goes on from the same cursor after a pause.    *)
load_fails ==
    /\ dispatcher = "load" /\ ~shutdown
    /\ dispatcher' = "wait"
    /\ DispatcherOnly
    /\ UNCHANGED <<active, channel, permit, page, hasMore, cursor>>

Visited == /\ page' = Tail(page)
           /\ cursor' = Head(page)
           /\ dispatcher' = "visit"

(* The head of the page: skip a run that this daemon cannot execute or     *)
(* that is active already; at the end of the page, go on or rest.          *)
visit_run ==
    /\ dispatcher = "visit"
    /\ \/ /\ page = <<>> /\ hasMore
          /\ dispatcher' = "load" /\ UNCHANGED <<page, cursor>>
       \/ /\ page = <<>> /\ ~hasMore
          /\ dispatcher' = "wait" /\ cursor' = 0 /\ UNCHANGED page
       \/ /\ page # <<>>
          /\ Head(page) \notin Executable \/ Head(page) \in active
          /\ Visited
       \/ /\ page # <<>>
          /\ Head(page) \in Executable /\ Head(page) \notin active
          /\ dispatcher' = "reserve" /\ UNCHANGED <<page, cursor>>
    /\ DispatcherOnly /\ UNCHANGED <<active, channel, permit, hasMore>>

(* enqueue_durable_run waits for a slot, watching the shutdown token.      *)
reserve ==
    /\ dispatcher = "reserve"
    /\ \/ Stops
       \/ /\ ~shutdown /\ Slots < CommandCapacity
          /\ permit' = TRUE /\ dispatcher' = "register"
    /\ DispatcherOnly /\ UNCHANGED <<active, channel, page, hasMore, cursor>>

\* mutant: the run is not looked up again after the wait for a slot
RegisterBlindly ==
    /\ dispatcher = "register"
    /\ active' = active \cup {Head(page)}
    /\ channel' = Append(channel, Head(page))
    /\ permit' = FALSE
    /\ Visited
    /\ DispatcherOnly /\ UNCHANGED <<hasMore>>

(* With the slot reserved: register and send, unless the run became active *)
(* meanwhile; the permit is then dropped.                                  *)
register ==
    /\ dispatcher = "register"
    /\ \/ Stops /\ UNCHANGED <<active, channel, page, cursor>>
       \/ /\ ~shutdown /\ Head(page) \in active
          /\ permit' = FALSE
          /\ Visited
          /\ UNCHANGED <<active, channel>>
       \/ /\ ~shutdown /\ Head(page) \notin active
          /\ active' = active \cup {Head(page)}
          /\ channel' = Append(channel, Head(page))
          /\ permit' = FALSE
          /\ Visited
    /\ DispatcherOnly /\ UNCHANGED <<hasMore>>

(* wait_for_durable_dispatch: shutdown, a notification of dispatch_wake or *)
(* the backoff.  A notification only shortens the wait, which is of any    *)
(* length here.                                                            *)
wait_for_durable_dispatch ==
    /\ dispatcher = "wait"
    /\ \/ Stops
       \/ ~shutdown /\ dispatcher' = "load" /\ UNCHANGED permit
    /\ DispatcherOnly /\ UNCHANGED <<active, channel, page, hasMore, cursor>>

(* The dispatcher's task panics: whatever it reserved is dropped.          *)
DispatcherFails ==
    /\ dispatcher \notin {"stopped", "failed"}
    /\ dispatcher' = "failed" /\ permit' = FALSE
    /\ DispatcherOnly /\ UNCHANGED <<active, channel, page, hasMore, cursor>>

DispatcherStep ==
    \/ load_nonterminal_page \/ load_fails \/ visit_run \/ reserve \/ register
    \/ wait_for_durable_dispatch

-----------------------------------------------------------------------------
(* The supervisor's loop.                                                  *)

LoopOnly == UNCHANGED <<durable, serverVars, dispatcherVars>>
Stopped == dispatcher \in {"stopped", "failed"}
CanSpawn == pending # <<>> /\ Cardinality(tasks) < MaxConcurrent

spawn_run_task ==
    /\ loop = "select" /\ CanSpawn
    /\ tasks' = tasks \cup {Head(pending)}
    /\ pending' = Tail(pending)
    /\ LoopOnly
    /\ UNCHANGED <<active, channel, discoveries, closed, ended, loop, shutdown>>

(* publish_joined and what the loop does with the run it names.            *)
Release(r) ==
    /\ tasks' = tasks \ {r}
    /\ ended' = ended \ {r}
    /\ active' = active \ {r}

join_task(r) ==
    /\ loop = "select" /\ ~CanSpawn /\ ~shutdown /\ r \in ended
    /\ Release(r)
    /\ LoopOnly /\ UNCHANGED <<channel, discoveries, pending, closed, loop, shutdown>>

(* The biased select: shutdown, joins, the dispatcher's end, commands.     *)
leave_loop ==
    /\ loop = "select" /\ ~CanSpawn
    /\ shutdown \/ (ended = {} /\ Stopped)
    /\ loop' = "stopping" /\ shutdown' = TRUE
    /\ LoopOnly
    /\ UNCHANGED <<active, channel, discoveries, pending, closed, tasks, ended>>

\* mutant: commands are received however many are pending
ReceiveAlways ==
    /\ loop = "select" /\ ~CanSpawn /\ ~shutdown /\ ended = {}
    /\ ~Stopped /\ channel # <<>>
    /\ pending' = Append(pending, Head(channel))
    /\ channel' = Tail(channel)
    /\ LoopOnly
    /\ UNCHANGED <<active, discoveries, closed, tasks, ended, loop, shutdown>>

CanReceive == channel # <<>> /\ Len(pending) < CommandCapacity

receive_command ==
    /\ loop = "select" /\ ~CanSpawn /\ ~shutdown /\ ended = {} /\ ~Stopped
    /\ CanReceive
    /\ pending' = Append(pending, Head(channel))
    /\ channel' = Tail(channel)
    /\ LoopOnly
    /\ UNCHANGED <<active, discoveries, closed, tasks, ended, loop, shutdown>>

(* A discovery is served inside the loop, which does nothing else until it *)
(* ends or times out, not even notice a shutdown.                          *)
discover_for_protocol ==
    /\ loop = "select" /\ ~CanSpawn /\ ~shutdown /\ ended = {} /\ ~Stopped
    /\ ~CanReceive /\ discoveries > 0
    /\ discoveries' = discoveries - 1
    /\ loop' = "discovering"
    /\ LoopOnly
    /\ UNCHANGED <<active, channel, closed, pending, tasks, ended, shutdown>>

discovery_done ==
    /\ loop = "discovering" /\ loop' = "select"
    /\ LoopOnly
    /\ UNCHANGED <<active, channel, discoveries, closed, pending, tasks, ended, shutdown>>

(* After the loop: wait for the dispatcher, close the channel, unregister  *)
(* what was pending or sent, join the tasks.                               *)
close_channel ==
    /\ loop = "stopping" /\ Stopped
    /\ closed' = TRUE
    /\ loop' = "draining"
    /\ LoopOnly
    /\ UNCHANGED <<active, channel, discoveries, pending, tasks, ended, shutdown>>

drain_commands ==
    /\ loop = "draining"
    /\ \/ /\ pending # <<>>
          /\ active' = active \ {Head(pending)} /\ pending' = Tail(pending)
          /\ UNCHANGED <<channel, loop>>
       \/ /\ pending = <<>> /\ channel # <<>>
          /\ active' = active \ {Head(channel)} /\ channel' = Tail(channel)
          /\ UNCHANGED <<pending, loop>>
       \/ /\ pending = <<>> /\ channel = <<>>
          /\ loop' = "joining" /\ UNCHANGED <<active, pending, channel>>
    /\ LoopOnly /\ UNCHANGED <<discoveries, closed, tasks, ended, shutdown>>

join_remaining ==
    /\ loop = "joining"
    /\ \/ \E r \in ended : Release(r) /\ UNCHANGED loop
       \/ tasks = {} /\ loop' = "done" /\ UNCHANGED <<tasks, ended, active>>
    /\ LoopOnly /\ UNCHANGED <<channel, discoveries, pending, closed, shutdown>>

LoopStep ==
    \/ spawn_run_task \/ leave_loop \/ receive_command \/ discover_for_protocol
    \/ discovery_done \/ close_channel \/ drain_commands \/ join_remaining
    \/ \E r \in Runs : join_task(r)

(* The task of a run ends: with the run terminal, or contended, failed or  *)
(* panicked and the run as it was.                                         *)
TaskEnds(r) ==
    /\ r \in tasks \ ended
    /\ ended' = ended \cup {r}
    /\ \/ durable' = [durable EXCEPT ![r] = "terminal"]
       \/ UNCHANGED durable
    /\ UNCHANGED <<active, channel, discoveries, serverVars, dispatcherVars, closed,
                   pending, tasks, loop, shutdown>>

(* A client cancels the run, or another process ends it.                   *)
RunEndsElsewhere(r) ==
    /\ durable[r] = "live"
    /\ durable' = [durable EXCEPT ![r] = "terminal"]
    /\ UNCHANGED <<active, channel, discoveries, serverVars, dispatcherVars, loopVars,
                   shutdown>>

ServerStep == submit \/ try_send \/ rollback \/ discovery_returns

Next ==
    \/ ServerStep \/ discover_models \/ stop_and_join
    \/ DispatcherStep \/ DispatcherFails \/ LoopStep
    \/ \E r \in Runs : create_run(r) \/ TaskEnds(r) \/ RunEndsElsewhere(r)

(* Threads run, tasks end (module RunSupervision), the store can be read   *)
(* again after errors, and the channel's semaphore serves a waiting        *)
(* dispatcher before a later try_send.                                     *)
Fairness ==
    /\ WF_vars(ServerStep) /\ WF_vars(LoopStep) /\ WF_vars(DispatcherStep)
    /\ SF_vars(load_nonterminal_page) /\ SF_vars(reserve)
    /\ \A r \in Runs : WF_vars(TaskEnds(r))

Spec == Init /\ [][Next]_vars /\ Fairness

-----------------------------------------------------------------------------
Elements(s) == {s[i] : i \in DOMAIN s}
Distinct(s) == \A i, j \in DOMAIN s : s[i] = s[j] => i = j

(* The run of the submission in flight, once it is registered.             *)
Submitting == IF server.op \in {"send", "refused"} THEN {server.run} ELSE {}

(* A run has one command or task at most, and is registered exactly as     *)
(* long as it has one: no interleaving of submit, the scan and a join      *)
(* executes a run twice or leaves it registered with nobody working on it. *)
ActiveMatchesWork ==
    /\ active = Elements(channel) \cup Elements(pending) \cup tasks \cup Submitting
    /\ Distinct(channel) /\ Distinct(pending)
    /\ Elements(channel) \cap Elements(pending) = {}
    /\ (Elements(channel) \cup Elements(pending)) \cap tasks = {}
    /\ Submitting \cap (Elements(channel) \cup Elements(pending) \cup tasks) = {}

(* The queues stay within their configured bounds, whatever the dispatcher *)
(* and the server send.                                                    *)
QueuesBounded ==
    /\ Slots <= CommandCapacity
    /\ Len(pending) <= CommandCapacity
    /\ Cardinality(tasks) <= MaxConcurrent

(* A client keeps sending the request that created r.  Each time r is      *)
(* registered for a moment, and a scan that passes just then skips it.     *)
ResubmittedForever(r) == []<>(server = [op |-> "submit", run |-> r])

(* A durable run that this daemon can execute gets a task, even when its   *)
(* submission found the queue full and again whenever an attempt leaves it *)
(* unfinished, unless somebody ends the run first, the daemon stops or a   *)
(* client resubmits that run without end.                                  *)
EveryRunDispatched ==
    \A r \in Executable :
        \/ ResubmittedForever(r)
        \/ durable[r] = "live" ~> (r \in tasks \/ durable[r] = "terminal" \/ shutdown)

(* Shutdown always completes: nobody waits for room in the closed queue.   *)
ShutdownCompletes == shutdown ~> loop = "done"
=============================================================================

