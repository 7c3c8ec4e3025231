------------------------ MODULE ChildDispatch_proofs ------------------------
(***************************************************************************)
(* That the child dispatch lane runs no repository call twice, that every  *)
(* open attempt can be continued by the runtime it is bound to, that it    *)
(* implements the work-order life cycle, and what a cancellation strands:  *)
(* for any runtimes, work orders and limits.                               *)
(***************************************************************************)
EXTENDS ChildDispatch, FiniteSetTheorems, TLAPS

(* The records in full.                                                    *)
ModelCounts == 0..MaxModelCalls
ToolCounts == 0..MaxToolCalls

Attempt == [outcome : {None} \cup Outcomes, tail : Runtimes, incomparable : BOOLEAN, contiguous : BOOLEAN,
            pending : {None, "model", "prepared", "started"}, call : Calls \cup {NoCall},
            preparedBy : Runtimes, requiresUnknown : BOOLEAN, broker : Nat, lastSequence : Nat,
            terminalClock : Nat, resetFrom : Nat, models : ModelCounts, tools : ToolCounts,
            action : {None, "tool", "finish"}, turnRequired : BOOLEAN, retryRequired : {None} \cup Retries,
            modelFailure : {None} \cup Retries, toolFailed : BOOLEAN, handoff : BOOLEAN]

Order == [issued : BOOLEAN, bound : 0..MaxClaims, runtime : Runtimes, adoptions : 0..MaxAdoptions,
          takeovers : 0..MaxTakeovers, attempts : 0..MaxAttempts, last : Attempt]

(* A replayed attempt: what is pending still has room to end, and what is  *)
(* idle knows what comes next.                                             *)
AttemptOK(a) ==
    /\ a \in Attempt
    /\ a.pending = "model" => a.models < MaxModelCalls
    /\ PendingTool(a) => a.tools < MaxToolCalls /\ a.call \in Calls
    /\ a.pending # None => ~a.handoff
    /\ \/ a.pending # None \/ a.handoff \/ a.turnRequired \/ a.retryRequired # None
       \/ a.action \in {"tool", "finish"}

(* An attempt and the runtime and writers of its work order.               *)
Bound(a, q, w) ==
    /\ a.outcome = None => ClockAccepts(a, q)
    /\ a.contiguous => w = {q}
    /\ a.outcome = None /\ a.pending = "model" /\ a.preparedBy # q => a.requiresUnknown

OrderOK(c) ==
    /\ ~order[c].issued => order[c].attempts = 0
    /\ AttemptOK(Last(c))
    /\ order[c].attempts > 0 => Bound(Last(c), order[c].runtime, writers[c])

OrdersInv ==
    /\ order \in [Children -> Order]
    /\ writers \in [Children -> SUBSET Runtimes]
    /\ \A c \in Children : OrderOK(c)

ClaimInv ==
    /\ claim \in [generation : 0..MaxClaims, runtime : Runtimes, live : BOOLEAN, cancellation : BOOLEAN]
    /\ cancelled \in BOOLEAN /\ late \in BOOLEAN
    /\ reserved \in 0..MaxReservations

(* A call some broker has already given out.                               *)
Given(x, e) == \/ x.broker < e.broker
               \/ x.broker = e.broker /\ x.sequence <= e.calls

(* The right to run a call is held once, and is gone once it has been run. *)
LaneInv ==
    /\ epoch \in [broker : 0..MaxEpochs, runtime : Runtimes, calls : 0..MaxCallsPerBroker]
    /\ up \subseteq Runtimes /\ tainted \subseteq 1..MaxEpochs
    /\ hand \in [Runtimes \X Children -> Hands]
    /\ ran \subseteq Calls /\ observed \subseteq ran
    /\ repeated = FALSE
    /\ \A x \in ran : Given(x, epoch)
    /\ \A h \in Runtimes \X Children : hand[h].kind # None =>
          /\ Given(hand[h].call, epoch)
          /\ hand[h].kind = "observed" <=> hand[h].call \in ran
          /\ \A k \in Runtimes \X Children : hand[k].kind # None /\ hand[k].call = hand[h].call => k = h

ChildInv == ClaimInv /\ OrdersInv /\ LaneInv

-----------------------------------------------------------------------------
(* The events of an attempt.                                               *)

(* What every event does to an open attempt a that leaves it open as b,    *)
(* when the runtime q it is bound to writes it.                            *)
Follows(a, b, q) ==
    /\ AttemptOK(b) /\ b.outcome = None
    /\ b.tail = q \/ b.tail = a.tail
    /\ a.incomparable => b.incomparable
    /\ b.contiguous => a.contiguous
    /\ b.pending = "model" => b.preparedBy = q

LEMMA Limits == /\ MaxModelCalls \in Nat /\ MaxToolCalls \in Nat /\ MaxAttempts \in Nat /\ MaxAdoptions \in Nat
                /\ MaxTakeovers \in Nat /\ MaxCallsPerBroker \in Nat /\ MaxReservations \in Nat
                /\ MaxClaims \in Nat /\ SpareEpochs \in Nat /\ MaxAttempts > 0 /\ MaxClaims > 0
                /\ MaxEpochs \in Nat
BY CallLimitAssumption, LimitAssumption, SomeAssumption DEF MaxEpochs

LEMMA NoCallIsNone == NoCall \notin Calls /\ None = "none"
BY Limits DEF NoCall, Calls, None

LEMMA NewAttemptOK == ASSUME NEW r \in Runtimes
                      PROVE  /\ AttemptOK(NewAttempt(r)) /\ NewAttempt(r).outcome = None
                             /\ NewAttempt(r).tail = r /\ NewAttempt(r).pending = None
                             /\ ~NewAttempt(r).handoff
<1> DEFINE b == NewAttempt(r)
<1>0. 0 \in ModelCounts /\ 0 \in ToolCounts
  BY Limits DEF ModelCounts, ToolCounts
<1>1. b \in Attempt
  BY <1>0 DEF NewAttempt, Attempt
<1>2. b.outcome = None /\ b.tail = r /\ b.pending = None /\ b.turnRequired = TRUE /\ b.handoff = FALSE
  BY DEF NewAttempt
<1> HIDE DEF b
<1>3. AttemptOK(b)
  BY <1>1, <1>2 DEF AttemptOK, PendingTool, None
<1> QED BY <1>2, <1>3 DEF b

LEMMA ModelPreparedFollows ==
    ASSUME NEW a, AttemptOK(a), NEW r \in Runtimes, CanPrepareModel(a, r)
    PROVE  Follows(a, ModelPrepared(a, r), r)
<1> DEFINE b == ModelPrepared(a, r)
<1>1. b \in Attempt
  BY DEF AttemptOK, ModelPrepared, Attempt
<1>2. /\ b.outcome = a.outcome /\ b.tail = r /\ b.incomparable = a.incomparable /\ b.contiguous = a.contiguous
      /\ b.pending = "model" /\ b.preparedBy = r /\ b.models = a.models /\ b.handoff = a.handoff
  BY DEF AttemptOK, ModelPrepared, Attempt
<1>3. a.outcome = None /\ a.models < MaxModelCalls /\ ~a.handoff
  BY DEF CanPrepareModel, Idle
<1> HIDE DEF b
<1>4. AttemptOK(b)
  BY <1>1, <1>2, <1>3 DEF AttemptOK, PendingTool, None
<1>5. Follows(a, b, r)
  BY <1>2, <1>3, <1>4 DEF Follows
<1> QED BY <1>5 DEF b

LEMMA ModelEndedShape ==
    ASSUME NEW a, AttemptOK(a), NEW r \in Runtimes, a.outcome = None, a.pending = "model"
    PROVE  LET b == ModelEnded(a, r) IN
           /\ b \in Attempt /\ b.outcome = None /\ b.tail = r /\ b.incomparable = a.incomparable
           /\ b.contiguous = a.contiguous /\ b.pending = None /\ b.handoff = a.handoff
<1>1. a \in Attempt /\ a.models \in Nat /\ a.models < MaxModelCalls /\ MaxModelCalls \in Nat
  BY Limits DEF AttemptOK, Attempt, ModelCounts
<1>2. PICK n \in ModelCounts : n = a.models + 1
  BY <1>1 DEF ModelCounts
<1> DEFINE b == ModelEnded(a, r)
<1>3. b = [a EXCEPT !.pending = None, !.requiresUnknown = FALSE, !.models = n,
                    !.tail = r, !.turnRequired = FALSE]
  BY <1>2 DEF ModelEnded
<1> HIDE DEF b
<1>4. /\ b \in Attempt /\ b.outcome = a.outcome /\ b.tail = r /\ b.incomparable = a.incomparable
      /\ b.contiguous = a.contiguous /\ b.pending = None /\ b.handoff = a.handoff
  BY <1>1, <1>2, <1>3 DEF Attempt, None
<1> QED BY <1>4 DEF b

LEMMA ModelSucceededFollows ==
    ASSUME NEW a, AttemptOK(a), NEW r \in Runtimes, CanObserveModel(a), NEW action \in {"tool", "finish"}
    PROVE  Follows(a, ModelSucceeded(a, r, action), r)
<1> DEFINE m == ModelEnded(a, r)
           b == ModelSucceeded(a, r, action)
<1>1. /\ m \in Attempt /\ m.outcome = None /\ m.tail = r /\ m.incomparable = a.incomparable
      /\ m.contiguous = a.contiguous /\ m.pending = None
  BY ModelEndedShape DEF CanObserveModel
<1>2. b = [m EXCEPT !.action = action, !.modelFailure = None, !.retryRequired = None]
  BY DEF ModelSucceeded
<1> HIDE DEF m, b
<1>3. /\ b \in Attempt /\ b.outcome = None /\ b.tail = r /\ b.incomparable = a.incomparable
      /\ b.contiguous = a.contiguous /\ b.pending = None /\ b.action = action
  BY <1>1, <1>2 DEF Attempt
<1>4. AttemptOK(b)
  BY <1>3 DEF AttemptOK, PendingTool, None
<1>5. Follows(a, b, r)
  BY <1>3, <1>4 DEF Follows, None
<1> QED BY <1>5 DEF b

LEMMA ModelFailedShape ==
    ASSUME NEW a, AttemptOK(a), NEW r \in Runtimes, a.outcome = None, a.pending = "model", NEW retry \in Retries
    PROVE  LET b == ModelFailed(a, r, retry) IN
           /\ b \in Attempt /\ b.outcome = None /\ b.tail = r /\ b.incomparable = a.incomparable
           /\ b.contiguous = a.contiguous /\ b.pending = None /\ b.retryRequired = retry
<1> DEFINE m == ModelEnded(a, r)
           b == ModelFailed(a, r, retry)
<1>1. /\ m \in Attempt /\ m.outcome = None /\ m.tail = r /\ m.incomparable = a.incomparable
      /\ m.contiguous = a.contiguous /\ m.pending = None
  BY ModelEndedShape
<1>2. b = [m EXCEPT !.action = None, !.modelFailure = retry, !.retryRequired = retry]
  BY DEF ModelFailed
<1> HIDE DEF m, b
<1>3. /\ b \in Attempt /\ b.outcome = None /\ b.tail = r /\ b.incomparable = a.incomparable
      /\ b.contiguous = a.contiguous /\ b.pending = None /\ b.retryRequired = retry
  BY <1>1, <1>2 DEF Attempt
<1> QED BY <1>3 DEF b

LEMMA RetryIsSome == \A retry \in Retries : retry # None
BY DEF Retries, None

LEMMA ModelFailedFollows ==
    ASSUME NEW a, AttemptOK(a), NEW r \in Runtimes, CanObserveModel(a), NEW retry \in Retries
    PROVE  Follows(a, ModelFailed(a, r, retry), r)
<1> DEFINE b == ModelFailed(a, r, retry)
<1>1. /\ b \in Attempt /\ b.outcome = None /\ b.tail = r /\ b.incomparable = a.incomparable
      /\ b.contiguous = a.contiguous /\ b.pending = None /\ b.retryRequired = retry
  BY ModelFailedShape DEF CanObserveModel
<1> HIDE DEF b
<1>2. AttemptOK(b)
  BY <1>1, RetryIsSome DEF AttemptOK, PendingTool, None
<1>3. Follows(a, b, r)
  BY <1>1, <1>2 DEF Follows, None
<1> QED BY <1>3 DEF b

LEMMA ModelUnknownFollows ==
    ASSUME NEW a, AttemptOK(a), NEW r \in Runtimes, NEW stop, CanModelBeUnknown(a, r, stop), NEW retry \in Retries
    PROVE  Follows(a, ModelUnknown(a, r, retry), r)
<1> DEFINE m == ModelFailed(a, r, retry)
           gap == a.preparedBy # r
           b == ModelUnknown(a, r, retry)
<1>1. /\ m \in Attempt /\ m.outcome = None /\ m.tail = r /\ m.incomparable = a.incomparable
      /\ m.contiguous = a.contiguous /\ m.pending = None /\ m.retryRequired = retry
  BY ModelFailedShape DEF CanModelBeUnknown
<1>2. PICK i \in BOOLEAN : i = (m.incomparable \/ gap)
  OBVIOUS
<1>3. PICK k \in BOOLEAN : k = (m.contiguous /\ ~gap)
  OBVIOUS
<1>4. b = [m EXCEPT !.incomparable = i, !.contiguous = k]
  BY <1>2, <1>3 DEF ModelUnknown
<1> HIDE DEF m, b, gap
<1>5. /\ b \in Attempt /\ b.outcome = None /\ b.tail = r /\ b.incomparable = i
      /\ b.contiguous = k /\ b.pending = None /\ b.retryRequired = retry
  BY <1>1, <1>4 DEF Attempt
<1>6. AttemptOK(b)
  BY <1>5, RetryIsSome DEF AttemptOK, PendingTool, None
<1>7. (a.incomparable => b.incomparable) /\ (b.contiguous => a.contiguous)
  BY <1>1, <1>2, <1>3, <1>5
<1>8. Follows(a, b, r)
  BY <1>5, <1>6, <1>7 DEF Follows, None
<1> QED BY <1>8 DEF b

LEMMA ToolPreparedFollows ==
    ASSUME NEW a, AttemptOK(a), NEW r \in Runtimes, NEW x \in Calls, CanPrepareTool(a, r, x)
    PROVE  Follows(a, ToolPrepared(a, r, x), r)
<1> DEFINE b == ToolPrepared(a, r, x)
<1>1. a \in Attempt /\ a.outcome = None /\ a.tools < MaxToolCalls /\ ~a.handoff
  BY DEF AttemptOK, CanPrepareTool, Idle
<1>2. x.broker \in Nat /\ x.sequence \in Nat
  BY Limits DEF Calls
<1>3. b \in Attempt
  BY <1>1, <1>2 DEF ToolPrepared, Attempt, None
<1>4. /\ b.outcome = a.outcome /\ b.tail = r /\ b.incomparable = a.incomparable /\ b.contiguous = a.contiguous
      /\ b.pending = "prepared" /\ b.tools = a.tools /\ b.call = x /\ b.handoff = a.handoff
  BY <1>1 DEF ToolPrepared, Attempt
<1> HIDE DEF b
<1>5. AttemptOK(b)
  BY <1>1, <1>3, <1>4 DEF AttemptOK, PendingTool, None
<1>6. Follows(a, b, r)
  BY <1>1, <1>4, <1>5 DEF Follows
<1> QED BY <1>6 DEF b

LEMMA DispatchStartedFollows ==
    ASSUME NEW a, AttemptOK(a), NEW r \in Runtimes, NEW x, CanStartDispatch(a, r, x)
    PROVE  Follows(a, DispatchStarted(a, r), r)
<1> DEFINE b == DispatchStarted(a, r)
<1>1. a \in Attempt /\ a.outcome = None /\ a.pending = "prepared" /\ a.tools < MaxToolCalls /\ a.call \in Calls /\ ~a.handoff
  BY DEF AttemptOK, CanStartDispatch, PendingTool, None
<1>2. b \in Attempt
  BY <1>1 DEF DispatchStarted, Attempt, None
<1>3. /\ b.outcome = a.outcome /\ b.tail = r /\ b.incomparable = a.incomparable /\ b.contiguous = a.contiguous
      /\ b.pending = "started" /\ b.tools = a.tools /\ b.call = a.call /\ b.handoff = a.handoff
  BY <1>1 DEF DispatchStarted, Attempt
<1> HIDE DEF b
<1>4. AttemptOK(b)
  BY <1>1, <1>2, <1>3 DEF AttemptOK, PendingTool, None
<1>5. Follows(a, b, r)
  BY <1>1, <1>3, <1>4 DEF Follows
<1> QED BY <1>5 DEF b

LEMMA ToolEndedShape ==
    ASSUME NEW a, AttemptOK(a), NEW r \in Runtimes, a.outcome = None, PendingTool(a), NEW failed \in BOOLEAN
    PROVE  LET b == ToolEnded(a, r, failed) IN
           /\ b \in Attempt /\ b.outcome = None /\ b.tail = r /\ b.incomparable = a.incomparable
           /\ b.contiguous = a.contiguous /\ b.pending = None /\ b.turnRequired = TRUE
<1>1. a \in Attempt /\ a.tools \in Nat /\ a.tools < MaxToolCalls /\ MaxToolCalls \in Nat
  BY Limits DEF AttemptOK, Attempt, ToolCounts
<1>2. PICK n \in ToolCounts : n = a.tools + 1
  BY <1>1 DEF ToolCounts
<1> DEFINE b == ToolEnded(a, r, failed)
<1>3. b = [a EXCEPT !.pending = None, !.call = NoCall, !.requiresUnknown = FALSE, !.tools = n,
                    !.toolFailed = failed, !.action = None, !.tail = r, !.turnRequired = TRUE]
  BY <1>2 DEF ToolEnded
<1> HIDE DEF b
<1>4. b \in Attempt
  <2> DEFINE t == [a EXCEPT !.pending = None, !.call = NoCall]
             u == [t EXCEPT !.requiresUnknown = FALSE, !.tools = n]
  <2>0. t \in Attempt
    BY <1>1 DEF Attempt, None
  <2> HIDE DEF t
  <2>1. u \in Attempt
    BY <1>2, <2>0 DEF Attempt, None
  <2> USE DEF t
  <2>2. b = [u EXCEPT !.toolFailed = failed, !.action = None, !.tail = r, !.turnRequired = TRUE]
    BY <1>3
  <2> HIDE DEF u
  <2> QED BY <2>1, <2>2 DEF Attempt, None
<1>5. /\ b.outcome = a.outcome /\ b.tail = r /\ b.incomparable = a.incomparable
      /\ b.contiguous = a.contiguous /\ b.pending = None /\ b.turnRequired = TRUE
  BY <1>1, <1>3 DEF Attempt, None
<1> QED BY <1>4, <1>5 DEF b

LEMMA ToolObservedFollows ==
    ASSUME NEW a, AttemptOK(a), NEW r \in Runtimes, a.outcome = None, PendingTool(a), NEW failed \in BOOLEAN
    PROVE  Follows(a, ToolObserved(a, r, failed), r)
<1> DEFINE m == ToolEnded(a, r, failed)
           b == ToolObserved(a, r, failed)
<1>1. /\ m \in Attempt /\ m.outcome = None /\ m.tail = r /\ m.incomparable = a.incomparable
      /\ m.contiguous = a.contiguous /\ m.pending = None /\ m.turnRequired = TRUE
  BY ToolEndedShape
<1>2. PICK k \in Nat : k = a.call.broker
  BY Limits DEF AttemptOK, Calls
<1>3. b = [m EXCEPT !.terminalClock = k]
  BY <1>2 DEF ToolObserved
<1> HIDE DEF m, b
<1>4. /\ b \in Attempt /\ b.outcome = None /\ b.tail = r /\ b.incomparable = a.incomparable
      /\ b.contiguous = a.contiguous /\ b.pending = None /\ b.turnRequired = TRUE
  BY <1>1, <1>3 DEF Attempt, None
<1>5. AttemptOK(b)
  BY <1>4 DEF AttemptOK, PendingTool, None
<1>6. Follows(a, b, r)
  BY <1>4, <1>5 DEF Follows, None
<1> QED BY <1>6 DEF b

LEMMA ToolUnknownFollows ==
    ASSUME NEW a, AttemptOK(a), NEW r \in Runtimes, NEW timing, NEW active, CanToolBeUnknown(a, r, timing, active)
    PROVE  Follows(a, ToolUnknown(a, r, timing), r)
<1> DEFINE m == ToolEnded(a, r, TRUE)
           b == [m EXCEPT !.terminalClock = 0, !.resetFrom = a.call.broker,
                          !.incomparable = TRUE, !.contiguous = FALSE]
<1>1. a.outcome = None /\ PendingTool(a)
  BY DEF CanToolBeUnknown
<1>2. Follows(a, ToolObserved(a, r, TRUE), r)
  BY <1>1, ToolObservedFollows
<1>3. /\ m \in Attempt /\ m.outcome = None /\ m.tail = r /\ m.incomparable = a.incomparable
      /\ m.contiguous = a.contiguous /\ m.pending = None /\ m.turnRequired = TRUE
  BY <1>1, ToolEndedShape
<1>4. PICK k \in Nat : k = a.call.broker
  BY <1>1, Limits DEF AttemptOK, Calls
<1>5. b = [m EXCEPT !.terminalClock = 0, !.resetFrom = k, !.incomparable = TRUE, !.contiguous = FALSE]
  BY <1>4
<1> HIDE DEF m, b
<1>6. /\ b \in Attempt /\ b.outcome = None /\ b.tail = r /\ b.incomparable = TRUE
      /\ b.contiguous = FALSE /\ b.pending = None /\ b.turnRequired = TRUE
  BY <1>3, <1>5 DEF Attempt, None
<1>7. AttemptOK(b)
  BY <1>6 DEF AttemptOK, PendingTool, None
<1>8. Follows(a, b, r)
  BY <1>6, <1>7 DEF Follows, None
<1>9. ToolUnknown(a, r, timing) \in {ToolObserved(a, r, TRUE), b}
  BY DEF ToolUnknown, b, m
<1> QED BY <1>2, <1>8, <1>9

LEMMA HandoffCommittedFollows ==
    ASSUME NEW a, AttemptOK(a), NEW r \in Runtimes, CanCommitHandoff(a)
    PROVE  Follows(a, HandoffCommitted(a), r)
<1> DEFINE b == HandoffCommitted(a)
<1>1. a \in Attempt /\ a.outcome = None /\ a.pending = None
  BY DEF AttemptOK, CanCommitHandoff, Idle
<1>2. /\ b \in Attempt /\ b.outcome = a.outcome /\ b.tail = a.tail /\ b.incomparable = a.incomparable
      /\ b.contiguous = a.contiguous /\ b.pending = a.pending /\ b.handoff = TRUE
  BY <1>1 DEF HandoffCommitted, Attempt, None
<1> HIDE DEF b
<1>3. AttemptOK(b)
  BY <1>1, <1>2 DEF AttemptOK, PendingTool, None
<1>4. Follows(a, b, r)
  BY <1>1, <1>2, <1>3 DEF Follows, None
<1> QED BY <1>4 DEF b

LEMMA FinishedOK ==
    ASSUME NEW a, AttemptOK(a), NEW r \in Runtimes, NEW outcome \in Outcomes
    PROVE  /\ AttemptOK(Finished(a, r, outcome)) /\ Finished(a, r, outcome).outcome = outcome
           /\ Finished(a, r, outcome).contiguous = a.contiguous
<1> DEFINE b == Finished(a, r, outcome)
<1>1. a \in Attempt
  BY DEF AttemptOK
<1>2. /\ b \in Attempt /\ b.outcome = outcome /\ b.contiguous = a.contiguous /\ b.pending = a.pending
      /\ b.handoff = a.handoff /\ b.turnRequired = a.turnRequired /\ b.retryRequired = a.retryRequired
      /\ b.action = a.action /\ b.models = a.models /\ b.tools = a.tools /\ b.call = a.call
  BY <1>1 DEF Finished, Attempt, None
<1> HIDE DEF b
<1>3. AttemptOK(b)
  BY <1>2 DEF AttemptOK, PendingTool
<1> QED BY <1>2, <1>3 DEF b

(* A new claim follows the attempt: unless it continues the old one, the   *)
(* clocks are no longer comparable and what is in flight is unknown.       *)
LEMMA AdoptedOK ==
    ASSUME NEW a, AttemptOK(a), NEW contiguous \in BOOLEAN
    PROVE  LET b == Adopted(a, contiguous) IN
           /\ AttemptOK(b) /\ b.outcome = a.outcome /\ b.tail = a.tail /\ b.pending = a.pending
           /\ b.preparedBy = a.preparedBy
           /\ contiguous => b = a
           /\ ~contiguous => b.incomparable /\ ~b.contiguous /\ (a.pending # None => b.requiresUnknown)
<1>1. CASE contiguous
  BY <1>1 DEF Adopted
<1>2. CASE ~contiguous
  <2> DEFINE b == Adopted(a, contiguous)
  <2>1. PICK u \in BOOLEAN : u = (a.requiresUnknown \/ a.pending # None)
    OBVIOUS
  <2>2. b = [a EXCEPT !.incomparable = TRUE, !.contiguous = FALSE, !.requiresUnknown = u]
    BY <1>2, <2>1 DEF Adopted
  <2>3. a \in Attempt
    BY DEF AttemptOK
  <2> HIDE DEF b
  <2>4. /\ b \in Attempt /\ b.outcome = a.outcome /\ b.tail = a.tail /\ b.pending = a.pending
        /\ b.preparedBy = a.preparedBy /\ b.incomparable = TRUE /\ b.contiguous = FALSE /\ b.requiresUnknown = u
        /\ b.handoff = a.handoff /\ b.turnRequired = a.turnRequired /\ b.retryRequired = a.retryRequired
        /\ b.action = a.action /\ b.models = a.models /\ b.tools = a.tools /\ b.call = a.call
    BY <2>2, <2>3 DEF Attempt, None
  <2>5. AttemptOK(b)
    BY <2>4 DEF AttemptOK, PendingTool
  <2>6. a.pending # None => b.requiresUnknown
    BY <2>1, <2>4
  <2> QED BY <1>2, <2>4, <2>5, <2>6 DEF b
<1> QED BY <1>1, <1>2

-----------------------------------------------------------------------------
(* The work orders.                                                        *)

OrderStatus == [c \in Children |-> Status(c)]
OrderAttempts == [c \in Children |-> order[c].attempts]

(* What a step does to the work orders: it keeps their invariant, it is a  *)
(* step of the abstract life cycle or none, and it frees no stranded one.  *)
OrdersStep ==
    /\ OrdersInv'
    /\ Orders!OrderNext \/ UNCHANGED <<OrderStatus, OrderAttempts>>
    /\ \A c \in Children : Unreconcilable(c) => Unreconcilable(c)'

LEMMA StatusDetermined ==
    ASSUME NEW c, order'[c].issued = order[c].issued, order'[c].attempts = order[c].attempts,
           order'[c].last.outcome = order[c].last.outcome
    PROVE  Status(c)' = Status(c) /\ Active(c)' = Active(c)
BY DEF Status, Active, Last

LEMMA StatusesKept ==
    ASSUME \A c \in Children : Status(c)' = Status(c) /\ order'[c].attempts = order[c].attempts
    PROVE  UNCHANGED <<OrderStatus, OrderAttempts>>
BY DEF OrderStatus, OrderAttempts

(* A step beside the work orders.                                          *)
LEMMA BesideOrders ==
    ASSUME OrdersInv, UNCHANGED <<order, writers>>, cancelled => cancelled', up' \subseteq up
    PROVE  OrdersStep
<1>1. \A c : Status(c)' = Status(c) /\ Active(c)' = Active(c) /\ Last(c)' = Last(c)
  BY DEF Status, Active, Last
<1>2. OrdersInv'
  BY DEF OrdersInv, OrderOK, Last
<1>3. UNCHANGED <<OrderStatus, OrderAttempts>>
  BY <1>1, StatusesKept
<1>4. ASSUME NEW c \in Children, Unreconcilable(c) PROVE Unreconcilable(c)'
  BY <1>1, <1>4 DEF Unreconcilable
<1> QED BY <1>2, <1>3, <1>4 DEF OrdersStep

LEMMA OrderFields ==
    ASSUME OrdersInv, NEW c \in Children
    PROVE  /\ order[c] \in Order /\ order[c].runtime \in Runtimes /\ order[c].attempts \in Nat
           /\ order[c].attempts <= MaxAttempts /\ order[c].issued \in BOOLEAN
           /\ order[c].last = Last(c) /\ Last(c) \in Attempt /\ AttemptOK(Last(c)) /\ writers[c] \subseteq Runtimes
           /\ order[c].attempts > 0 => Bound(Last(c), order[c].runtime, writers[c])
           /\ ~order[c].issued => order[c].attempts = 0
<1>1. order[c] \in Order /\ OrderOK(c) /\ writers[c] \subseteq Runtimes
  BY DEF OrdersInv
<1> QED BY <1>1, Limits DEF OrderOK, Order, Last, AttemptOK

(* A work order with an attempt under way is Running.                      *)
LEMMA ActiveIsRunning ==
    ASSUME OrdersInv, NEW c \in Children, Active(c) PROVE Status(c) = "Running" /\ order[c].issued
<1>1. order[c].issued /\ order[c].attempts # 0
  BY OrderFields DEF Active
<1> QED BY <1>1 DEF Active, Status, None

(* The other work orders do not notice.                                    *)
LEMMA OthersKept ==
    ASSUME OrdersInv, NEW c \in Children, NEW o, order' = [order EXCEPT ![c] = o],
           NEW w, writers' = [writers EXCEPT ![c] = w], UNCHANGED <<cancelled, up>>, NEW d \in Children, d # c
    PROVE  /\ order'[d] = order[d] /\ OrderOK(d)' /\ Status(d)' = Status(d)
           /\ Unreconcilable(d) => Unreconcilable(d)'
<1>1. order'[d] = order[d] /\ writers'[d] = writers[d]
  BY DEF OrdersInv
<1>2. OrderOK(d)'
  BY <1>1 DEF OrdersInv, OrderOK, Last
<1>3. Status(d)' = Status(d) /\ Active(d)' = Active(d) /\ Last(d)' = Last(d)
  BY <1>1 DEF Status, Active, Last
<1> QED BY <1>1, <1>2, <1>3 DEF Unreconcilable

(* An event of an open attempt that leaves it open.                        *)
LEMMA PutStep ==
    ASSUME OrdersInv, NEW r \in Runtimes, NEW c \in Children, Active(c), order[c].runtime = r,
           NEW b, Follows(Last(c), b, r), Put(c, b), WrittenBy(c, r), UNCHANGED <<cancelled, up>>,
           ~Unreconcilable(c)
    PROVE  OrdersStep
<1> DEFINE o == [order[c] EXCEPT !.last = b]
           w == writers[c] \cup {r}
           a == Last(c)
<1>1. /\ order[c] \in Order /\ order[c].attempts > 0 /\ AttemptOK(a) /\ a.outcome = None /\ a \in Attempt
      /\ writers[c] \subseteq Runtimes /\ Bound(a, r, writers[c])
  BY OrderFields DEF Active
<1>2. order \in [Children -> Order] /\ writers \in [Children -> SUBSET Runtimes]
  BY DEF OrdersInv
<1>3. order' = [order EXCEPT ![c] = o] /\ writers' = [writers EXCEPT ![c] = w]
  BY DEF Put, WrittenBy
<1>4. /\ o \in Order /\ o.last = b /\ o.attempts = order[c].attempts /\ o.issued = order[c].issued
      /\ o.runtime = r
  BY <1>1 DEF Order, Follows, AttemptOK
<1>5. w \in SUBSET Runtimes
  BY <1>1
<1>6. Bound(b, r, w)
  <2>1. ClockAccepts(b, r)
    BY <1>1 DEF Bound, ClockAccepts, Follows
  <2>2. b.contiguous => w = {r}
    BY <1>1 DEF Bound, Follows
  <2> QED BY <2>1, <2>2 DEF Bound, Follows
<1> HIDE DEF o, w, a
<1>7. order'[c] = o /\ writers'[c] = w /\ order' \in [Children -> Order] /\ writers' \in [Children -> SUBSET Runtimes]
  BY <1>2, <1>3, <1>4, <1>5
<1>8. OrderOK(c)'
  BY <1>1, <1>4, <1>6, <1>7, OrderFields DEF OrderOK, Last, Follows
<1>9. Status(c)' = Status(c) /\ order'[c].attempts = order[c].attempts
  BY <1>1, <1>4, <1>7, StatusDetermined DEF Follows, Last, a
<1>10. \A d \in Children : d # c => /\ order'[d] = order[d] /\ OrderOK(d)' /\ Status(d)' = Status(d)
                                    /\ Unreconcilable(d) => Unreconcilable(d)'
  BY <1>3, OthersKept
<1>11. OrdersInv'
  BY <1>7, <1>8, <1>10 DEF OrdersInv
<1>12. UNCHANGED <<OrderStatus, OrderAttempts>>
  BY <1>9, <1>10, StatusesKept
<1> QED BY <1>10, <1>11, <1>12 DEF OrdersStep

(* The status of one work order changes, and nothing else.                 *)
LEMMA StatusesMove ==
    ASSUME OrdersInv, NEW c \in Children, NEW v, NEW n, Status(c)' = v, order'[c].attempts = n,
           \A d \in Children : d # c => order'[d] = order[d] /\ Status(d)' = Status(d)
    PROVE  /\ OrderStatus' = [OrderStatus EXCEPT ![c] = v]
           /\ OrderAttempts' = [OrderAttempts EXCEPT ![c] = n]
BY DEF OrderStatus, OrderAttempts

LEMMA StartOrders == ASSUME OrdersInv, NEW r \in Runtimes, NEW c \in Children, StartAttempt(r, c) PROVE OrdersStep
<1> DEFINE n == order[c].attempts + 1
           b == NewAttempt(r)
           o == [order[c] EXCEPT !.attempts = n, !.last = b]
           w == {r}
<1>1. /\ ~cancelled /\ order[c].runtime = r /\ order[c].issued /\ UNCHANGED <<cancelled, up>>
      /\ Status(c) \in {"Issued", "Retryable"}
  BY DEF StartAttempt, Admitted, authority, process
<1>2. /\ order[c] \in Order /\ order[c].attempts \in Nat /\ order \in [Children -> Order]
      /\ writers \in [Children -> SUBSET Runtimes]
  BY OrderFields DEF OrdersInv
<1>3. order[c].attempts < MaxAttempts
  <2>1. CASE order[c].attempts = 0
    BY <2>1, Limits
  <2>2. CASE order[c].attempts # 0
    <3>1. Last(c).outcome \in {None} \cup Outcomes
      BY OrderFields DEF Attempt
    <3> QED BY <1>1, <2>2, <3>1 DEF Status, Outcomes, None
  <2> QED BY <2>1, <2>2
<1>4. AttemptOK(b) /\ b.outcome = None /\ b.tail = r /\ b.pending = None /\ b \in Attempt
  BY NewAttemptOK DEF AttemptOK
<1>5. order' = [order EXCEPT ![c] = o] /\ writers' = [writers EXCEPT ![c] = w]
  BY DEF StartAttempt
<1>6. PICK m \in 0..MaxAttempts : m = n /\ m > 0
  BY <1>2, <1>3, Limits
<1>7. o = [order[c] EXCEPT !.attempts = m, !.last = b]
  BY <1>6
<1> HIDE DEF o, b, n
<1>8. o \in Order /\ o.last = b /\ o.attempts = m /\ o.issued = order[c].issued /\ o.runtime = r
  BY <1>1, <1>2, <1>4, <1>7 DEF Order
<1>9. Bound(b, r, w)
  BY <1>4 DEF Bound, ClockAccepts, None
<1>10. order'[c] = o /\ writers'[c] = w /\ order' \in [Children -> Order] /\ writers' \in [Children -> SUBSET Runtimes]
  BY <1>2, <1>5, <1>8
<1>11. OrderOK(c)'
  BY <1>1, <1>4, <1>8, <1>9, <1>10 DEF OrderOK, Last
<1>12. Status(c)' = "Running"
  <2>1. order'[c].attempts # 0 /\ order'[c].last.outcome = None
    BY <1>4, <1>6, <1>8, <1>10
  <2>2. order'[c].issued
    <3>1. order'[c].issued = order[c].issued
      BY <1>8, <1>10
    <3> QED BY <1>1, <3>1
  <2> QED BY <2>1, <2>2 DEF Status, Last, None
<1>13. \A d \in Children : d # c => /\ order'[d] = order[d] /\ OrderOK(d)' /\ Status(d)' = Status(d)
  BY <1>1, <1>5, OthersKept
<1>14. OrdersInv'
  BY <1>10, <1>11, <1>13 DEF OrdersInv
<1>15. OrderStatus' = [OrderStatus EXCEPT ![c] = "Running"] /\ OrderAttempts' = [OrderAttempts EXCEPT ![c] = n]
  BY <1>6, <1>8, <1>10, <1>12, <1>13, StatusesMove
<1>16. OrderStatus[c] = Status(c) /\ OrderAttempts[c] = order[c].attempts
  BY DEF OrderStatus, OrderAttempts
<1>17. Orders!Begin(c)
  BY <1>1, <1>3, <1>15, <1>16 DEF Orders!Begin, OrderStatus, OrderAttempts, n
<1> QED BY <1>1, <1>14, <1>17 DEF OrdersStep, Orders!OrderNext, Unreconcilable

LEMMA FinishOrders == ASSUME OrdersInv, NEW r \in Runtimes, NEW c \in Children, FinishAttempt(r, c) PROVE OrdersStep
<1>1. PICK outcome \in Outcomes, cause \in {"Model", "Tool", "Runtime"} :
          /\ Admitted(r, c, outcome = "Cancelled")
          /\ CanFinish(Last(c), r, outcome, cause, cancelled)
          /\ Put(c, Finished(Last(c), r, outcome))
  BY DEF FinishAttempt
<1> DEFINE a == Last(c)
           b == Finished(a, r, outcome)
           o == [order[c] EXCEPT !.last = b]
           w == writers[c] \cup {r}
           v == CASE outcome = "FailedRequiresNewAttempt" ->
                       IF order[c].attempts < MaxAttempts THEN "Retryable" ELSE "Failed"
                  [] outcome = "FailedNever" -> "Failed"
                  [] OTHER -> outcome
<1>2. Active(c) /\ WrittenBy(c, r) /\ UNCHANGED <<cancelled, up>> /\ order[c].runtime = r /\ order[c].issued
  BY <1>1 DEF FinishAttempt, Admitted, authority, process
<1>3. /\ order[c] \in Order /\ order[c].attempts > 0 /\ AttemptOK(a) /\ order[c].attempts \in Nat
      /\ writers[c] \subseteq Runtimes /\ Bound(a, r, writers[c])
      /\ order \in [Children -> Order] /\ writers \in [Children -> SUBSET Runtimes]
  BY <1>2, OrderFields DEF Active, OrdersInv
<1>4. Status(c) = "Running"
  BY <1>2, ActiveIsRunning
<1>5. ~Unreconcilable(c)
  <2>1. a.pending = None
    BY <1>1 DEF CanFinish, Idle
  <2>2. cancelled => ~a.handoff
    BY <1>1 DEF CanFinish, Admitted
  <2>3. r \in up
    BY <1>1 DEF Admitted
  <2> QED BY <1>2, <1>4, <2>1, <2>2, <2>3 DEF Unreconcilable, None
<1>6. AttemptOK(b) /\ b.outcome = outcome /\ b.contiguous = a.contiguous /\ b \in Attempt
  BY <1>3, FinishedOK DEF AttemptOK
<1>7. order' = [order EXCEPT ![c] = o] /\ writers' = [writers EXCEPT ![c] = w]
  BY <1>1, <1>2 DEF Put, WrittenBy
<1>8. outcome # None
  BY DEF Outcomes, None
<1>9. Bound(b, r, w)
  BY <1>3, <1>6, <1>8 DEF Bound
<1>10. w \in SUBSET Runtimes
  BY <1>3
<1> HIDE DEF b, a, w
<1>11. o \in Order /\ o.last = b /\ o.attempts = order[c].attempts /\ o.issued = order[c].issued /\ o.runtime = r
  BY <1>2, <1>3, <1>6 DEF Order
<1> HIDE DEF o
<1>12. order'[c] = o /\ writers'[c] = w /\ order' \in [Children -> Order] /\ writers' \in [Children -> SUBSET Runtimes]
  BY <1>3, <1>7, <1>10, <1>11
<1>13. OrderOK(c)'
  BY <1>2, <1>6, <1>9, <1>11, <1>12 DEF OrderOK, Last
<1>14. Status(c)' = v
  <2>1. /\ order'[c].attempts # 0 /\ order'[c].attempts = order[c].attempts
        /\ order'[c].last.outcome = outcome
    BY <1>3, <1>6, <1>11, <1>12
  <2>2. order'[c].issued
    <3>1. order'[c].issued = order[c].issued
      BY <1>11, <1>12
    <3> QED BY <1>2, <3>1
  <2> QED BY <1>8, <2>1, <2>2 DEF Status, Last, None
<1>15. \A d \in Children : d # c => /\ order'[d] = order[d] /\ OrderOK(d)' /\ Status(d)' = Status(d)
                                    /\ Unreconcilable(d) => Unreconcilable(d)'
  BY <1>2, <1>7, OthersKept
<1>16. OrdersInv'
  BY <1>12, <1>13, <1>15 DEF OrdersInv
<1>17. v \in {"Succeeded", "Failed", "Cancelled", "Retryable"} /\ (v = "Retryable" => order[c].attempts < MaxAttempts)
  BY DEF Outcomes
<1> HIDE DEF v
<1>18. OrderStatus' = [OrderStatus EXCEPT ![c] = v] /\ OrderAttempts' = [OrderAttempts EXCEPT ![c] = order[c].attempts]
  BY <1>11, <1>12, <1>14, <1>15, StatusesMove
<1>19. OrderStatus[c] = Status(c) /\ OrderAttempts[c] = order[c].attempts /\ UNCHANGED OrderAttempts
  BY <1>18 DEF OrderStatus, OrderAttempts
<1>20. v \in Orders!Ended \cup {"Retryable"} /\ Orders!End(c, v)
  BY <1>4, <1>17, <1>18, <1>19 DEF Orders!End, Orders!Ended, OrderStatus, OrderAttempts
<1> QED BY <1>5, <1>15, <1>16, <1>20 DEF OrdersStep, Orders!OrderNext

(* A claim refresh adopts a work order.                                    *)
LEMMA AdoptOK ==
    ASSUME OrdersInv, ClaimInv, NEW r \in Runtimes, NEW c \in Children, claim.generation < MaxClaims,
           AdoptionFits(c, r)
    PROVE  LET o == Adopt(c, r) IN
           /\ o \in Order /\ o.issued = order[c].issued /\ o.attempts = order[c].attempts /\ o.runtime = r
           /\ o.last.outcome = Last(c).outcome /\ AttemptOK(o.last)
           /\ o.attempts > 0 => Bound(o.last, r, writers[c])
<1> DEFINE o == Adopt(c, r)
           a == Last(c)
           renewal == order[c].runtime = r
           contiguous == renewal /\ LiveFor(c)
           b == IF order[c].attempts = 0 THEN a ELSE Adopted(a, contiguous)
<1>1. /\ order[c] \in Order /\ order[c].attempts \in Nat /\ order[c].last = a /\ AttemptOK(a)
      /\ order[c].adoptions \in Nat /\ order[c].takeovers \in 0..MaxTakeovers
      /\ order[c].attempts > 0 => Bound(a, order[c].runtime, writers[c])
  BY OrderFields, Limits DEF Order
<1>2. PICK g \in 0..MaxClaims : g = claim.generation + 1
  BY Limits DEF ClaimInv
<1>3. PICK n \in 0..MaxAdoptions : n = order[c].adoptions + 1
  BY <1>1, Limits DEF AdoptionFits
<1>4. PICK t \in 0..MaxTakeovers : t = IF renewal THEN order[c].takeovers ELSE order[c].takeovers + 1
  BY <1>1, Limits DEF AdoptionFits
<1>5. contiguous \in BOOLEAN
  OBVIOUS
<1>6. o = [order[c] EXCEPT !.bound = g, !.runtime = r, !.adoptions = n, !.takeovers = t, !.last = b]
  BY <1>1, <1>2, <1>3, <1>4 DEF Adopt
<1>7. contiguous => order[c].runtime = r
  OBVIOUS
<1> HIDE DEF o, a, contiguous, renewal
<1>8. LET d == Adopted(a, contiguous) IN
           /\ AttemptOK(d) /\ d.outcome = a.outcome /\ d.tail = a.tail /\ d.pending = a.pending
           /\ d.preparedBy = a.preparedBy
           /\ contiguous => d = a
           /\ ~contiguous => d.incomparable /\ ~d.contiguous /\ (a.pending # None => d.requiresUnknown)
  BY <1>1, <1>5, AdoptedOK
<1>9. AttemptOK(b) /\ b.outcome = a.outcome /\ b \in Attempt
  BY <1>1, <1>8 DEF AttemptOK
<1>10. order[c].attempts > 0 => Bound(b, r, writers[c])
  <2> SUFFICES ASSUME order[c].attempts > 0 PROVE Bound(b, r, writers[c])
    OBVIOUS
  <2>1. b = Adopted(a, contiguous)
    BY <1>1
  <2>2. CASE contiguous
    BY <1>1, <1>7, <1>8, <2>1, <2>2
  <2>3. CASE ~contiguous
    <3> HIDE DEF b
    <3>1. b.incomparable /\ ~b.contiguous /\ (a.pending # None => b.requiresUnknown) /\ b.pending = a.pending
      BY <1>8, <2>1, <2>3
    <3> QED BY <3>1 DEF Bound, ClockAccepts, None
  <2> QED BY <2>2, <2>3
<1> HIDE DEF b
<1>11. /\ o \in Order /\ o.issued = order[c].issued /\ o.attempts = order[c].attempts /\ o.runtime = r
       /\ o.last = b
  BY <1>1, <1>6, <1>9 DEF Order
<1> QED BY <1>9, <1>10, <1>11 DEF o, a

LEMMA RefreshOrders ==
    ASSUME OrdersInv, ClaimInv, NEW r \in Runtimes, RefreshClaim(r) PROVE OrdersStep
<1>1. /\ ~cancelled /\ claim.generation < MaxClaims /\ \A c \in NonterminalOrders : AdoptionFits(c, r)
      /\ UNCHANGED writers
      /\ order' = [c \in Children |-> IF Nonterminal(c) THEN Adopt(c, r) ELSE order[c]]
  BY DEF RefreshClaim, RefreshAllowed, history
<1>2. order \in [Children -> Order] /\ writers \in [Children -> SUBSET Runtimes] /\ \A c \in Children : OrderOK(c)
  BY DEF OrdersInv
<1>3. ASSUME NEW c \in Children
      PROVE  order'[c] \in Order /\ OrderOK(c)' /\ Status(c)' = Status(c) /\ order'[c].attempts = order[c].attempts
  <2>1. CASE Nonterminal(c)
    <3> DEFINE o == Adopt(c, r)
    <3>1. order'[c] = o /\ AdoptionFits(c, r) /\ writers'[c] = writers[c]
      BY <1>1, <2>1 DEF NonterminalOrders
    <3>2. /\ o \in Order /\ o.issued = order[c].issued /\ o.attempts = order[c].attempts /\ o.runtime = r
          /\ o.last.outcome = Last(c).outcome /\ AttemptOK(o.last)
          /\ o.attempts > 0 => Bound(o.last, r, writers[c])
      BY <1>1, <3>1, AdoptOK
    <3> HIDE DEF o
    <3>3. OrderOK(c)'
      <4>1. ~order'[c].issued => order'[c].attempts = 0
        BY <1>2, <3>1, <3>2 DEF OrderOK
      <4> QED BY <3>1, <3>2, <4>1 DEF OrderOK, Last
    <3>4. Status(c)' = Status(c)
      BY <3>1, <3>2, StatusDetermined DEF Last
    <3> QED BY <3>1, <3>2, <3>3, <3>4
  <2>2. CASE ~Nonterminal(c)
    <3>1. order'[c] = order[c] /\ writers'[c] = writers[c]
      BY <1>1, <2>2
    <3>2. OrderOK(c)'
      BY <1>2, <3>1 DEF OrderOK, Last
    <3> QED BY <1>2, <3>1, <3>2, StatusDetermined
  <2> QED BY <2>1, <2>2
<1>4. OrdersInv'
  <2>1. order' \in [Children -> Order]
    BY <1>1, <1>3
  <2> QED BY <1>1, <1>2, <1>3, <2>1 DEF OrdersInv
<1>5. UNCHANGED <<OrderStatus, OrderAttempts>>
  BY <1>3, StatusesKept
<1> QED BY <1>1, <1>4, <1>5 DEF OrdersStep, Unreconcilable

LEMMA UnissuedOrder ==
    /\ Unissued \in Order /\ Unissued.attempts = 0 /\ Unissued.issued = FALSE /\ AttemptOK(Unissued.last)
    /\ AnyRuntime \in Runtimes
<1>1. AnyRuntime \in Runtimes
  BY SomeAssumption DEF AnyRuntime
<1> DEFINE b == NewAttempt(AnyRuntime)
<1>2. AttemptOK(b) /\ b \in Attempt
  BY <1>1, NewAttemptOK DEF AttemptOK
<1>3. 0 \in 0..MaxClaims /\ 0 \in 0..MaxAdoptions /\ 0 \in 0..MaxTakeovers /\ 0 \in 0..MaxAttempts
  BY Limits
<1> HIDE DEF b
<1>4. Unissued = [issued |-> FALSE, bound |-> 0, runtime |-> AnyRuntime, adoptions |-> 0, takeovers |-> 0,
                  attempts |-> 0, last |-> b]
  BY DEF Unissued, b
<1> QED BY <1>1, <1>2, <1>3, <1>4 DEF Order

LEMMA IssueStep == ASSUME OrdersInv, ClaimInv, NEW r \in Runtimes, IssueOrders(r) PROVE OrdersStep
<1> DEFINE o == [Unissued EXCEPT !.issued = TRUE, !.bound = claim.generation, !.runtime = r]
<1>1. /\ ~cancelled /\ UNCHANGED writers /\ \A c \in Children : ~order[c].issued
      /\ order' = [c \in Children |-> o]
  BY DEF IssueOrders, history
<1>2. /\ Unissued \in Order /\ Unissued.attempts = 0 /\ AttemptOK(Unissued.last) /\ claim.generation \in 0..MaxClaims
  BY UnissuedOrder DEF ClaimInv
<1>3. o \in Order /\ o.attempts = 0 /\ o.issued = TRUE /\ o.last = Unissued.last
  BY <1>2 DEF Order
<1> HIDE DEF o
<1>4. \A c \in Children : order'[c] = o
  BY <1>1
<1>5. \A c \in Children : Status(c) = "Unissued" /\ Status(c)' = "Issued" /\ order[c].attempts = order'[c].attempts
  <2> TAKE c \in Children
  <2>1. ~order[c].issued /\ order[c].attempts = 0 /\ order'[c].attempts = 0 /\ order'[c].issued
    BY <1>1, <1>3, <1>4, OrderFields
  <2> QED BY <2>1 DEF Status
<1>6. OrdersInv'
  <2>1. order' \in [Children -> Order]
    BY <1>1, <1>3
  <2>2. \A c \in Children : OrderOK(c)'
    BY <1>2, <1>3, <1>4 DEF OrderOK, Last
  <2> QED BY <1>1, <2>1, <2>2 DEF OrdersInv
<1>7. Orders!IssueAll
  <2>1. \A c \in Children : OrderStatus[c] = "Unissued"
    BY <1>5 DEF OrderStatus
  <2>2. OrderStatus' = [c \in Children |-> "Issued"]
    BY <1>5 DEF OrderStatus
  <2>3. UNCHANGED OrderAttempts
    BY <1>5 DEF OrderAttempts
  <2> QED BY <2>1, <2>2, <2>3 DEF Orders!IssueAll, OrderStatus, OrderAttempts
<1> QED BY <1>1, <1>6, <1>7 DEF OrdersStep, Orders!OrderNext, Unreconcilable

(* What a runtime that may still write to an open attempt finds there.     *)
LEMMA NotStranded ==
    ASSUME OrdersInv, NEW r \in Runtimes, NEW c \in Children, NEW reconciles, Admitted(r, c, reconciles), Active(c),
           cancelled => /\ Last(c).pending # None
                        /\ Last(c).pending = "model" => Last(c).preparedBy = r
    PROVE  ~Unreconcilable(c) /\ order[c].runtime = r
<1>1. order[c].runtime = r /\ r \in up
  BY DEF Admitted
<1>2. Status(c) = "Running" /\ AttemptOK(Last(c))
  BY ActiveIsRunning, OrderFields
<1>3. cancelled => ~Last(c).handoff
  BY <1>2 DEF AttemptOK
<1> QED BY <1>1, <1>2, <1>3 DEF Unreconcilable

LEMMA PrepareModelOrders ==
    ASSUME OrdersInv, NEW r \in Runtimes, NEW c \in Children, PrepareModel(r, c) PROVE OrdersStep
<1>1. /\ ~cancelled /\ Active(c) /\ CanPrepareModel(Last(c), r) /\ Put(c, ModelPrepared(Last(c), r))
      /\ WrittenBy(c, r) /\ UNCHANGED <<cancelled, up>> /\ Admitted(r, c, FALSE)
  BY DEF PrepareModel, Admitted, authority, process
<1>2. ~Unreconcilable(c) /\ order[c].runtime = r
  BY <1>1, NotStranded
<1>3. Follows(Last(c), ModelPrepared(Last(c), r), r)
  BY <1>1, OrderFields, ModelPreparedFollows
<1> QED BY <1>1, <1>2, <1>3, PutStep

LEMMA ObserveModelOrders ==
    ASSUME OrdersInv, NEW r \in Runtimes, NEW c \in Children, ObserveModel(r, c) PROVE OrdersStep
<1>1. Active(c) /\ CanObserveModel(Last(c)) /\ WrittenBy(c, r) /\ UNCHANGED <<cancelled, up>> /\ AttemptOK(Last(c))
  BY OrderFields DEF ObserveModel, authority, process
<1>2. PICK reconciles \in BOOLEAN : Admitted(r, c, reconciles)
  BY DEF ObserveModel
<1>3. Last(c).pending = "model" /\ Last(c).preparedBy = r
  <2>1. order[c].attempts > 0 /\ Last(c).outcome = None /\ Last(c).pending = "model" /\ ~Last(c).requiresUnknown
    BY <1>1 DEF Active, CanObserveModel
  <2>2. order[c].runtime = r
    BY <1>2 DEF Admitted
  <2> QED BY <2>1, <2>2, OrderFields DEF Bound
<1>4. ~Unreconcilable(c) /\ order[c].runtime = r
  BY <1>1, <1>2, <1>3, NotStranded DEF None
<1>5. PICK b : Put(c, b) /\ Follows(Last(c), b, r)
  <2>1. CASE \E action \in {"tool", "finish"} : Put(c, ModelSucceeded(Last(c), r, action))
    BY <1>1, <2>1, ModelSucceededFollows
  <2>2. CASE \E retry \in Retries : Put(c, ModelFailed(Last(c), r, retry))
    BY <1>1, <2>2, ModelFailedFollows
  <2> QED BY <2>1, <2>2 DEF ObserveModel
<1> QED BY <1>1, <1>4, <1>5, PutStep

LEMMA ReconcileModelOrders ==
    ASSUME OrdersInv, NEW r \in Runtimes, NEW c \in Children, ReconcileModel(r, c) PROVE OrdersStep
<1>1. /\ Active(c) /\ CanModelBeUnknown(Last(c), r, cancelled) /\ WrittenBy(c, r) /\ UNCHANGED <<cancelled, up>>
      /\ AttemptOK(Last(c)) /\ Admitted(r, c, TRUE)
  BY OrderFields DEF ReconcileModel, authority, process
<1>2. ~Unreconcilable(c) /\ order[c].runtime = r
  BY <1>1, NotStranded DEF CanModelBeUnknown, None
<1>3. PICK b : Put(c, b) /\ Follows(Last(c), b, r)
  BY <1>1, ModelUnknownFollows DEF ReconcileModel
<1> QED BY <1>1, <1>2, <1>3, PutStep

LEMMA CommitHandoffOrders ==
    ASSUME OrdersInv, NEW r \in Runtimes, NEW c \in Children, CommitHandoff(r, c) PROVE OrdersStep
<1>1. /\ ~cancelled /\ Active(c) /\ CanCommitHandoff(Last(c)) /\ Put(c, HandoffCommitted(Last(c)))
      /\ WrittenBy(c, r) /\ UNCHANGED <<cancelled, up>> /\ Admitted(r, c, FALSE)
  BY DEF CommitHandoff, Admitted, authority, process
<1>2. ~Unreconcilable(c) /\ order[c].runtime = r
  BY <1>1, NotStranded
<1>3. Follows(Last(c), HandoffCommitted(Last(c)), r)
  BY <1>1, OrderFields, HandoffCommittedFollows
<1> QED BY <1>1, <1>2, <1>3, PutStep

(* The call a prepared tool gets is one of its broker.                     *)
LEMMA NextCallOK ==
    ASSUME LaneInv, epoch.broker > 0, epoch.calls < MaxCallsPerBroker
    PROVE  NextCall \in Calls /\ ~Given(NextCall, epoch) /\ NextCall.broker = epoch.broker
                             /\ NextCall.sequence = epoch.calls + 1
<1>1. epoch.broker \in 0..MaxEpochs /\ epoch.calls \in 0..MaxCallsPerBroker
  BY DEF LaneInv
<1>2. PICK n \in 1..MaxCallsPerBroker : n = epoch.calls + 1
  BY <1>1, Limits
<1>3. epoch.broker \in 1..MaxEpochs
  BY <1>1, Limits
<1>4. NextCall = [broker |-> epoch.broker, sequence |-> n]
  BY <1>2 DEF NextCall
<1>5. NextCall \in Calls
  BY <1>3, <1>4 DEF Calls
<1> QED BY <1>1, <1>2, <1>4, <1>5, Limits DEF Given

LEMMA PrepareToolOrders ==
    ASSUME OrdersInv, LaneInv, NEW r \in Runtimes, NEW c \in Children, PrepareTool(r, c) PROVE OrdersStep
<1>1. /\ ~cancelled /\ Active(c) /\ CanPrepareTool(Last(c), r, NextCall) /\ UNCHANGED <<cancelled, up>>
      /\ Admitted(r, c, FALSE) /\ epoch.broker > 0 /\ epoch.calls < MaxCallsPerBroker
  BY DEF PrepareTool, Admitted
<1>2. CASE Put(c, ToolPrepared(Last(c), r, NextCall)) /\ WrittenBy(c, r)
  <2>1. ~Unreconcilable(c) /\ order[c].runtime = r
    BY <1>1, NotStranded
  <2>2. Follows(Last(c), ToolPrepared(Last(c), r, NextCall), r)
    BY <1>1, OrderFields, NextCallOK, ToolPreparedFollows
  <2> QED BY <1>1, <1>2, <2>1, <2>2, PutStep
<1>3. CASE UNCHANGED <<order, writers>>
  BY <1>1, <1>3, BesideOrders
<1> QED BY <1>2, <1>3 DEF PrepareTool

LEMMA StartDispatchOrders ==
    ASSUME OrdersInv, NEW r \in Runtimes, NEW c \in Children, StartDispatch(r, c) PROVE OrdersStep
<1>1. /\ ~cancelled /\ Active(c) /\ Put(c, DispatchStarted(Last(c), r)) /\ WrittenBy(c, r)
      /\ UNCHANGED <<cancelled, up>> /\ Admitted(r, c, FALSE)
      /\ CanStartDispatch(Last(c), r, hand[<<r, c>>].call)
  BY DEF StartDispatch, StartAdmitted, Admitted, authority
<1>2. ~Unreconcilable(c) /\ order[c].runtime = r
  BY <1>1, NotStranded
<1>3. Follows(Last(c), DispatchStarted(Last(c), r), r)
  BY <1>1, OrderFields, DispatchStartedFollows
<1> QED BY <1>1, <1>2, <1>3, PutStep

LEMMA CommitObservationOrders ==
    ASSUME OrdersInv, NEW r \in Runtimes, NEW c \in Children, CommitObservation(r, c) PROVE OrdersStep
<1>1. /\ Active(c) /\ WrittenBy(c, r) /\ UNCHANGED <<cancelled, up>> /\ Admitted(r, c, TRUE)
      /\ Last(c).outcome = None /\ Last(c).pending = "started" /\ PendingTool(Last(c))
  BY DEF CommitObservation, CanObserveTool, PendingTool, authority
<1>2. ~Unreconcilable(c) /\ order[c].runtime = r
  BY <1>1, NotStranded DEF None
<1>3. PICK failed \in BOOLEAN : Put(c, ToolObserved(Last(c), r, failed))
  BY DEF CommitObservation
<1>4. Follows(Last(c), ToolObserved(Last(c), r, failed), r)
  BY <1>1, OrderFields, ToolObservedFollows
<1> QED BY <1>1, <1>2, <1>3, <1>4, PutStep

LEMMA ReconcileToolOrders ==
    ASSUME OrdersInv, NEW r \in Runtimes, NEW c \in Children, ReconcileTool(r, c) PROVE OrdersStep
<1>1. PICK timing \in {"BrokerRecorded", "RuntimeReconciled"} :
          /\ CanToolBeUnknown(Last(c), r, timing, epoch.broker)
          /\ Put(c, ToolUnknown(Last(c), r, timing))
  BY DEF ReconcileTool
<1>2. /\ Active(c) /\ WrittenBy(c, r) /\ UNCHANGED <<cancelled, up>> /\ Admitted(r, c, TRUE)
      /\ Last(c).pending \in {"prepared", "started"}
  BY <1>1 DEF ReconcileTool, CanToolBeUnknown, PendingTool, authority, process
<1>3. ~Unreconcilable(c) /\ order[c].runtime = r
  BY <1>2, NotStranded DEF None
<1>4. Follows(Last(c), ToolUnknown(Last(c), r, timing), r)
  BY <1>1, OrderFields, ToolUnknownFollows
<1> QED BY <1>1, <1>2, <1>3, <1>4, PutStep

-----------------------------------------------------------------------------
(* The lane.                                                               *)

LEMMA LaneKept == ASSUME LaneInv, UNCHANGED <<epoch, up, tainted, hand, ran, repeated, observed>> PROVE LaneInv'
BY DEF LaneInv, Given

LEMMA HandShape ==
    /\ NoHand \in Hands /\ NoHand.kind = None
    /\ \A v \in Hands : v # NoHand => v.kind # None /\ v.call \in Calls
    /\ \A kind \in {"dispatch", "execution", "cleared", "observed"}, x \in Calls :
          LET v == [kind |-> kind, call |-> x] IN v \in Hands /\ v.kind = kind /\ v.call = x /\ v.kind # None
<1>1. NoHand \in Hands /\ NoHand.kind = None
  BY DEF Hands, NoHand
<1>2. \A v \in Hands : v # NoHand => v.kind # None /\ v.call \in Calls
  BY DEF Hands, None
<1>3. \A kind \in {"dispatch", "execution", "cleared", "observed"}, x \in Calls :
          LET v == [kind |-> kind, call |-> x] IN v \in Hands /\ v.kind = kind /\ v.call = x /\ v.kind # None
  BY DEF Hands, None
<1> QED BY <1>1, <1>2, <1>3

(* A holder gives its right up, or passes it on to the next stage; the    *)
(* call may have been run on the way.                                      *)
LEMMA LaneMove ==
    ASSUME LaneInv, NEW h \in Runtimes \X Children, hand[h].kind # None,
           NEW v \in Hands, hand' = [hand EXCEPT ![h] = v],
           UNCHANGED <<epoch, up>>, tainted' \in {tainted, tainted \cup {hand[h].call.broker}},
           ran' \in {ran, ran \cup {hand[h].call}}, repeated' = FALSE, observed' \subseteq ran',
           \/ v = NoHand
           \/ v.kind # None /\ v.call = hand[h].call /\ (v.kind = "observed" <=> hand[h].call \in ran')
    PROVE  LaneInv'
<1> DEFINE x == hand[h].call
           H == Runtimes \X Children
<1>1. /\ hand \in [H -> Hands] /\ ran \subseteq Calls /\ \A y \in ran : Given(y, epoch)
      /\ \A g \in H : hand[g].kind # None =>
            /\ Given(hand[g].call, epoch)
            /\ hand[g].kind = "observed" <=> hand[g].call \in ran
            /\ \A k \in H : hand[k].kind # None /\ hand[k].call = hand[g].call => k = g
  BY DEF LaneInv
<1>2. x \in Calls /\ Given(x, epoch)
  <2>1. hand[h] \in Hands
    BY <1>1
  <2> QED BY <1>1, <2>1, HandShape
<1>3. x.broker \in 1..MaxEpochs
  BY <1>2 DEF Calls
<1> HIDE DEF H, x
<1>4. hand' \in [H -> Hands] /\ hand'[h] = v /\ \A g \in H : g # h => hand'[g] = hand[g]
  BY <1>1 DEF H
<1>5. ran' \subseteq Calls /\ \A y \in ran' : Given(y, epoch)
  BY <1>1, <1>2 DEF x
<1>6. epoch' = epoch
  OBVIOUS
<1>7. ASSUME NEW g \in H, hand'[g].kind # None
      PROVE  /\ hand[g].kind # None /\ hand'[g].call = hand[g].call
             /\ hand'[g].kind = "observed" <=> hand[g].call \in ran'
  <2>1. CASE g = h
    BY <1>4, <1>7, <2>1, HandShape
  <2>2. CASE g # h
    <3>1. hand'[g] = hand[g] /\ hand[g].call # x
      BY <1>1, <1>4, <1>7, <2>2 DEF x, H
    <3> QED BY <1>1, <1>7, <3>1 DEF x
  <2> QED BY <2>1, <2>2
<1>8. \A g \in H : hand'[g].kind # None =>
          /\ Given(hand'[g].call, epoch)
          /\ hand'[g].kind = "observed" <=> hand'[g].call \in ran'
          /\ \A k \in H : hand'[k].kind # None /\ hand'[k].call = hand'[g].call => k = g
  BY <1>1, <1>7
<1>9. /\ epoch' \in [broker : 0..MaxEpochs, runtime : Runtimes, calls : 0..MaxCallsPerBroker]
      /\ up' \subseteq Runtimes /\ tainted' \subseteq 1..MaxEpochs
  BY <1>3 DEF LaneInv, x
<1> QED BY <1>4, <1>5, <1>6, <1>8, <1>9 DEF LaneInv, H

LEMMA HeldCall ==
    ASSUME LaneInv, NEW r \in Runtimes, NEW c \in Children, hand[<<r, c>>].kind # None
    PROVE  /\ <<r, c>> \in Runtimes \X Children /\ hand[<<r, c>>].call \in Calls
           /\ (hand[<<r, c>>].kind = "observed" <=> hand[<<r, c>>].call \in ran)
<1>1. <<r, c>> \in Runtimes \X Children
  OBVIOUS
<1>2. hand[<<r, c>>] \in Hands
  BY <1>1 DEF LaneInv
<1> QED BY <1>1, <1>2, HandShape DEF LaneInv

LEMMA ActivateLane ==
    ASSUME LaneInv, ClaimInv, NEW r \in Runtimes, ActivateEpoch(r) PROVE LaneInv'
<1>1. /\ UNCHANGED <<up, tainted, hand, ran, repeated, observed>>
      /\ epoch' = [broker |-> epoch.broker + 1, runtime |-> r, calls |-> 0]
      /\ epoch.broker < claim.generation + SpareEpochs
  BY DEF ActivateEpoch, process, history
<1>2. epoch.broker \in 0..MaxEpochs /\ claim.generation \in 0..MaxClaims
  BY DEF LaneInv, ClaimInv
<1>3. PICK n \in 0..MaxEpochs : n = epoch.broker + 1
  BY <1>1, <1>2, Limits DEF MaxEpochs
<1>4. 0 \in 0..MaxCallsPerBroker
  BY Limits
<1>5. epoch' = [broker |-> n, runtime |-> r, calls |-> 0]
  BY <1>1, <1>3
<1>6. epoch' \in [broker : 0..MaxEpochs, runtime : Runtimes, calls : 0..MaxCallsPerBroker]
  BY <1>3, <1>4, <1>5
<1>7. \A y \in Calls : Given(y, epoch) => Given(y, epoch')
  <2>1. \A y \in Calls : y.broker \in Nat
    BY Limits DEF Calls
  <2>2. epoch'.broker = epoch.broker + 1 /\ epoch.broker \in Nat
    BY <1>1, <1>2, Limits
  <2> QED BY <2>1, <2>2 DEF Given
<1>8. \A h \in Runtimes \X Children : hand[h].kind # None => hand[h].call \in Calls
  BY HandShape DEF LaneInv
<1>9. /\ \A x \in ran : Given(x, epoch')
      /\ \A h \in Runtimes \X Children : hand[h].kind # None => Given(hand[h].call, epoch')
  BY <1>7, <1>8 DEF LaneInv
<1> QED BY <1>1, <1>6, <1>9 DEF LaneInv, Given

LEMMA CrashLane == ASSUME LaneInv, NEW r \in Runtimes, Crash(r) PROVE LaneInv'
<1>1. /\ UNCHANGED <<epoch, tainted, ran, repeated, observed>> /\ up' \subseteq up
      /\ hand' = [rc \in Runtimes \X Children |-> IF rc[1] = r THEN NoHand ELSE hand[rc]]
  BY DEF Crash, authority, history
<1>2. hand \in [Runtimes \X Children -> Hands]
  BY DEF LaneInv
<1>3. \A h \in Runtimes \X Children : /\ hand'[h] \in Hands
                                      /\ hand'[h].kind # None => hand'[h] = hand[h]
  BY <1>1, <1>2, HandShape
<1>4. hand' \in [Runtimes \X Children -> Hands]
  BY <1>1, <1>3
<1>5. \A h \in Runtimes \X Children : hand'[h].kind # None =>
          /\ Given(hand'[h].call, epoch)
          /\ hand'[h].kind = "observed" <=> hand'[h].call \in ran
          /\ \A k \in Runtimes \X Children : hand'[k].kind # None /\ hand'[k].call = hand'[h].call => k = h
  BY <1>3 DEF LaneInv
<1> QED BY <1>1, <1>4, <1>5 DEF LaneInv, Given

(* A prepared call is given out to one holder, and was never run.          *)
LEMMA PrepareToolLane ==
    ASSUME LaneInv, NEW r \in Runtimes, NEW c \in Children, PrepareTool(r, c) PROVE LaneInv'
<1> DEFINE x == NextCall
           H == Runtimes \X Children
           h == <<r, c>>
           v == [kind |-> "dispatch", call |-> x]
<1>1. /\ epoch.broker > 0 /\ epoch.calls < MaxCallsPerBroker /\ UNCHANGED <<up, ran, repeated, observed>>
      /\ \/ epoch' = [epoch EXCEPT !.calls = @ + 1] \/ UNCHANGED epoch
      /\ \/ UNCHANGED hand
         \/ hand' = [hand EXCEPT ![h] = v] /\ epoch' = [epoch EXCEPT !.calls = @ + 1]
      /\ tainted' \in {tainted, tainted \cup {x.broker}}
  BY DEF PrepareTool, Hold, Taint
<1>2. x \in Calls /\ ~Given(x, epoch) /\ x.broker = epoch.broker /\ x.sequence = epoch.calls + 1
  BY <1>1, NextCallOK
<1>3. /\ hand \in [H -> Hands] /\ ran \subseteq Calls /\ \A y \in ran : Given(y, epoch)
      /\ epoch \in [broker : 0..MaxEpochs, runtime : Runtimes, calls : 0..MaxCallsPerBroker]
      /\ \A g \in H : hand[g].kind # None =>
            /\ Given(hand[g].call, epoch)
            /\ hand[g].kind = "observed" <=> hand[g].call \in ran
            /\ \A k \in H : hand[k].kind # None /\ hand[k].call = hand[g].call => k = g
  BY DEF LaneInv
<1>4. PICK n \in 0..MaxCallsPerBroker : n = epoch.calls + 1
  BY <1>1, <1>3, Limits
<1>5. /\ epoch' \in [broker : 0..MaxEpochs, runtime : Runtimes, calls : 0..MaxCallsPerBroker]
      /\ epoch'.broker = epoch.broker /\ epoch'.calls \in {epoch.calls, n}
      /\ epoch' # epoch => epoch'.calls = n
  <2>1. CASE epoch' = [epoch EXCEPT !.calls = n]
    BY <1>3, <2>1
  <2>2. CASE UNCHANGED epoch
    BY <1>3, <2>2
  <2> QED BY <1>1, <1>4, <2>1, <2>2
<1>6. \A y \in Calls : Given(y, epoch) => Given(y, epoch')
  <2>1. \A y \in Calls : y.broker \in Nat /\ y.sequence \in Nat
    BY Limits DEF Calls
  <2>2. epoch'.broker = epoch.broker /\ epoch.broker \in Nat /\ epoch.calls \in Nat /\ epoch'.calls \in Nat
        /\ epoch'.calls >= epoch.calls
    BY <1>3, <1>4, <1>5, Limits
  <2> QED BY <2>1, <2>2 DEF Given
<1>7. \A g \in H : hand[g].kind # None => hand[g].call \in Calls /\ Given(hand[g].call, epoch') /\ hand[g].call # x
  BY <1>2, <1>3, <1>6, HandShape
<1>8. tainted' \subseteq 1..MaxEpochs
  <2>1. x.broker \in 1..MaxEpochs
    BY <1>2 DEF Calls
  <2> QED BY <1>1, <2>1 DEF LaneInv
<1>9. up' \subseteq Runtimes /\ ran' \subseteq Calls /\ observed' \subseteq ran' /\ repeated' = FALSE
      /\ \A y \in ran' : Given(y, epoch')
  BY <1>1, <1>3, <1>6 DEF LaneInv
<1>10. CASE UNCHANGED hand
  BY <1>1, <1>3, <1>5, <1>7, <1>8, <1>9, <1>10 DEF LaneInv
<1>11. CASE hand' = [hand EXCEPT ![h] = v] /\ epoch' = [epoch EXCEPT !.calls = @ + 1]
  <2>1. epoch'.calls = n
    BY <1>3, <1>4, <1>11
  <2>2. Given(x, epoch')
    BY <1>2, <1>4, <1>5, <2>1 DEF Given
  <2>3. x \notin ran
    BY <1>2, <1>3
  <2>4. v \in Hands /\ v.kind = "dispatch" /\ v.call = x
    BY <1>2, HandShape
  <2>5. h \in H
    OBVIOUS
  <2> HIDE DEF H, h, v, x
  <2>6. hand' \in [H -> Hands] /\ hand'[h] = v /\ \A g \in H : g # h => hand'[g] = hand[g]
    BY <1>3, <1>11, <2>4, <2>5
  <2>7. \A g \in H : hand'[g].kind # None =>
          /\ Given(hand'[g].call, epoch')
          /\ hand'[g].kind = "observed" <=> hand'[g].call \in ran
          /\ \A k \in H : hand'[k].kind # None /\ hand'[k].call = hand'[g].call => k = g
    BY <1>3, <1>7, <2>2, <2>3, <2>4, <2>6
  <2> QED BY <1>1, <1>5, <1>8, <1>9, <2>6, <2>7 DEF LaneInv, H
<1> QED BY <1>1, <1>10, <1>11

LEMMA StartDispatchLane ==
    ASSUME LaneInv, NEW r \in Runtimes, NEW c \in Children, StartDispatch(r, c) PROVE LaneInv'
<1> DEFINE h == <<r, c>>
           v == [kind |-> "execution", call |-> hand[h].call]
<1>1. /\ hand[h].kind = "dispatch" /\ UNCHANGED <<epoch, up, tainted, ran, repeated, observed>>
      /\ hand' = [hand EXCEPT ![h] = v] \/ hand' = [hand EXCEPT ![h] = NoHand]
  BY DEF StartDispatch, Hold, Release, authority
<1>2. hand[h].kind # None
  BY <1>1 DEF None
<1>3. h \in Runtimes \X Children /\ hand[h].call \in Calls /\ hand[h].call \notin ran
  BY <1>1, <1>2, HeldCall
<1>4. v \in Hands /\ v.kind = "execution" /\ v.call = hand[h].call /\ NoHand \in Hands
  BY <1>3, HandShape
<1>5. repeated' = FALSE /\ observed' \subseteq ran'
  BY <1>1 DEF LaneInv
<1> HIDE DEF h, v
<1> QED BY <1>1, <1>2, <1>3, <1>4, <1>5, LaneMove DEF None

LEMMA DropDispatchLane ==
    ASSUME LaneInv, NEW r \in Runtimes, NEW c \in Children, DropDispatch(r, c) PROVE LaneInv'
<1> DEFINE h == <<r, c>>
<1>1. /\ hand[h].kind = "dispatch" /\ UNCHANGED <<epoch, up, tainted, ran, repeated, observed>>
      /\ hand' = [hand EXCEPT ![h] = NoHand]
  BY DEF DropDispatch, Release, authority, history
<1>2. hand[h].kind # None
  BY <1>1 DEF None
<1>3. h \in Runtimes \X Children /\ NoHand \in Hands
  BY HandShape
<1>4. repeated' = FALSE /\ observed' \subseteq ran'
  BY <1>1 DEF LaneInv
<1> HIDE DEF h
<1> QED BY <1>1, <1>2, <1>3, <1>4, LaneMove

LEMMA PreflightLane ==
    ASSUME LaneInv, NEW r \in Runtimes, NEW c \in Children, Preflight(r, c) PROVE LaneInv'
<1> DEFINE h == <<r, c>>
           v == [kind |-> "cleared", call |-> hand[h].call]
<1>1. /\ hand[h].kind = "execution" /\ UNCHANGED <<epoch, up, ran, repeated, observed>>
      /\ hand' = [hand EXCEPT ![h] = v] \/ hand' = [hand EXCEPT ![h] = NoHand]
      /\ tainted' \in {tainted, tainted \cup {hand[h].call.broker}}
  BY DEF Preflight, Hold, Release, Taint, authority, history
<1>2. hand[h].kind # None
  BY <1>1 DEF None
<1>3. h \in Runtimes \X Children /\ hand[h].call \in Calls /\ hand[h].call \notin ran
  BY <1>1, <1>2, HeldCall
<1>4. v \in Hands /\ v.kind = "cleared" /\ v.call = hand[h].call /\ NoHand \in Hands
  BY <1>3, HandShape
<1>5. repeated' = FALSE /\ observed' \subseteq ran'
  BY <1>1 DEF LaneInv
<1> HIDE DEF h, v
<1> QED BY <1>1, <1>2, <1>3, <1>4, <1>5, LaneMove DEF None

(* Only a cleared right runs its call, which no one has run before.        *)
LEMMA ExecuteLane ==
    ASSUME LaneInv, NEW r \in Runtimes, NEW c \in Children, ExecuteCall(r, c) PROVE LaneInv'
<1> DEFINE h == <<r, c>>
           x == hand[h].call
           v == [kind |-> "observed", call |-> x]
<1>1. /\ hand[h].kind = "cleared" /\ UNCHANGED <<epoch, up, observed>>
      /\ \/ /\ ran' = ran \cup {x} /\ repeated' = (repeated \/ x \in ran)
            /\ hand' = [hand EXCEPT ![h] = v] \/ hand' = [hand EXCEPT ![h] = NoHand]
         \/ hand' = [hand EXCEPT ![h] = NoHand] /\ UNCHANGED <<ran, repeated>>
      /\ tainted' \in {tainted, tainted \cup {x.broker}}
  BY DEF ExecuteCall, Run, Hold, Release, Taint, authority, history
<1>2. hand[h].kind # None
  BY <1>1 DEF None
<1>3. h \in Runtimes \X Children /\ x \in Calls /\ x \notin ran
  BY <1>1, <1>2, HeldCall
<1>4. v \in Hands /\ v.kind = "observed" /\ v.call = x /\ NoHand \in Hands /\ v.kind # None
  BY <1>3, HandShape
<1>5. repeated' = FALSE /\ observed' \subseteq ran' /\ ran' \in {ran, ran \cup {x}}
  <2>1. repeated = FALSE /\ observed \subseteq ran
    BY DEF LaneInv
  <2> QED BY <1>1, <1>3, <2>1
<1>6. hand' = [hand EXCEPT ![h] = v] => x \in ran' \/ hand' = [hand EXCEPT ![h] = NoHand]
  BY <1>1
<1> HIDE DEF h, v
<1> QED BY <1>1, <1>2, <1>3, <1>4, <1>5, <1>6, LaneMove

LEMMA ObservationLane ==
    ASSUME LaneInv, NEW r \in Runtimes, NEW c \in Children, CommitObservation(r, c) PROVE LaneInv'
<1> DEFINE h == <<r, c>>
           x == hand[h].call
<1>1. /\ hand[h].kind = "observed" /\ UNCHANGED <<epoch, up, ran, repeated>>
      /\ hand' = [hand EXCEPT ![h] = NoHand] /\ observed' = observed \cup {x}
      /\ tainted' \in {tainted, tainted \cup {x.broker}}
  BY DEF CommitObservation, Release, Taint, authority
<1>2. hand[h].kind # None
  BY <1>1 DEF None
<1>3. h \in Runtimes \X Children /\ x \in ran /\ NoHand \in Hands
  BY <1>1, <1>2, HeldCall, HandShape
<1>4. repeated' = FALSE /\ observed' \subseteq ran'
  BY <1>1, <1>3 DEF LaneInv
<1> HIDE DEF h
<1> QED BY <1>1, <1>2, <1>3, <1>4, LaneMove

LEMMA DropEffectLane ==
    ASSUME LaneInv, NEW r \in Runtimes, NEW c \in Children, DropEffect(r, c) PROVE LaneInv'
<1> DEFINE h == <<r, c>>
<1>1. /\ hand[h].kind \in {"execution", "cleared", "observed"} /\ UNCHANGED <<epoch, up, ran, repeated, observed>>
      /\ hand' = [hand EXCEPT ![h] = NoHand] /\ tainted' \in {tainted, tainted \cup {hand[h].call.broker}}
  BY DEF DropEffect, Release, Taint, authority, history
<1>2. hand[h].kind # None
  BY <1>1 DEF None
<1>3. h \in Runtimes \X Children /\ NoHand \in Hands
  BY HandShape
<1>4. repeated' = FALSE /\ observed' \subseteq ran'
  BY <1>1 DEF LaneInv
<1> HIDE DEF h
<1> QED BY <1>1, <1>2, <1>3, <1>4, LaneMove

-----------------------------------------------------------------------------
(* The invariant.                                                          *)

LEMMA ClaimKept == ASSUME ClaimInv, UNCHANGED <<claim, cancelled, late, reserved>> PROVE ClaimInv'
BY DEF ClaimInv

(* A claim follows a claim.                                                *)
LEMMA ClaimMoves ==
    ASSUME ClaimInv, NEW r \in Runtimes, NEW b \in BOOLEAN, claim.generation < MaxClaims,
           claim' = [generation |-> claim.generation + 1, runtime |-> r, live |-> TRUE, cancellation |-> b],
           UNCHANGED <<cancelled, late, reserved>>
    PROVE  ClaimInv'
<1>1. PICK g \in 0..MaxClaims : g = claim.generation + 1
  BY Limits DEF ClaimInv
<1>2. claim' = [generation |-> g, runtime |-> r, live |-> TRUE, cancellation |-> b]
  BY <1>1
<1> QED BY <1>2 DEF ClaimInv

LEMMA InitChild == Init => ChildInv
<1> SUFFICES ASSUME Init PROVE ChildInv
  OBVIOUS
<1>1. /\ Unissued \in Order /\ Unissued.attempts = 0 /\ Unissued.issued = FALSE /\ AttemptOK(Unissued.last)
      /\ AnyRuntime \in Runtimes
  BY UnissuedOrder
<1>2. 1 \in 0..MaxClaims /\ 0 \in 0..MaxReservations /\ 0 \in 0..MaxEpochs /\ 0 \in 0..MaxCallsPerBroker
  BY Limits
<1>3. ClaimInv
  BY <1>1, <1>2 DEF Init, ClaimInv
<1>4. OrdersInv
  <2>1. order = [c \in Children |-> Unissued] /\ writers = [c \in Children |-> {}]
    BY DEF Init
  <2>2. \A c \in Children : order[c] = Unissued
    BY <2>1
  <2>3. order \in [Children -> Order] /\ writers \in [Children -> SUBSET Runtimes]
    BY <1>1, <2>1
  <2>4. \A c \in Children : OrderOK(c)
    BY <1>1, <2>2 DEF OrderOK, Last
  <2> QED BY <2>3, <2>4 DEF OrdersInv
<1>5. LaneInv
  <2>1. hand = [rc \in Runtimes \X Children |-> NoHand] /\ NoHand \in Hands /\ NoHand.kind = None
    BY HandShape DEF Init
  <2>2. hand \in [Runtimes \X Children -> Hands] /\ \A h \in Runtimes \X Children : hand[h].kind = None
    BY <2>1
  <2>3. epoch \in [broker : 0..MaxEpochs, runtime : Runtimes, calls : 0..MaxCallsPerBroker]
    BY <1>1, <1>2 DEF Init
  <2> QED BY <2>2, <2>3 DEF Init, LaneInv
<1> QED BY <1>3, <1>4, <1>5 DEF ChildInv

(* One step of the run.                                                    *)
LEMMA ChildStep == ASSUME ChildInv, [Next]_vars PROVE ChildInv' /\ OrdersStep
<1> USE DEF ChildInv
<1> SUFFICES ClaimInv' /\ LaneInv' /\ OrdersStep
  BY DEF OrdersStep
<1>1. CASE ExpireLease
  <2>1. claim' = [claim EXCEPT !.live = FALSE] /\ UNCHANGED <<cancelled, late, reserved>>
    BY <1>1 DEF ExpireLease
  <2>2. ClaimInv'
    BY <2>1 DEF ClaimInv
  <2>3. UNCHANGED <<epoch, order, up, tainted, hand, ran, repeated, observed, writers, cancelled>>
    BY <1>1 DEF ExpireLease, process, history
  <2> QED BY <2>2, <2>3, LaneKept, BesideOrders
<1>2. CASE RequestCancellation
  <2>1. UNCHANGED <<claim, late, reserved, epoch, order, up, tainted, hand, ran, repeated, observed, writers>>
        /\ cancelled' = TRUE
    BY <1>2 DEF RequestCancellation, process, history
  <2>2. ClaimInv'
    BY <2>1 DEF ClaimInv
  <2> QED BY <2>1, <2>2, LaneKept, BesideOrders
<1>3. CASE PassDeadline
  <2>1. UNCHANGED <<claim, cancelled, reserved, epoch, order, up, tainted, hand, ran, repeated, observed, writers>>
        /\ late' = TRUE
    BY <1>3 DEF PassDeadline, process, history
  <2>2. ClaimInv'
    BY <2>1 DEF ClaimInv
  <2> QED BY <2>1, <2>2, LaneKept, BesideOrders
<1>4. CASE \E r \in Runtimes : ClaimRun(r)
  <2>1. PICK r \in Runtimes : ClaimRun(r)
    BY <1>4
  <2>2. /\ claim.generation + 1 < MaxClaims /\ UNCHANGED <<cancelled, late, reserved>>
        /\ claim' = [generation |-> claim.generation + 1, runtime |-> r, live |-> TRUE, cancellation |-> cancelled]
        /\ UNCHANGED <<epoch, order, up, tainted, hand, ran, repeated, observed, writers>>
    BY <2>1 DEF ClaimRun, process, history
  <2>3. claim.generation < MaxClaims /\ cancelled \in BOOLEAN
    BY <2>2, Limits DEF ClaimInv
  <2>4. ClaimInv'
    BY <2>2, <2>3, ClaimMoves
  <2> QED BY <2>2, <2>4, LaneKept, BesideOrders
<1>5. CASE \E r \in Runtimes : RefreshClaim(r)
  <2>1. PICK r \in Runtimes : RefreshClaim(r)
    BY <1>5
  <2>2. /\ claim.generation < MaxClaims /\ UNCHANGED <<cancelled, late, reserved>>
        /\ claim' = [generation |-> claim.generation + 1, runtime |-> r, live |-> TRUE, cancellation |-> FALSE]
        /\ UNCHANGED <<epoch, up, tainted, hand, ran, repeated, observed>>
    BY <2>1 DEF RefreshClaim, RefreshAllowed, process, history
  <2>3. ClaimInv'
    BY <2>2, ClaimMoves
  <2> QED BY <2>1, <2>2, <2>3, LaneKept, RefreshOrders
<1>6. CASE \E r \in Runtimes : ActivateEpoch(r)
  <2>1. PICK r \in Runtimes : ActivateEpoch(r)
    BY <1>6
  <2>2. UNCHANGED <<claim, cancelled, late, reserved, order, writers, up>>
    BY <2>1 DEF ActivateEpoch, process, history
  <2> QED BY <2>1, <2>2, ActivateLane, ClaimKept, BesideOrders
<1>7. CASE \E r \in Runtimes : Crash(r)
  <2>1. PICK r \in Runtimes : Crash(r)
    BY <1>7
  <2>2. UNCHANGED <<claim, cancelled, late, reserved, order, writers>> /\ up' \subseteq up
    BY <2>1 DEF Crash, authority, history
  <2> QED BY <2>1, <2>2, CrashLane, ClaimKept, BesideOrders
<1>8. CASE \E r \in Runtimes : IssueOrders(r)
  <2>1. PICK r \in Runtimes : IssueOrders(r)
    BY <1>8
  <2>2. UNCHANGED <<claim, cancelled, late, reserved, epoch, up, tainted, hand, ran, repeated, observed>>
    BY <2>1 DEF IssueOrders, authority, process, history
  <2> QED BY <2>1, <2>2, LaneKept, ClaimKept, IssueStep
<1>9. ASSUME NEW r \in Runtimes, NEW c \in Children,
             StartAttempt(r, c) \/ ObserveModel(r, c) \/ ReconcileModel(r, c)
               \/ CommitHandoff(r, c) \/ FinishAttempt(r, c) \/ ReconcileTool(r, c)
      PROVE  ClaimInv' /\ LaneInv' /\ OrdersStep
  <2>1. UNCHANGED <<claim, cancelled, late, reserved, epoch, up, tainted, hand, ran, repeated, observed>>
    BY <1>9 DEF StartAttempt, ObserveModel, ReconcileModel, CommitHandoff, FinishAttempt, ReconcileTool,
                authority, process
  <2>2. OrdersStep
    BY <1>9, StartOrders, ObserveModelOrders, ReconcileModelOrders, CommitHandoffOrders, FinishOrders,
       ReconcileToolOrders
  <2> QED BY <2>1, <2>2, LaneKept, ClaimKept
<1>10. ASSUME NEW r \in Runtimes, NEW c \in Children, PrepareModel(r, c) PROVE ClaimInv' /\ LaneInv' /\ OrdersStep
  <2>1. /\ UNCHANGED <<claim, cancelled, late, epoch, up, tainted, hand, ran, repeated, observed>>
        /\ reserved < MaxReservations /\ reserved' = reserved + 1
    BY <1>10 DEF PrepareModel, authority, process
  <2>2. ClaimInv'
    BY <2>1, Limits DEF ClaimInv
  <2> QED BY <1>10, <2>1, <2>2, LaneKept, PrepareModelOrders
<1>11. ASSUME NEW r \in Runtimes, NEW c \in Children,
              PrepareTool(r, c) \/ StartDispatch(r, c) \/ CommitObservation(r, c)
       PROVE  ClaimInv' /\ LaneInv' /\ OrdersStep
  <2>1. UNCHANGED <<claim, cancelled, late, reserved>>
    BY <1>11 DEF PrepareTool, StartDispatch, CommitObservation, authority
  <2>2. LaneInv'
    BY <1>11, PrepareToolLane, StartDispatchLane, ObservationLane
  <2>3. OrdersStep
    BY <1>11, PrepareToolOrders, StartDispatchOrders, CommitObservationOrders
  <2> QED BY <2>1, <2>2, <2>3, ClaimKept
<1>12. ASSUME NEW r \in Runtimes, NEW c \in Children,
              DropDispatch(r, c) \/ Preflight(r, c) \/ ExecuteCall(r, c) \/ DropEffect(r, c)
       PROVE  ClaimInv' /\ LaneInv' /\ OrdersStep
  <2>1. UNCHANGED <<claim, cancelled, late, reserved, order, up, writers>>
    BY <1>12 DEF DropDispatch, Preflight, ExecuteCall, DropEffect, authority, history
  <2>2. LaneInv'
    BY <1>12, DropDispatchLane, PreflightLane, ExecuteLane, DropEffectLane
  <2> QED BY <2>1, <2>2, ClaimKept, BesideOrders
<1>13. CASE UNCHANGED vars
  <2>1. UNCHANGED <<claim, cancelled, late, epoch, order, reserved, up, tainted, hand, ran, repeated, observed, writers>>
    BY <1>13 DEF vars
  <2> QED BY <2>1, ClaimKept, LaneKept, BesideOrders
<1> QED BY <1>1, <1>2, <1>3, <1>4, <1>5, <1>6, <1>7, <1>8, <1>9, <1>10, <1>11, <1>12, <1>13 DEF Next

THEOREM ChildInvariant == Spec => []ChildInv
<1>1. ChildInv /\ [Next]_vars => ChildInv'
  BY ChildStep
<1> QED BY <1>1, InitChild, PTL DEF Spec

-----------------------------------------------------------------------------
(* What the run promises.                                                  *)

(* For any runtimes, work orders and limits: no repository call is run     *)
(* twice and none is observed that was not run, whoever crashes, is taken  *)
(* over or acts on a stale handoff, and every limit of the run is kept     *)
(* (the affine handoffs of store_child_dispatch).                          *)
THEOREM CallsAccounted == Spec => []CallsAreAccounted
<1>1. ASSUME ChildInv PROVE CallsAreAccounted
  <2>1. ClaimInv /\ OrdersInv /\ LaneInv
    BY <1>1 DEF ChildInv
  <2>2. ASSUME NEW c \in Children
        PROVE  /\ order[c].bound \in 0..MaxClaims /\ order[c].runtime \in Runtimes
               /\ order[c].adoptions \in 0..MaxAdoptions /\ order[c].takeovers \in 0..MaxTakeovers
               /\ order[c].attempts \in 0..MaxAttempts
               /\ order[c].last.pending \in {None, "model", "prepared", "started"}
               /\ order[c].last.models \in 0..MaxModelCalls /\ order[c].last.tools \in 0..MaxToolCalls
               /\ writers[c] \subseteq Runtimes
    <3>1. order[c] \in Order /\ order[c].last \in Attempt /\ writers[c] \subseteq Runtimes
      BY <2>1, OrderFields
    <3>2. /\ order[c].last.pending \in {None, "model", "prepared", "started"}
          /\ order[c].last.models \in 0..MaxModelCalls /\ order[c].last.tools \in 0..MaxToolCalls
      BY <3>1 DEF Attempt, ModelCounts, ToolCounts
    <3> QED BY <3>1, <3>2 DEF Order
  <2>3. \A r \in Runtimes, c \in Children : hand[<<r, c>>] \in Hands
    BY <2>1 DEF LaneInv
  <2>4. TypeOK
    BY <2>1, <2>2, <2>3 DEF TypeOK, ClaimInv, LaneInv
  <2> QED BY <2>1, <2>4 DEF CallsAreAccounted, NoCallRunsTwice, ObservedCallRan, LaneInv
<1> QED BY <1>1, ChildInvariant, PTL

(* For any runtimes, work orders and limits: the runtime an open attempt   *)
(* is bound to can always write to it, replay always finds one thing to do *)
(* next, and evidence with a contiguous clock has a single writer.         *)
THEOREM AttemptsContinue == Spec => []AttemptsCanContinue
<1>1. ASSUME ChildInv PROVE AttemptsCanContinue
  <2>1. OrdersInv
    BY <1>1 DEF ChildInv
  <2>2. ContiguousAttemptHasOneWriter
    <3>1. ASSUME NEW c \in Children, order[c].attempts > 0, Last(c).contiguous PROVE Cardinality(writers[c]) = 1
      <4>1. writers[c] = {order[c].runtime}
        BY <2>1, <3>1, OrderFields DEF Bound
      <4> QED BY <4>1, FS_Singleton
    <3> QED BY <3>1 DEF ContiguousAttemptHasOneWriter
  <2>3. BoundRuntimeClockAccepted
    BY <2>1, OrderFields DEF BoundRuntimeClockAccepted, Bound, Active
  <2>4. RecoveryDefined
    <3>1. ASSUME NEW c \in Children PROVE RecoveryState(Last(c)) # "invalid"
      <4> DEFINE a == Last(c)
      <4>1. \/ a.pending # None \/ a.handoff \/ a.turnRequired \/ a.retryRequired # None
            \/ a.action \in {"tool", "finish"}
        BY <2>1, OrderFields DEF AttemptOK
      <4> HIDE DEF a
      <4>2. RecoveryState(a) # "invalid"
        BY <4>1 DEF RecoveryState
      <4> QED BY <4>2 DEF a
    <3> QED BY <3>1 DEF RecoveryDefined
  <2> QED BY <2>2, <2>3, <2>4 DEF AttemptsCanContinue
<1> QED BY <1>1, ChildInvariant, PTL

(* The claims, clocks, calls and handoffs of the dispatch lane implement   *)
(* the work-order life cycle: issued together, attempts one after another  *)
(* and never more than allowed, one verdict.                               *)
THEOREM DispatchImplementsOrders == Spec => ImplementsWorkOrder
<1>1. Init => Orders!OrderInit
  <2> SUFFICES ASSUME Init PROVE Orders!OrderInit
    OBVIOUS
  <2>1. \A c \in Children : order[c] = Unissued
    BY DEF Init
  <2>2. \A c \in Children : Status(c) = "Unissued" /\ order[c].attempts = 0
    BY <2>1, UnissuedOrder DEF Status
  <2> QED BY <2>2 DEF Orders!OrderInit
<1>2. ChildInv /\ [Next]_vars => [Orders!OrderNext]_<<OrderStatus, OrderAttempts>>
  BY ChildStep DEF OrdersStep
<1> QED BY <1>1, <1>2, ChildInvariant, PTL DEF Spec, ImplementsWorkOrder, Orders!OrderSpec, OrderStatus, OrderAttempts

(* A work order that a cancellation has stranded is freed by no later      *)
(* event of any runtime: not by a claim, a crash, a late observation or a  *)
(* reconciliation.                                                         *)
THEOREM StrandedStays == Spec => StrandedForever
<1>1. ChildInv /\ [Next]_vars => [\A c \in Children : Unreconcilable(c) => Unreconcilable(c)']_vars
  BY ChildStep DEF OrdersStep
<1> QED BY <1>1, ChildInvariant, PTL DEF Spec, StrandedForever
=============================================================================
