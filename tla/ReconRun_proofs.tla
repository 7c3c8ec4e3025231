--------------------------- MODULE ReconRun_proofs ---------------------------
(***************************************************************************)
(* That a reconnaissance run is sound, for any number of runtimes,         *)
(* children, claims, attempts of a child and turns of a stage: a turn is   *)
(* sent once and believed under one owner, a replan sees every child, and  *)
(* a run that is over has left nothing behind and earned its completion.   *)
(***************************************************************************)
EXTENDS ReconRun, TLAPS

InCall(r) == At(r, "slot") \/ At(r, "calling")

(* The turns counted so far: none before the first, and no replan before   *)
(* the turns of the initial stage are over.                                *)
TurnsCounted ==
    /\ HasTurn({None}) <=> Number = 0
    /\ turn.purpose = "InitialDelegation" => spent["EvidenceReplan"] = 0

(* A driver at the slot or in the call is there for a turn that was        *)
(* prepared, no two of them for the same one.                              *)
DriversPrepared ==
    \A r \in Runtimes : driver[r].turn <= Number /\ (InCall(r) => driver[r].turn # 0)
DriversApart ==
    \A r, s \in Runtimes : InCall(r) /\ InCall(s) /\ driver[r].turn = driver[s].turn => r = s

(* Whoever still waits for the slot of the latest turn has not sent it.    *)
SlotBeforeCall == \A r \in Runtimes : At(r, "slot") /\ Mine(r) => turn.calls = 0

CallInv == TurnsCounted /\ DriversPrepared /\ DriversApart /\ SlotBeforeCall /\ OneRequestPerTurn

(* An observation is not from a claim to come.                             *)
ObservedByNow == ~HasTurn({None}) => turn.observed <= claim.generation

OwnerInv == AnswersUnderOneOwner /\ ObservedByNow

(* Children are under way only on a mounted snapshot; a replan delegates   *)
(* nothing; and what the gate was given still holds behind it.             *)
LiveOnSnapshot == Nonterminal # {} => snapshot.state = "Active"
ReplanDelegatesNothing ==
    ~HasTurn({None}) /\ turn.purpose = "EvidenceReplan" => turn.directive # "Delegate"
GateHolds ==
    tail = "Gate" =>
        /\ FinishDecided /\ snapshot.state = "Closed" /\ Overlapped
        /\ \A c \in Children : ChildProven(c) /\ InPacket(c)

WorkInv ==
    /\ LiveOnSnapshot /\ TerminalRunHasNoLiveWork /\ ReplanSeesEveryChild /\ ReplanDelegatesNothing
    /\ GateHolds /\ CompletionIsEarned

RunInv == TypeOK /\ CallInv /\ OwnerInv /\ WorkInv

-----------------------------------------------------------------------------
(* The ranges of the numbers a run counts with.                            *)
LEMMA Numbers ==
    ASSUME TypeOK
    PROVE  /\ claim.generation \in Nat /\ MaxClaims \in Nat /\ AttemptsPerStage \in Nat
           /\ spent["InitialDelegation"] \in Nat /\ spent["EvidenceReplan"] \in Nat /\ Number \in Nat
           /\ \A r \in Runtimes : driver[r].turn \in Nat
           /\ AnyRuntime \in Runtimes
           /\ ~HasTurn({None}) => turn \in Turn
           /\ HasTurn({None}) => turn = NoTurn
<1>1. AnyRuntime \in Runtimes
  BY BoundAssumption DEF AnyRuntime
<1>2. turn \in Turn => ~HasTurn({None})
  BY DEF Turn, HasTurn, TurnStates, Closed, None
<1>3. HasTurn({None}) \/ turn \in Turn
  BY DEF TypeOK, HasTurn, NoTurn
<1>4. HasTurn({None}) => turn = NoTurn
  BY <1>2 DEF TypeOK
<1> QED BY <1>1, <1>2, <1>3, <1>4, BoundAssumption DEF TypeOK, Number, Purposes

LEMMA CallFrame ==
    ASSUME CallInv, UNCHANGED <<turn, spent, driver>>
    PROVE  CallInv'
BY DEF CallInv, TurnsCounted, DriversPrepared, DriversApart, SlotBeforeCall, OneRequestPerTurn,
       HasTurn, Number, InCall, At, Mine

(* A driver may leave its place, and the turn may move on under it.        *)
LEMMA CallSettles ==
    ASSUME TypeOK, CallInv, UNCHANGED spent, NEW r \in Runtimes,
           driver' = driver \/ driver' = [driver EXCEPT ![r] = Idle] \/ driver' = [driver EXCEPT ![r] = Loop],
           \/ turn' = turn
           \/ /\ ~HasTurn({None}) /\ ~HasTurn({None})'
              /\ turn'.purpose = turn.purpose /\ turn'.calls = turn.calls
    PROVE  CallInv'
<1>1. TurnsCounted'
  BY DEF CallInv, TurnsCounted, HasTurn, Number
<1>2. \A s \in Runtimes : \/ driver'[s] = driver[s]
                          \/ driver'[s].turn = 0 /\ driver'[s].at \in {"idle", "loop"}
  BY DEF TypeOK, Idle, Loop
<1>3. DriversPrepared'
  BY <1>2, Numbers DEF CallInv, DriversPrepared, InCall, At, Number
<1>4. \A s \in Runtimes : InCall(s)' => driver'[s] = driver[s] /\ InCall(s)
  BY <1>2 DEF InCall, At
<1>5. DriversApart'
  BY <1>4 DEF CallInv, DriversApart
<1>6. turn' = turn \/ turn'.calls = turn.calls
  OBVIOUS
<1>7. SlotBeforeCall'
  BY <1>4, <1>6 DEF CallInv, SlotBeforeCall, Mine, Number, InCall, At
<1>8. OneRequestPerTurn'
  BY DEF CallInv, OneRequestPerTurn, HasTurn
<1> QED BY <1>1, <1>3, <1>5, <1>7, <1>8 DEF CallInv

LEMMA OwnerFrame ==
    ASSUME OwnerInv, UNCHANGED <<turn, claim, breaks>>
    PROVE  OwnerInv'
BY DEF OwnerInv, AnswersUnderOneOwner, ObservedByNow, HasTurn

LEMMA WorkFrame ==
    ASSUME WorkInv, UNCHANGED <<runState, cancelled, tail, turn, snapshot, status, pair>>
    PROVE  WorkInv'
BY DEF WorkInv, LiveOnSnapshot, TerminalRunHasNoLiveWork, ReplanSeesEveryChild, ReplanDelegatesNothing,
       GateHolds, CompletionIsEarned, HasTurn, Nonterminal, FinishDecided, Overlapped, ChildProven, InPacket

(* An event other than the gate is appended to a run that goes on.         *)
LEMMA WorkTail ==
    ASSUME WorkInv, runState' = "Running", tail' # "Gate", UNCHANGED <<turn, snapshot, status>>
    PROVE  WorkInv'
BY DEF WorkInv, LiveOnSnapshot, TerminalRunHasNoLiveWork, ReplanSeesEveryChild, ReplanDelegatesNothing,
       GateHolds, CompletionIsEarned, HasTurn, Nonterminal, Terminal

-----------------------------------------------------------------------------
(* The start of a run.                                                     *)
LEMMA Starts == Init => RunInv
<1> SUFFICES ASSUME Init PROVE RunInv
  OBVIOUS
<1>1. AnyRuntime \in Runtimes /\ 1 \in 1..MaxClaims /\ 0 \in 0..MaxClaims
      /\ 0 \in 0..AttemptsPerStage /\ 0 \in 0..MaxAttempts
  BY BoundAssumption DEF AnyRuntime
<1>2. TypeOK
  BY <1>1 DEF Init, TypeOK, OrderTypeOK, OrderInit, Statuses, Snapshots, Unbound, Idle
<1>3. CallInv
  BY DEF Init, CallInv, TurnsCounted, DriversPrepared, DriversApart, SlotBeforeCall, OneRequestPerTurn,
         HasTurn, Number, InCall, At, Idle, NoTurn, Purposes
<1>4. OwnerInv
  BY DEF Init, OwnerInv, AnswersUnderOneOwner, ObservedByNow, HasTurn, NoTurn, None
<1>5. WorkInv
  BY DEF Init, OrderInit, WorkInv, LiveOnSnapshot, TerminalRunHasNoLiveWork, ReplanSeesEveryChild,
         ReplanDelegatesNothing, GateHolds, CompletionIsEarned, HasTurn, NoTurn, Nonterminal, Terminal
<1> QED BY <1>2, <1>3, <1>4, <1>5 DEF RunInv

-----------------------------------------------------------------------------
(* Claims and cancellation.                                                *)
LEMMA ClaimMoves ==
    ASSUME TypeOK, OwnerInv, NEW r \in Runtimes, Reclaimed(r), UNCHANGED turn
    PROVE  /\ OwnerInv'
           /\ claim' \in [runtime : Runtimes, generation : 1..MaxClaims, live : BOOLEAN, cancellation : BOOLEAN]
           /\ breaks' \subseteq 1..MaxClaims
           /\ claim'.generation = claim.generation + 1
<1>1. claim.generation + 1 \in 1..MaxClaims /\ claim'.generation = claim.generation + 1
  BY Numbers DEF Reclaimed, TypeOK
<1>2. /\ claim' \in [runtime : Runtimes, generation : 1..MaxClaims, live : BOOLEAN, cancellation : BOOLEAN]
      /\ breaks' \subseteq breaks \cup {claim.generation + 1}
  BY <1>1 DEF Reclaimed, TypeOK
<1>3. breaks' \subseteq 1..MaxClaims
  BY <1>1, <1>2 DEF TypeOK
<1>4. ASSUME ~HasTurn({None})
      PROVE  turn.observed \in Nat /\ turn.observed <= claim.generation
  BY <1>4, Numbers, BoundAssumption DEF Turn, OwnerInv, ObservedByNow
<1>5. ObservedByNow'
  BY <1>1, <1>4, Numbers DEF ObservedByNow, HasTurn
<1>6. AnswersUnderOneOwner'
  <2> SUFFICES ASSUME HasTurn({"Succeeded", "Accepted", "Rejected"})
               PROVE  breaks' \cap (turn.prepared + 1)..turn.observed = {}
    BY DEF AnswersUnderOneOwner, HasTurn
  <2>1. breaks \cap (turn.prepared + 1)..turn.observed = {}
    BY DEF OwnerInv, AnswersUnderOneOwner
  <2>2. ~HasTurn({None})
    BY DEF HasTurn, None
  <2>3. turn.prepared \in Nat
    BY <2>2, Numbers, BoundAssumption DEF Turn
  <2>4. claim.generation + 1 \notin (turn.prepared + 1)..turn.observed
    BY <1>4, <2>2, <2>3, Numbers
  <2> QED BY <1>2, <2>1, <2>4
<1> QED BY <1>1, <1>2, <1>3, <1>5, <1>6 DEF OwnerInv

LEMMA ClaimActions ==
    ASSUME RunInv, NEW r \in Runtimes,
           ExpireLease \/ ClaimRun(r) \/ RefreshClaim(r) \/ RequestCancellation
    PROVE  RunInv'
<1> USE DEF RunInv
<1>1. CallInv'
  BY CallFrame DEF ExpireLease, ClaimRun, RefreshClaim, RequestCancellation, planner
<1>2. CASE ExpireLease
  <2>1. TypeOK'
    BY <1>2 DEF ExpireLease, TypeOK, OrderTypeOK, planner, orders
  <2>2. OwnerInv'
    BY <1>2, <2>1 DEF ExpireLease, TypeOK, OwnerInv, AnswersUnderOneOwner, ObservedByNow, HasTurn, planner
  <2>3. WorkInv'
    BY <1>2, WorkFrame DEF ExpireLease, planner, orders
  <2> QED BY <1>1, <2>1, <2>2, <2>3
<1>3. CASE ClaimRun(r)
  <2>1. Reclaimed(r) /\ UNCHANGED <<runState, cancelled, tail, turn, spent, snapshot, status, attempts, pair, driver>>
    BY <1>3 DEF ClaimRun, planner, orders
  <2>2. TypeOK'
    BY <2>1, ClaimMoves DEF TypeOK, OrderTypeOK
  <2> QED BY <1>1, <2>1, <2>2, ClaimMoves, WorkFrame
<1>4. CASE RefreshClaim(r)
  <2>1. /\ Reclaimed(r) /\ UNCHANGED <<runState, cancelled, turn, spent, status, attempts, driver>>
        /\ snapshot' \in {snapshot, [snapshot EXCEPT !.bound = claim.generation + 1]}
    BY <1>4 DEF RefreshClaim, planner
  <2>2. pair' \in [runtime : Runtimes, bound : 0..MaxClaims, whole : [Children -> BOOLEAN], met : BOOLEAN]
        /\ tail' \in {tail, "Child"}
    <3>1. \A c \in Children : (pair.whole[c] /\ (c \in Nonterminal => PairLive(r))) \in BOOLEAN
      BY DEF TypeOK, PairLive, Owner
    <3> DEFINE w == [c \in Children |-> pair.whole[c] /\ (c \in Nonterminal => PairLive(r))]
    <3>2. w \in [Children -> BOOLEAN]
      BY <3>1
    <3>3. pair' = pair \/ pair' = [pair EXCEPT !.runtime = r, !.bound = claim.generation + 1, !.whole = w]
      BY <1>4 DEF RefreshClaim
    <3>4. claim.generation + 1 \in 0..MaxClaims
      BY <2>1, ClaimMoves, Numbers
    <3> HIDE DEF w
    <3>5. pair' \in [runtime : Runtimes, bound : 0..MaxClaims, whole : [Children -> BOOLEAN], met : BOOLEAN]
      BY <3>2, <3>3, <3>4 DEF TypeOK
    <3> QED BY <1>4, <3>5 DEF RefreshClaim
  <2>3. snapshot' \in Snapshots /\ snapshot'.state = snapshot.state
    BY <2>1, ClaimMoves, Numbers DEF TypeOK, Snapshots
  <2>4. TypeOK'
    BY <2>1, <2>2, <2>3, ClaimMoves DEF TypeOK, OrderTypeOK
  <2>5. WorkInv'
    <3>1. runState = "Running"
      BY <2>1 DEF Reclaimed
    <3>2. CASE tail = "Gate"
      <4>1. Nonterminal = {} /\ snapshot.state = "Closed"
        BY <3>2 DEF WorkInv, GateHolds, ChildProven, Nonterminal
      <4>2. FALSE
        BY <1>4, <4>1 DEF RefreshClaim
      <4> QED BY <4>2
    <3>3. CASE tail # "Gate"
      BY <2>1, <2>2, <2>3, <3>1, <3>3
      DEF WorkInv, LiveOnSnapshot, TerminalRunHasNoLiveWork, ReplanSeesEveryChild, ReplanDelegatesNothing,
          GateHolds, CompletionIsEarned, HasTurn, Nonterminal, Terminal
    <3> QED BY <3>2, <3>3
  <2> QED BY <1>1, <2>1, <2>4, <2>5, ClaimMoves
<1>5. CASE RequestCancellation
  <2>1. /\ runState = "Running" /\ cancelled' = TRUE /\ tail' = "Cancellation"
        /\ UNCHANGED <<runState, claim, breaks, turn, spent, snapshot, status, attempts, pair, driver>>
    BY <1>5 DEF RequestCancellation, planner, orders
  <2>2. TypeOK'
    BY <2>1 DEF TypeOK, OrderTypeOK
  <2> QED BY <1>1, <2>1, <2>2, OwnerFrame, WorkTail
<1> QED BY <1>2, <1>3, <1>4, <1>5

-----------------------------------------------------------------------------
(* A driver starts, returns, or sends the request it prepared.             *)
LEMMA DriverActions ==
    ASSUME RunInv, NEW r \in Runtimes, StartDrive(r) \/ Return(r) \/ Dispatch(r)
    PROVE  RunInv'
<1> USE DEF RunInv
<1>1. CASE StartDrive(r) \/ Return(r)
  <2>1. /\ UNCHANGED <<runState, cancelled, claim, breaks, tail, turn, spent, snapshot, status, attempts, pair>>
        /\ driver' = [driver EXCEPT ![r] = Idle] \/ driver' = [driver EXCEPT ![r] = Loop]
    BY <1>1 DEF StartDrive, Return, Send, authority, planner, orders
  <2>2. TypeOK'
    BY <2>1 DEF TypeOK, OrderTypeOK, Idle, Loop
  <2> QED BY <2>1, <2>2, CallSettles, OwnerFrame, WorkFrame
<1>2. CASE Dispatch(r)
  <2>1. /\ UNCHANGED <<runState, cancelled, claim, breaks, tail, spent, snapshot, status, attempts, pair>>
        /\ At(r, "slot") /\ driver' = [driver EXCEPT ![r] = [driver[r] EXCEPT !.at = "calling"]]
        /\ turn' = IF Mine(r) THEN [turn EXCEPT !.calls = @ + 1] ELSE turn
    BY <1>2 DEF Dispatch, Send, authority, orders
  <2>2. InCall(r) /\ driver[r].turn # 0 /\ driver[r].turn \in Nat
    BY <2>1, Numbers DEF CallInv, DriversPrepared, InCall
  <2>3. ASSUME Mine(r)
        PROVE  /\ ~HasTurn({None}) /\ turn.calls = 0 /\ turn \in Turn
    BY <2>1, <2>2, <2>3, Numbers DEF CallInv, TurnsCounted, SlotBeforeCall, Mine
  <2>4. /\ turn'.purpose = turn.purpose /\ turn'.state = turn.state
        /\ ~HasTurn({None}) => /\ turn'.directive = turn.directive /\ turn'.evidence = turn.evidence
                               /\ turn'.prepared = turn.prepared /\ turn'.observed = turn.observed
        /\ turn' \in Turn \cup {NoTurn}
        /\ Mine(r) => turn'.calls = 1
        /\ ~Mine(r) => turn' = turn
    BY <2>1, <2>3, Numbers DEF Turn, TypeOK
  <2>5. /\ driver'[r].at = "calling" /\ driver'[r].turn = driver[r].turn
        /\ \A s \in Runtimes \ {r} : driver'[s] = driver[s]
        /\ driver' \in [Runtimes -> [at : {"idle", "loop", "slot", "calling"}, turn : Nat]]
    BY <2>1 DEF TypeOK
  <2>6. TypeOK'
    BY <2>1, <2>4, <2>5 DEF TypeOK, OrderTypeOK
  <2>7. CallInv'
    <3>1. TurnsCounted'
      BY <2>1, <2>4 DEF CallInv, TurnsCounted, HasTurn, Number
    <3>2. \A s \in Runtimes : (InCall(s)' <=> InCall(s)) /\ driver'[s].turn = driver[s].turn
      BY <2>2, <2>5 DEF InCall, At
    <3>3. DriversPrepared' /\ DriversApart'
      BY <2>1, <3>2 DEF CallInv, DriversPrepared, DriversApart, Number
    <3>4. SlotBeforeCall'
      <4> SUFFICES ASSUME NEW s \in Runtimes, At(s, "slot")', Mine(s)' PROVE turn'.calls = 0
        BY DEF SlotBeforeCall
      <4>1. s # r /\ At(s, "slot") /\ Mine(s) /\ InCall(s)
        BY <2>1, <2>5 DEF At, Mine, Number, InCall
      <4>2. ~Mine(r)
        BY <2>2, <4>1 DEF CallInv, DriversApart, Mine
      <4> QED BY <2>4, <4>1, <4>2 DEF CallInv, SlotBeforeCall
    <3>5. OneRequestPerTurn'
      BY <2>4 DEF CallInv, OneRequestPerTurn, HasTurn
    <3> QED BY <3>1, <3>3, <3>4, <3>5 DEF CallInv
  <2>8. HasTurn({"Succeeded", "Accepted", "Rejected"}) => ~HasTurn({None})
    BY DEF HasTurn, None
  <2>9. OwnerInv'
    BY <2>1, <2>4, <2>8 DEF OwnerInv, AnswersUnderOneOwner, ObservedByNow, HasTurn
  <2>10. WorkInv'
    <3>1. CASE Mine(r)
      BY <2>1, <2>3, <2>4, <3>1
      DEF WorkInv, LiveOnSnapshot, TerminalRunHasNoLiveWork, ReplanSeesEveryChild, ReplanDelegatesNothing,
          GateHolds, CompletionIsEarned, HasTurn, Nonterminal, FinishDecided, Overlapped, ChildProven, InPacket
    <3>2. CASE ~Mine(r)
      BY <2>1, <2>4, <3>2, WorkFrame
    <3> QED BY <3>1, <3>2
  <2> QED BY <2>6, <2>7, <2>9, <2>10
<1> QED BY <1>1, <1>2

-----------------------------------------------------------------------------
(* What a driver may do next says where the run and its turn stand.        *)
LEMMA ActionMeans ==
    ASSUME TypeOK,
           NextAction \in {"ReadyToPrepare", "RetryPrepared", "RecoverPrepared", "ValidateObserved",
                           "FinalizeFailure"}
    PROVE  /\ runState = "Running" /\ ~cancelled /\ tail # "Gate"
           /\ NextAction = "ReadyToPrepare" => HasTurn({None}) \/ ReplanReady
           /\ NextAction = "RetryPrepared" => HasTurn({"Retryable", "Interrupted"}) /\ RetryCapacity
           /\ NextAction = "RecoverPrepared" => HasTurn({"Prepared"})
           /\ NextAction = "ValidateObserved" => HasTurn({"Succeeded"})
<1>1. /\ runState = "Running" /\ ~cancelled /\ tail # "Gate" /\ NextAction = TurnAction
  BY DEF NextAction, TypeOK, Terminal
<1>2. /\ TurnAction = "ReadyToPrepare" => HasTurn({None}) \/ ReplanReady
      /\ TurnAction = "RetryPrepared" => HasTurn({"Retryable", "Interrupted"}) /\ RetryCapacity
      /\ TurnAction = "RecoverPrepared" => HasTurn({"Prepared"})
      /\ TurnAction = "ValidateObserved" => HasTurn({"Succeeded"})
  BY DEF TurnAction, HasTurn, None, ReplanReady
<1> QED BY <1>1, <1>2

(* A new turn is one more of its purpose, which had room; a replan has the *)
(* evidence of every child, all of which have ended.                       *)
LEMMA NewTurnFits ==
    ASSUME RunInv, NextAction \in {"ReadyToPrepare", "RetryPrepared"}
    PROVE  /\ NewTurn \in Turn /\ NewTurn.state = "Prepared" /\ NewTurn.calls = 0
           /\ NewTurn.observed = 0 /\ NewTurn.directive = None
           /\ spent[NewTurn.purpose] + 1 \in 0..AttemptsPerStage
           /\ NewTurn.purpose = "InitialDelegation" => spent["EvidenceReplan"] = 0
           /\ NewTurn.purpose = "EvidenceReplan" => NewTurn.evidence = Children /\ Nonterminal = {}
<1> USE DEF RunInv
<1> DEFINE purpose == IF NextAction = "RetryPrepared" THEN turn.purpose
                      ELSE IF HasTurn({None}) THEN "InitialDelegation" ELSE "EvidenceReplan"
           evidence == IF NextAction = "RetryPrepared" THEN turn.evidence ELSE FinishedChildren
<1>1. NewTurn = [purpose |-> purpose, runtime |-> claim.runtime, prepared |-> claim.generation,
                 evidence |-> evidence, state |-> "Prepared", directive |-> None,
                 observer |-> claim.runtime, observed |-> 0, calls |-> 0]
  BY DEF NewTurn
<1>2. /\ purpose \in Purposes /\ evidence \in SUBSET Children
      /\ spent[purpose] + 1 \in 0..AttemptsPerStage
      /\ purpose = "InitialDelegation" => spent["EvidenceReplan"] = 0
      /\ purpose = "EvidenceReplan" => evidence = Children /\ Nonterminal = {}
  <2>1. CASE NextAction = "RetryPrepared"
    <3>1. ~HasTurn({None}) /\ turn \in Turn /\ spent[turn.purpose] < AttemptsPerStage
      BY <2>1, ActionMeans, Numbers DEF HasTurn, None, RetryCapacity
    <3>2. turn.purpose \in Purposes /\ turn.evidence \in SUBSET Children
      BY <3>1 DEF Turn
    <3> QED BY <2>1, <3>1, <3>2, Numbers
            DEF Purposes, CallInv, TurnsCounted, WorkInv, ReplanSeesEveryChild
  <2>2. CASE NextAction = "ReadyToPrepare" /\ HasTurn({None})
    <3>1. spent["InitialDelegation"] = 0 /\ spent["EvidenceReplan"] = 0
      BY <2>2, Numbers DEF CallInv, TurnsCounted, Number
    <3>2. purpose = "InitialDelegation" /\ evidence = FinishedChildren
      BY <2>2
    <3> QED BY <3>1, <3>2, BoundAssumption DEF Purposes, FinishedChildren
  <2>3. CASE NextAction = "ReadyToPrepare" /\ ~HasTurn({None})
    <3>1. ReplanReady
      BY <2>3, ActionMeans
    <3>2. turn.purpose = "InitialDelegation" /\ ChildrenTerminal
      BY <3>1 DEF ReplanReady
    <3>3. FinishedChildren = Children /\ Nonterminal = {}
      BY <3>2 DEF ChildrenTerminal, FinishedChildren, Nonterminal, Ended
    <3>4. purpose = "EvidenceReplan" /\ evidence = Children
      BY <2>3, <3>3
    <3>5. spent[purpose] = 0
      BY <3>2, <3>4 DEF CallInv, TurnsCounted
    <3> QED BY <3>3, <3>4, <3>5, BoundAssumption DEF Purposes
  <2> QED BY <2>1, <2>2, <2>3
<1>3. claim.runtime \in Runtimes /\ claim.generation \in 1..MaxClaims /\ 0 \in 0..MaxClaims
  BY BoundAssumption DEF TypeOK
<1> HIDE DEF purpose, evidence
<1>4. NewTurn \in Turn
  BY <1>1, <1>2, <1>3 DEF Turn, TurnStates
<1> QED BY <1>1, <1>2, <1>4

LEMMA PrepareTurnAction ==
    ASSUME RunInv, NEW r \in Runtimes, PrepareTurn(r)
    PROVE  RunInv'
<1> USE DEF RunInv
<1> DEFINE p == NewTurn.purpose
<1>1. /\ NextAction \in {"ReadyToPrepare", "RetryPrepared"}
      /\ turn' = NewTurn /\ spent' = [spent EXCEPT ![p] = @ + 1] /\ tail' = "Planner"
      /\ driver' = [driver EXCEPT ![r] = [at |-> "slot", turn |-> Number + 1]]
      /\ UNCHANGED <<runState, cancelled, claim, breaks, snapshot, status, attempts, pair>>
  BY DEF PrepareTurn, Send, authority, orders
<1>2. runState = "Running"
  BY <1>1, ActionMeans
<1>3. p \in Purposes
  BY <1>1, NewTurnFits DEF Turn
<1>4. TypeOK'
  <2>1. spent' \in [Purposes -> 0..AttemptsPerStage]
    BY <1>1, <1>3, NewTurnFits DEF TypeOK
  <2>2. driver' \in [Runtimes -> [at : {"idle", "loop", "slot", "calling"}, turn : Nat]]
    BY <1>1, Numbers DEF TypeOK
  <2> QED BY <1>1, <2>1, <2>2, NewTurnFits DEF TypeOK, OrderTypeOK
<1>5. CallInv'
  <2>1. Number' = Number + 1
    <3>1. CASE p = "InitialDelegation"
      BY <1>1, <1>3, <3>1, Numbers DEF Number, TypeOK, Purposes
    <3>2. CASE p = "EvidenceReplan"
      BY <1>1, <1>3, <3>2, Numbers DEF Number, TypeOK, Purposes
    <3> QED BY <1>3, <3>1, <3>2 DEF Purposes
  <2>2. TurnsCounted'
    <3>1. HasTurn({None})' <=> Number' = 0
      BY <1>1, <2>1, NewTurnFits, Numbers DEF HasTurn, None
    <3>2. turn'.purpose = "InitialDelegation" => spent'["EvidenceReplan"] = 0
      BY <1>1, NewTurnFits DEF TypeOK, Purposes
    <3> QED BY <3>1, <3>2 DEF TurnsCounted
  <2>3. /\ driver'[r].turn = Number + 1 /\ driver'[r].at = "slot"
        /\ \A s \in Runtimes \ {r} : driver'[s] = driver[s] /\ driver[s].turn <= Number
    BY <1>1 DEF TypeOK, CallInv, DriversPrepared
  <2>4. DriversPrepared'
    <3> SUFFICES ASSUME NEW s \in Runtimes
                 PROVE  driver'[s].turn <= Number' /\ (InCall(s)' => driver'[s].turn # 0)
      BY DEF DriversPrepared
    <3>1. CASE s = r
      BY <2>1, <2>3, <3>1, Numbers
    <3>2. CASE s # r
      BY <2>1, <2>3, <3>2, Numbers DEF CallInv, DriversPrepared, InCall, At
    <3> QED BY <3>1, <3>2
  <2>5. DriversApart'
    <3> SUFFICES ASSUME NEW s \in Runtimes, NEW u \in Runtimes, s # u, InCall(s)', InCall(u)'
                 PROVE  driver'[s].turn # driver'[u].turn
      BY DEF DriversApart
    <3>1. CASE s = r \/ u = r
      BY <2>3, <3>1, Numbers
    <3>2. CASE s # r /\ u # r
      BY <2>3, <3>2 DEF CallInv, DriversApart, InCall, At
    <3> QED BY <3>1, <3>2
  <2>6. SlotBeforeCall' /\ OneRequestPerTurn'
    BY <1>1, NewTurnFits DEF SlotBeforeCall, OneRequestPerTurn
  <2> QED BY <2>2, <2>4, <2>5, <2>6 DEF CallInv
<1>6. OwnerInv'
  BY <1>1, NewTurnFits, Numbers DEF OwnerInv, AnswersUnderOneOwner, ObservedByNow, HasTurn
<1>7. WorkInv'
  BY <1>1, <1>2, NewTurnFits
  DEF WorkInv, LiveOnSnapshot, TerminalRunHasNoLiveWork, ReplanSeesEveryChild, ReplanDelegatesNothing,
      GateHolds, CompletionIsEarned, HasTurn, Nonterminal, Terminal, None
<1> QED BY <1>4, <1>5, <1>6, <1>7

-----------------------------------------------------------------------------
(* A turn moves on: it is closed or decided.                               *)
LEMMA TurnMovesOn ==
    ASSUME RunInv, NEW r \in Runtimes,
           runState = "Running", tail # "Gate", ~HasTurn({None}),
           UNCHANGED <<runState, cancelled, claim, breaks, spent, snapshot, status, attempts, pair>>,
           driver' = driver \/ driver' = [driver EXCEPT ![r] = Idle] \/ driver' = [driver EXCEPT ![r] = Loop],
           tail' \in {"Planner", "Failure"},
           NEW state \in TurnStates, NEW directive \in Directives \cup {None},
           NEW observed \in 0..MaxClaims,
           turn' = [turn EXCEPT !.state = state, !.directive = directive, !.observed = observed],
           observed <= claim.generation,
           turn.purpose = "EvidenceReplan" => directive # "Delegate",
           state \in {"Succeeded", "Accepted", "Rejected"} =>
               breaks \cap (turn.prepared + 1)..observed = {}
    PROVE  RunInv'
<1> USE DEF RunInv
<1>1. turn \in Turn
  BY Numbers
<1>2. /\ turn' \in Turn /\ turn'.state = state /\ turn'.directive = directive
      /\ turn'.observed = observed /\ turn'.purpose = turn.purpose /\ turn'.calls = turn.calls
      /\ turn'.prepared = turn.prepared /\ turn'.evidence = turn.evidence
  BY <1>1 DEF Turn
<1>3. ~HasTurn({None})'
  BY <1>2 DEF HasTurn, None, TurnStates, Closed
<1>4. TypeOK'
  BY <1>2 DEF TypeOK, OrderTypeOK, Idle, Loop
<1>5. CallInv'
  BY <1>2, <1>3, CallSettles
<1>6. OwnerInv'
  BY <1>2 DEF OwnerInv, AnswersUnderOneOwner, ObservedByNow, HasTurn
<1>7. WorkInv'
  BY <1>2, <1>3
  DEF WorkInv, LiveOnSnapshot, TerminalRunHasNoLiveWork, ReplanSeesEveryChild, ReplanDelegatesNothing,
      GateHolds, CompletionIsEarned, Nonterminal, Terminal
<1> QED BY <1>4, <1>5, <1>6, <1>7

(* The gate is shut while a turn is open.                                  *)
LEMMA NoGateWhileOpen ==
    ASSUME RunInv, HasTurn({"Prepared"})
    PROVE  tail # "Gate" /\ ~HasTurn({None})
BY DEF RunInv, WorkInv, GateHolds, FinishDecided, HasTurn, None

LEMMA CloseTurn ==
    ASSUME RunInv, NEW r \in Runtimes, NEW state \in Closed,
           runState = "Running", HasTurn({"Prepared"}),
           UNCHANGED <<runState, cancelled, claim, breaks, spent, snapshot, status, attempts, pair>>,
           driver' = driver \/ driver' = [driver EXCEPT ![r] = Idle] \/ driver' = [driver EXCEPT ![r] = Loop],
           tail' \in {"Planner", "Failure"},
           turn' = [turn EXCEPT !.state = state, !.observed = claim.generation],
           state = "Succeeded" => Contiguous
    PROVE  RunInv'
<1>1. tail # "Gate" /\ ~HasTurn({None}) /\ turn \in Turn
  BY NoGateWhileOpen, Numbers DEF RunInv
<1>2. /\ claim.generation \in 0..MaxClaims /\ claim.generation <= claim.generation
      /\ turn.directive \in Directives \cup {None} /\ state \in TurnStates
  BY <1>1, Numbers DEF RunInv, TypeOK, Turn, TurnStates
<1>3. turn' = [turn EXCEPT !.state = state, !.directive = turn.directive, !.observed = claim.generation]
  BY <1>1 DEF Turn
<1>4. turn.purpose = "EvidenceReplan" => turn.directive # "Delegate"
  BY <1>1 DEF RunInv, WorkInv, ReplanDelegatesNothing
<1>5. state \in {"Succeeded", "Accepted", "Rejected"} => breaks \cap (turn.prepared + 1)..claim.generation = {}
  BY DEF Closed, Contiguous
<1> QED BY <1>1, <1>2, <1>3, <1>4, <1>5, TurnMovesOn

LEMMA TerminalActions ==
    ASSUME RunInv, NEW r \in Runtimes,
           NotDispatched(r) \/ Answer(r) \/ GiveUp(r) \/ RecoverPrepared(r)
    PROVE  RunInv'
<1>1. ASSUME NEW state \in Closed, NEW deferred \in BOOLEAN,
             Closable(r), Close(r, state), Resolve(r, deferred), state = "Succeeded" => Contiguous
      PROVE  RunInv'
  <2>1. /\ runState = "Running" /\ HasTurn({"Prepared"})
        /\ UNCHANGED <<runState, cancelled, claim, breaks, spent, snapshot, status, attempts, pair>>
        /\ turn' = [turn EXCEPT !.state = state, !.observed = claim.generation]
        /\ tail' \in {"Planner", "Failure"}
    BY <1>1 DEF Closable, Close, authority, orders
  <2>2. driver' = [driver EXCEPT ![r] = Idle] \/ driver' = [driver EXCEPT ![r] = Loop]
    BY <1>1 DEF Resolve, Send
  <2> QED BY <1>1, <2>1, <2>2, CloseTurn
<1>2. CASE NotDispatched(r)
  <2>1. PICK state \in {"Failed", "Retryable"} : Observe(r, state) /\ Resolve(r, state = "Retryable")
    BY <1>2 DEF NotDispatched
  <2>2. (state = "Retryable") \in BOOLEAN /\ state \in Closed
    BY DEF Closed
  <2> QED BY <1>1, <2>1, <2>2 DEF Observe
<1>3. CASE Answer(r)
  <2>1. PICK state \in Outcomes : Observe(r, state) /\ Resolve(r, FALSE)
    BY <1>3 DEF Answer
  <2>2. state \in Closed
    BY DEF Closed, Outcomes
  <2> QED BY <1>1, <2>1, <2>2 DEF Observe
<1>4. CASE GiveUp(r)
  <2>1. PICK state \in {"Interrupted", "Unknown"} : CloseUnknown(r, state) /\ Resolve(r, state = "Interrupted")
    BY <1>4 DEF GiveUp
  <2>2. (state = "Interrupted") \in BOOLEAN /\ state \in Closed /\ state # "Succeeded"
    BY DEF Closed
  <2> QED BY <1>1, <2>1, <2>2 DEF CloseUnknown
<1>5. CASE RecoverPrepared(r)
  <2>1. /\ NextAction = "RecoverPrepared"
        /\ UNCHANGED <<runState, cancelled, claim, breaks, spent, snapshot, status, attempts, pair, driver>>
        /\ turn' = [turn EXCEPT !.state = "Interrupted", !.observed = claim.generation]
        /\ tail' = "Failure"
    BY <1>5 DEF RecoverPrepared, authority, orders
  <2>2. runState = "Running" /\ HasTurn({"Prepared"})
    BY <2>1, ActionMeans DEF RunInv
  <2>3. "Interrupted" \in Closed
    BY DEF Closed
  <2> QED BY <2>1, <2>2, <2>3, CloseTurn
<1> QED BY <1>2, <1>3, <1>4, <1>5

LEMMA DecideAction ==
    ASSUME RunInv, NEW r \in Runtimes, Decide(r)
    PROVE  RunInv'
<1>1. /\ NextAction = "ValidateObserved"
      /\ AcceptTurn \/ RejectTurn
      /\ tail' = "Planner"
      /\ UNCHANGED <<runState, cancelled, claim, breaks, spent, snapshot, status, attempts, pair, driver>>
  BY DEF Decide, authority, orders
<1>2. runState = "Running" /\ tail # "Gate" /\ HasTurn({"Succeeded"})
  BY <1>1, ActionMeans DEF RunInv
<1>3. ~HasTurn({None}) /\ turn \in Turn
  BY <1>2, Numbers DEF RunInv, HasTurn, None
<1>4. /\ turn.observed \in 0..MaxClaims /\ turn.observed <= claim.generation
      /\ breaks \cap (turn.prepared + 1)..turn.observed = {}
      /\ turn.directive \in Directives \cup {None}
      /\ turn.purpose = "EvidenceReplan" => turn.directive # "Delegate"
      /\ turn.purpose \in Purposes
  BY <1>2, <1>3
  DEF RunInv, OwnerInv, AnswersUnderOneOwner, ObservedByNow, HasTurn, Turn, WorkInv, ReplanDelegatesNothing
<1>5. PICK state \in {"Accepted", "Rejected"}, directive \in Directives \cup {None} :
          /\ turn' = [turn EXCEPT !.state = state, !.directive = directive, !.observed = turn.observed]
          /\ turn.purpose = "EvidenceReplan" => directive # "Delegate"
  <2>1. CASE AcceptTurn
    <3>1. PICK d \in DirectivesFor(turn.purpose) : turn' = [turn EXCEPT !.state = "Accepted", !.directive = d]
      BY <2>1 DEF AcceptTurn
    <3>2. d \in Directives /\ (turn.purpose = "EvidenceReplan" => d # "Delegate")
      BY <1>4 DEF DirectivesFor, Directives, Purposes
    <3>3. turn' = [turn EXCEPT !.state = "Accepted", !.directive = d, !.observed = turn.observed]
      BY <1>3, <3>1 DEF Turn
    <3> QED BY <3>2, <3>3
  <2>2. CASE RejectTurn
    <3>1. turn' = [turn EXCEPT !.state = "Rejected", !.directive = turn.directive, !.observed = turn.observed]
      BY <1>3, <2>2 DEF RejectTurn, Turn
    <3> QED BY <1>4, <3>1
  <2> QED BY <1>1, <2>1, <2>2
<1>6. state \in TurnStates
  BY DEF TurnStates
<1> QED BY <1>1, <1>2, <1>3, <1>4, <1>5, <1>6, TurnMovesOn

-----------------------------------------------------------------------------
(* A driver ends the run: the fence of the snapshot covers the children.   *)
LEMMA EndActions ==
    ASSUME RunInv, NEW r \in Runtimes, FailRun(r) \/ CancelRun(r)
    PROVE  RunInv'
<1> USE DEF RunInv
<1>1. /\ TerminalFence /\ runState' \in {"Failed", "Cancelled"} /\ tail' = "State"
      /\ driver' = [driver EXCEPT ![r] = Idle]
      /\ UNCHANGED <<cancelled, claim, breaks, turn, spent, snapshot, status, attempts, pair>>
  BY DEF FailRun, CancelRun, Send, authority, planner, orders
<1>2. TypeOK'
  BY <1>1 DEF TypeOK, OrderTypeOK, Terminal, Idle
<1>3. snapshot.state # "Open" /\ Nonterminal = {}
  BY <1>1 DEF TerminalFence, None, WorkInv, LiveOnSnapshot
<1>4. WorkInv'
  BY <1>1, <1>3
  DEF WorkInv, LiveOnSnapshot, TerminalFence, TerminalRunHasNoLiveWork, ReplanSeesEveryChild,
      ReplanDelegatesNothing, GateHolds, CompletionIsEarned, HasTurn, Nonterminal, None
<1> QED BY <1>1, <1>2, <1>4, CallSettles, OwnerFrame

(* The snapshot opens, is leased and released.                             *)
LEMMA SnapshotActions ==
    ASSUME RunInv, NEW r \in Runtimes, OpenCapture(r) \/ IssueLease(r) \/ ReleaseSnapshot(r)
    PROVE  RunInv'
<1> USE DEF RunInv
<1>1. /\ runState = "Running"
      /\ UNCHANGED <<runState, cancelled, claim, breaks, turn, spent, status, attempts, pair, driver>>
      /\ tail' \in {"Snapshot", "Released"}
      /\ snapshot' \in Snapshots
      /\ snapshot'.state = "Active" \/ Nonterminal = {}
  <2>1. CASE OpenCapture(r)
    <3>1. Nonterminal = {}
      BY <2>1 DEF OpenCapture, None, WorkInv, LiveOnSnapshot
    <3> QED BY <2>1, <3>1, Numbers DEF OpenCapture, Snapshots, TypeOK, authority, planner, orders
  <2>2. CASE IssueLease(r)
    BY <2>2 DEF IssueLease, Snapshots, TypeOK, authority, planner, orders
  <2>3. CASE ReleaseSnapshot(r)
    BY <2>3 DEF ReleaseSnapshot, Snapshots, TypeOK, authority, planner, orders
  <2> QED BY <2>1, <2>2, <2>3
<1>2. TypeOK'
  BY <1>1 DEF TypeOK, OrderTypeOK
<1>3. WorkInv'
  BY <1>1 DEF WorkInv, LiveOnSnapshot, TerminalRunHasNoLiveWork, ReplanSeesEveryChild,
              ReplanDelegatesNothing, GateHolds, CompletionIsEarned, HasTurn, Nonterminal, Terminal
<1> QED BY <1>1, <1>2, <1>3, CallFrame, OwnerFrame

(* The pair is bootstrapped, retried and ended.                            *)
LEMMA ChildActions ==
    ASSUME RunInv, NEW r \in Runtimes,
           Bootstrap(r) \/ \E c \in Children : RetryChild(r, c) \/ EndChild(r, c)
    PROVE  RunInv'
<1> USE DEF RunInv
<1> DEFINE Pairs == [runtime : Runtimes, bound : 0..MaxClaims, whole : [Children -> BOOLEAN], met : BOOLEAN]
<1>1. CASE Bootstrap(r)
  <2>1. /\ runState = "Running" /\ snapshot.state = "Active" /\ DelegationAccepted
        /\ status' = [c \in Children |-> "Running"] /\ attempts' = [c \in Children |-> 1]
        /\ pair' = FirstAttempts(r) /\ tail' = "Child"
        /\ UNCHANGED <<runState, cancelled, claim, breaks, turn, spent, snapshot, driver>>
    BY <1>1 DEF Bootstrap, PairAuthority, authority, planner
  <2>2. pair' \in Pairs /\ 1 \in 0..MaxAttempts
    BY <2>1, Numbers, BoundAssumption DEF FirstAttempts, TypeOK
  <2>3. TypeOK'
    BY <2>1, <2>2 DEF TypeOK, OrderTypeOK, Statuses
  <2>4. ~HasTurn({None}) /\ turn.purpose # "EvidenceReplan"
    BY <2>1 DEF DelegationAccepted, HasTurn, None, WorkInv, ReplanDelegatesNothing
  <2>5. WorkInv'
    BY <2>1, <2>4 DEF WorkInv, LiveOnSnapshot, TerminalRunHasNoLiveWork, ReplanSeesEveryChild,
                      ReplanDelegatesNothing, GateHolds, CompletionIsEarned, HasTurn, Terminal
  <2> QED BY <2>1, <2>3, <2>5, CallFrame, OwnerFrame
<1>2. ASSUME NEW c \in Children, RetryChild(r, c) \/ EndChild(r, c)
      PROVE  RunInv'
  <2>1. /\ status[c] \in {"Running", "Retryable"} /\ tail' = "Child"
        /\ UNCHANGED <<runState, cancelled, claim, breaks, turn, spent, snapshot, driver>>
    BY <1>2 DEF RetryChild, EndChild, End, authority, planner
  <2>2. /\ status' \in [Children -> Statuses] /\ attempts' \in [Children -> 0..MaxAttempts]
        /\ pair' \in Pairs
    <3>1. CASE RetryChild(r, c)
      <4>1. Begin(c)
        BY <3>1 DEF RetryChild
      <4>2. attempts[c] + 1 \in 0..MaxAttempts
        BY <4>1, BoundAssumption DEF Begin, TypeOK, OrderTypeOK
      <4>3. status' \in [Children -> Statuses] /\ attempts' \in [Children -> 0..MaxAttempts]
        BY <4>1, <4>2 DEF Begin, TypeOK, OrderTypeOK, Statuses
      <4> DEFINE m == \A d \in Children \ {c} : status[d] = "Running" /\ pair.whole[d]
      <4>4. m \in BOOLEAN /\ pair' = [pair EXCEPT !.whole[c] = TRUE, !.met = m]
        BY <3>1 DEF RetryChild
      <4> HIDE DEF m
      <4> QED BY <4>3, <4>4 DEF TypeOK
    <3>2. CASE EndChild(r, c)
      BY <3>2 DEF EndChild, End, TypeOK, OrderTypeOK, Statuses, Ended
    <3> QED BY <1>2, <3>1, <3>2
  <2>3. TypeOK'
    BY <2>1, <2>2 DEF TypeOK, OrderTypeOK
  <2>4. c \in Nonterminal
    BY <2>1 DEF Nonterminal
  <2>5. snapshot.state = "Active" /\ runState = "Running" /\ (~HasTurn({None}) => turn.purpose # "EvidenceReplan")
    BY <2>4 DEF WorkInv, LiveOnSnapshot, TerminalRunHasNoLiveWork, ReplanSeesEveryChild, TypeOK
  <2>6. WorkInv'
    BY <2>1, <2>5 DEF WorkInv, LiveOnSnapshot, TerminalRunHasNoLiveWork, ReplanSeesEveryChild,
                      ReplanDelegatesNothing, GateHolds, CompletionIsEarned, HasTurn, Terminal
  <2> QED BY <2>1, <2>3, <2>6, CallFrame, OwnerFrame
<1> QED BY <1>1, <1>2

(* The gate opens on what the completion rests on, and the run completes.  *)
LEMMA GateActions ==
    ASSUME RunInv, NEW r \in Runtimes, AcceptGate(r) \/ CompleteRun(r)
    PROVE  RunInv'
<1> USE DEF RunInv
<1>1. /\ UNCHANGED <<cancelled, claim, breaks, turn, spent, snapshot, status, attempts, pair, driver>>
      /\ ~cancelled /\ runState = "Running"
      /\ \/ runState' = "Running" /\ tail' = "Gate" /\ GateReady
         \/ runState' = "Completed" /\ tail' = "State" /\ tail = "Gate"
  BY DEF AcceptGate, CompleteRun, CurrentOwner, authority, planner, orders
<1>2. /\ FinishDecided /\ snapshot.state = "Closed" /\ Overlapped
      /\ \A c \in Children : ChildProven(c) /\ InPacket(c)
  BY <1>1 DEF GateReady, ReleasedLast, WorkInv, GateHolds
<1>3. turn \in Turn
  BY <1>2, Numbers DEF FinishDecided, HasTurn, None
<1>4. /\ turn.directive = "Finish" /\ turn.evidence = Children /\ pair.met /\ Nonterminal = {}
      /\ \A c \in Children : status[c] = "Succeeded" /\ pair.whole[c]
  BY <1>2, <1>3 DEF FinishDecided, InPacket, Turn, Overlapped, ChildProven, Nonterminal
<1>5. TypeOK'
  BY <1>1 DEF TypeOK, OrderTypeOK, Terminal
<1>6. GateHolds'
  BY <1>1, <1>2 DEF GateHolds, FinishDecided, HasTurn, Overlapped, ChildProven, InPacket
<1>7. WorkInv'
  BY <1>1, <1>2, <1>4, <1>6
  DEF WorkInv, LiveOnSnapshot, TerminalRunHasNoLiveWork, ReplanSeesEveryChild, ReplanDelegatesNothing,
      CompletionIsEarned, HasTurn, Nonterminal, Terminal
<1> QED BY <1>1, <1>5, <1>7, CallFrame, OwnerFrame

-----------------------------------------------------------------------------
LEMMA RunStep == RunInv /\ [Next]_vars => RunInv'
<1> SUFFICES ASSUME RunInv, [Next]_vars PROVE RunInv'
  OBVIOUS
<1>1. CASE UNCHANGED vars
  <2>1. UNCHANGED <<runState, cancelled, claim, breaks, tail, turn, spent, snapshot, status, attempts, pair, driver>>
    BY <1>1 DEF vars, authority, planner, orders
  <2>2. TypeOK'
    BY <2>1 DEF RunInv, TypeOK, OrderTypeOK
  <2> QED BY <2>1, <2>2, CallFrame, OwnerFrame, WorkFrame DEF RunInv
<1>2. CASE ExpireLease \/ RequestCancellation
  <2>1. AnyRuntime \in Runtimes
    BY BoundAssumption DEF AnyRuntime
  <2> QED BY <1>2, <2>1, ClaimActions
<1>3. ASSUME NEW r \in Runtimes,
             ClaimRun(r) \/ RefreshClaim(r) \/ StartDrive(r) \/ Return(r) \/ Drive(r) \/ Recon(r)
      PROVE  RunInv'
  <2>1. CASE ClaimRun(r) \/ RefreshClaim(r)
    BY <2>1, ClaimActions
  <2>2. CASE StartDrive(r) \/ Return(r)
    BY <2>2, DriverActions
  <2>3. CASE Drive(r)
    BY <2>3, PrepareTurnAction, TerminalActions, DriverActions, DecideAction, EndActions DEF Drive
  <2>4. CASE Recon(r)
    BY <2>4, SnapshotActions, ChildActions, GateActions DEF Recon
  <2> QED BY <1>3, <2>1, <2>2, <2>3, <2>4
<1> QED BY <1>1, <1>2, <1>3 DEF Next

LEMMA RunInvariant == Spec => []RunInv
<1>1. Init => RunInv
  BY Starts
<1>2. RunInv /\ [Next]_vars => RunInv'
  BY RunStep
<1> QED BY <1>1, <1>2, PTL DEF Spec

(* A completed run was never cancelled, and rests on the overlapping,      *)
(* unbroken successes of both children and on a decision that had the      *)
(* evidence of both; no turn was sent twice or believed across owners, no  *)
(* replan was made before every child had ended, and a run that is over    *)
(* holds no snapshot and no child under way.                               *)
THEOREM RunSound == Spec => []RunIsSound
<1>1. RunInv => RunIsSound
  BY DEF RunInv, CallInv, OwnerInv, WorkInv, RunIsSound, TurnsAreSound
<1> QED BY <1>1, RunInvariant, PTL
=============================================================================
