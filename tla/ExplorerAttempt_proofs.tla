----------------------- MODULE ExplorerAttempt_proofs -----------------------
(***************************************************************************)
(* Proofs about the read-only agent and about the brokers that run its     *)
(* tools, for any number of attempts, threads, brokers and calls and for   *)
(* any limits.                                                             *)
(***************************************************************************)
EXTENDS ExplorerAttempt, ToolBroker, FiniteSetTheorems, TLAPS

-----------------------------------------------------------------------------
(* The agent: its invariant                                                *)

ToolCalls == Attempts \X Nat
AgentPCs == AgentEnded \cup {"new", "loop", "calling", "judging", "preparing", "executing", "executed", "orphaned"}
Handoffs == [status : {"none", "Complete", "Partial", "Blocked"}, cited : SUBSET ToolCalls]
AgentStates ==
    [pc : AgentPCs, plan : Plans \cup {NoPlan}, revision : Nat, calls : 0..MaxModelCalls, rejections : Nat,
     tools : 0..MaxToolCalls, read : Nat, tokens : 0..MaxOutputTokens, reported : Nat \cup {NotReported},
     seen : SUBSET ToolCalls, asked : Nat, handoff : Handoffs]

AgentShape ==
    /\ lane \in [healthy : BOOLEAN, prepared : SUBSET ToolCalls, ran : SUBSET ToolCalls]
    /\ attempt \in [Attempts -> AgentStates]

\* The attempt whose call the lane is occupied by.
Holders == {"executing", "executed", "orphaned"}
HoldsLane(a) == attempt[a].pc \in Holders
Unobserved == lane.prepared \ CallsOf("ToolObserved")

\* At most one call is without an observation; while the lane is occupied it is the holder's,
\* and its preparation is durable.
LaneFollows ==
    /\ lane.healthy => Unobserved = {}
    /\ \A c, d \in Unobserved : c = d
    /\ lane.ran \subseteq CallsOf("ToolPrepared")
    /\ \A a \in Attempts : HoldsLane(a) =>
          /\ ~lane.healthy
          /\ Unobserved \subseteq {Call(a)}
          /\ Call(a) \in CallsOf("ToolPrepared")
          /\ \A b \in Attempts : HoldsLane(b) => b = a

\* What is left of an attempt's budgets: a read in progress has its reservation, a tool that is
\* about to be prepared its place, and what is left of the tokens is not yet reported.
WithinBudget(s) ==
    /\ s.pc # "overrun"
    /\ s.read + s.asked <= ReadBudget
    /\ s.pc = "preparing" => s.tools < MaxToolCalls
    /\ s.pc \notin AgentEnded \/ s.pc = "finished" => s.reported + s.tokens <= MaxOutputTokens

\* What an attempt has seen are its own durable observations, and its handoff rests on them.
Evidenced(a, s, observed) ==
    /\ \A c \in s.seen : c[1] = a /\ c \in observed
    /\ s.pc = "finished" =>
          /\ s.handoff.cited \subseteq s.seen
          /\ s.handoff.status = "Complete" =>
                s.handoff.cited # {} /\ \A step \in DOMAIN s.plan : s.plan[step] = "Completed"
          /\ s.revision >= MinimumPlanRevisions

AgentInv ==
    /\ AgentShape
    /\ LaneFollows
    /\ \A a \in Attempts : WithinBudget(attempt[a]) /\ Evidenced(a, attempt[a], CallsOf("ToolObserved"))

-----------------------------------------------------------------------------
(* The agent: parts of a step                                              *)

\* The smaller of two numbers, and the larger.
LEMMA MinOfTwo == \A x, y \in Int : Min({x, y}) = IF x <= y THEN x ELSE y
BY DEF Min
LEMMA MaxOfTwo == \A x, y \in Int : Max({x, y}) = IF x >= y THEN x ELSE y
BY DEF Max

\* A retained record is one more call of its type.
LEMMA Retained ==
    ASSUME NEW type, NEW call, Retain(type, call)
    PROVE  /\ CallsOf(type)' = CallsOf(type) \cup {call}
           /\ retained \subseteq retained'
<1> DEFINE r == [type |-> type, call |-> call]
<1>1. retained' = retained \cup {r} /\ r.type = type /\ r.call = call
  BY DEF Retain, Boundary
<1> HIDE DEF r
<1>2. Records(type)' = Records(type) \cup {r}
  BY <1>1 DEF Records
<1>3. QED
  BY <1>1, <1>2 DEF CallsOf

\* The journal only grows.
LEMMA JournalGrows ==
    ASSUME retained \subseteq retained'
    PROVE  \A type : CallsOf(type) \subseteq CallsOf(type)'
BY DEF CallsOf, Records

\* One attempt moves, and keeps what is said of an attempt; the others keep it with it.
LEMMA AttemptMoves ==
    ASSUME AgentInv, NEW a \in Attempts, NEW s \in AgentStates, Becomes(a, s), retained \subseteq retained',
           WithinBudget(s), Evidenced(a, s, CallsOf("ToolObserved")'),
           lane' \in [healthy : BOOLEAN, prepared : SUBSET ToolCalls, ran : SUBSET ToolCalls], LaneFollows'
    PROVE  AgentInv'
<1>1. attempt' \in [Attempts -> AgentStates] /\ attempt'[a] = s /\ \A b \in Attempts \ {a} : attempt'[b] = attempt[b]
  BY DEF AgentInv, AgentShape, Becomes
<1>2. CallsOf("ToolObserved") \subseteq CallsOf("ToolObserved")'
  BY JournalGrows
<1>3. ASSUME NEW b \in Attempts
      PROVE  WithinBudget(attempt'[b]) /\ Evidenced(b, attempt'[b], CallsOf("ToolObserved")')
  BY <1>1, <1>2 DEF AgentInv, Evidenced
<1>4. QED
  BY <1>1, <1>3 DEF AgentInv, AgentShape

\* An attempt that neither has nor takes the lane leaves it as it was.
LEMMA LaneIsLeft ==
    ASSUME AgentInv, NEW a \in Attempts, NEW s \in AgentStates, Becomes(a, s), UNCHANGED lane, retained \subseteq retained',
           ~HoldsLane(a), s.pc \notin Holders
    PROVE  lane' \in [healthy : BOOLEAN, prepared : SUBSET ToolCalls, ran : SUBSET ToolCalls] /\ LaneFollows'
<1>1. attempt'[a] = s /\ \A b \in Attempts \ {a} : attempt'[b] = attempt[b]
  BY DEF AgentInv, AgentShape, Becomes
<1>2. CallsOf("ToolObserved") \subseteq CallsOf("ToolObserved")' /\ CallsOf("ToolPrepared") \subseteq CallsOf("ToolPrepared")'
  BY JournalGrows
<1>3. \A b \in Attempts : HoldsLane(b)' => b # a /\ HoldsLane(b) /\ Call(b)' = Call(b)
  BY <1>1 DEF HoldsLane, Call
<1>4. Unobserved' \subseteq Unobserved
  BY <1>2 DEF Unobserved
<1>5. QED
  BY <1>2, <1>3, <1>4 DEF AgentInv, AgentShape, LaneFollows

\* The attempt goes on, or ends, without the lane.
LEMMA GoesOn ==
    ASSUME AgentInv, NEW a \in Attempts, NEW s \in AgentStates, Becomes(a, s), UNCHANGED lane, retained \subseteq retained',
           ~HoldsLane(a), s.pc \notin Holders, WithinBudget(s), Evidenced(a, s, CallsOf("ToolObserved")')
    PROVE  AgentInv'
BY LaneIsLeft, AttemptMoves

\* An attempt with what it reserved and saw.
Fit(a, s) ==
    /\ s \in AgentStates
    /\ s.read + s.asked <= ReadBudget
    /\ \A c \in s.seen : c[1] = a /\ c \in CallsOf("ToolObserved")
Owing(s) == s.reported + s.tokens <= MaxOutputTokens

\* An attempt is fit, and while it goes on it owes no more than its budget.
LEMMA AttemptIsFit ==
    ASSUME AgentInv, NEW a \in Attempts
    PROVE  Fit(a, attempt[a]) /\ (attempt[a].pc \notin AgentEnded => Owing(attempt[a]))
BY DEF AgentInv, AgentShape, WithinBudget, Evidenced, Fit, Owing

\* At its next control point it still is.
LEMMA StillFit ==
    ASSUME NEW a, NEW s, Fit(a, s), NEW pc \in AgentPCs \ {"overrun", "finished", "preparing"},
           pc \notin AgentEnded => Owing(s), retained \subseteq retained'
    PROVE  /\ [s EXCEPT !.pc = pc] \in AgentStates /\ [s EXCEPT !.pc = pc].pc = pc /\ [s EXCEPT !.pc = pc].tools = s.tools
           /\ WithinBudget([s EXCEPT !.pc = pc]) /\ Evidenced(a, [s EXCEPT !.pc = pc], CallsOf("ToolObserved")')
<1> DEFINE t == [s EXCEPT !.pc = pc]
<1>1. /\ t \in AgentStates /\ t.pc = pc /\ t.read = s.read /\ t.asked = s.asked /\ t.seen = s.seen
      /\ t.reported = s.reported /\ t.tokens = s.tokens /\ t.tools = s.tools
  BY DEF Fit, AgentStates
<1>2. CallsOf("ToolObserved") \subseteq CallsOf("ToolObserved")'
  BY JournalGrows
<1> HIDE DEF t
<1>3. WithinBudget(t) /\ Evidenced(a, t, CallsOf("ToolObserved")')
  BY <1>1, <1>2 DEF WithinBudget, Evidenced, Fit, Owing
<1>4. QED
  BY <1>1, <1>3 DEF t

\* The attempt ends as it is, or goes on owing no more than its budget.
LEMMA MovesTo ==
    ASSUME AgentInv, NEW a \in Attempts, NEW s, Fit(a, s),
           NEW pc \in {"denied", "failed", "dropped", "loop", "calling", "judging"},
           pc \in {"loop", "calling", "judging"} => Owing(s),
           End(a, s, pc), UNCHANGED lane, retained \subseteq retained', ~HoldsLane(a)
    PROVE  AgentInv'
<1> DEFINE t == [s EXCEPT !.pc = pc]
<1>1. pc \in AgentPCs \ {"overrun", "finished", "preparing"} /\ pc \notin Holders /\ (pc \notin AgentEnded => Owing(s))
  BY DEF AgentPCs, AgentEnded, Holders
<1>2. t \in AgentStates /\ t.pc = pc /\ WithinBudget(t) /\ Evidenced(a, t, CallsOf("ToolObserved")')
  BY <1>1, StillFit
<1>3. Becomes(a, t)
  BY DEF End
<1> HIDE DEF t
<1>4. QED
  BY <1>1, <1>2, <1>3, GoesOn

-----------------------------------------------------------------------------
(* The agent: its steps                                                    *)

\* What is charged for an answer: the rest of the attempt is as it was, and an answer within its
\* ceiling leaves what is reported and what is left within the budget.
LEMMA Charge ==
    ASSUME NEW a, NEW s, Fit(a, s), NEW usage \in {NotReported} \cup Usages
    PROVE  Fit(a, Charged(s, usage)) /\ (Owing(s) /\ usage <= Ceiling(s) => Owing(Charged(s, usage)))
<1>1. /\ s.tokens \in 0..MaxOutputTokens /\ MaxOutputTokens \in Nat /\ TokensPerCall \in Nat
      /\ usage \in Nat \cup {-1} /\ s.reported \in Nat \cup {-1}
  BY AgentLimits DEF AgentStates, NotReported, Fit
<1>2. Ceiling(s) = IF TokensPerCall <= s.tokens THEN TokensPerCall ELSE s.tokens
  BY <1>1, MinOfTwo DEF Ceiling
<1> DEFINE cost == IF usage = -1 THEN Ceiling(s) ELSE usage
           left == Max({0, s.tokens - cost})
           said == IF -1 \in {s.reported, usage} THEN -1 ELSE s.reported + usage
<1>3. left = IF cost >= s.tokens THEN 0 ELSE s.tokens - cost
  BY <1>1, <1>2, MaxOfTwo
<1>4. left \in 0..MaxOutputTokens /\ said \in Nat \cup {-1}
  BY <1>1, <1>2, <1>3
<1>5. s.reported + s.tokens <= MaxOutputTokens /\ usage <= Ceiling(s) => said + left <= MaxOutputTokens
  BY <1>1, <1>2, <1>3
<1>6. Charged(s, usage) = [s EXCEPT !.tokens = left, !.reported = said]
  BY DEF Charged, NotReported
<1> HIDE DEF cost, left, said
<1>7. QED
  BY <1>4, <1>5, <1>6 DEF AgentStates, NotReported, Fit, Owing

\* An attempt starts, or is refused.
LEMMA StartAgentKeeps ==
    ASSUME AgentInv, NEW a \in Attempts, StartAgent(a)
    PROVE  AgentInv'
<1>1. Fit(a, attempt[a]) /\ Owing(attempt[a]) /\ ~HoldsLane(a)
  BY AttemptIsFit DEF StartAgent, AgentAt, HoldsLane, Holders, AgentEnded
<1>2. \E pc \in {"denied", "failed", "loop"} : End(a, attempt[a], pc) /\ retained \subseteq retained' /\ UNCHANGED lane
  BY DEF StartAgent, JournalFails, Retain
<1>3. QED
  BY <1>1, <1>2, MovesTo

\* A call is prepared within the budgets, or the attempt fails.
LEMMA PrepareCallKeeps ==
    ASSUME AgentInv, NEW a \in Attempts, PrepareCall(a)
    PROVE  AgentInv'
<1> DEFINE s == [attempt[a] EXCEPT !.calls = @ + 1]
<1>1. Fit(a, attempt[a]) /\ Owing(attempt[a]) /\ ~HoldsLane(a)
  BY AttemptIsFit DEF PrepareCall, AgentAt, HoldsLane, Holders, AgentEnded
<1>2. attempt[a].calls < MaxModelCalls => Fit(a, s) /\ Owing(s)
  BY <1>1, AgentLimits DEF Fit, Owing, AgentStates
<1>3. \/ End(a, attempt[a], "failed")
      \/ attempt[a].calls < MaxModelCalls /\ \E pc \in {"failed", "calling"} : End(a, s, pc)
  BY <1>1, AgentLimits DEF PrepareCall, Fit, AgentStates
<1>4. retained \subseteq retained' /\ UNCHANGED lane
  BY DEF PrepareCall, Retain
<1> HIDE DEF s
<1>5. QED
  BY <1>1, <1>2, <1>3, <1>4, MovesTo

\* A call fails, and is charged if there was an answer.
LEMMA ModelFailsKeeps ==
    ASSUME AgentInv, NEW a \in Attempts, ModelFails(a)
    PROVE  AgentInv'
<1>1. Fit(a, attempt[a]) /\ ~HoldsLane(a)
  BY AttemptIsFit DEF ModelFails, AgentAt, HoldsLane, Holders
<1>2. retained \subseteq retained' /\ UNCHANGED lane
  BY DEF ModelFails, Retain
<1>3. PICK usage \in {NotReported} \cup Usages :
         End(a, attempt[a], "failed") \/ End(a, Charged(attempt[a], usage), "failed")
  BY DEF ModelFails
<1>4. QED
  BY <1>1, <1>2, <1>3, Charge, MovesTo

\* An answer is charged before it is judged, and one beyond its ceiling ends the attempt.
LEMMA ModelAnswersKeeps ==
    ASSUME AgentInv, NEW a \in Attempts, ModelAnswers(a)
    PROVE  AgentInv'
<1>1. Fit(a, attempt[a]) /\ Owing(attempt[a]) /\ ~HoldsLane(a)
  BY AttemptIsFit DEF ModelAnswers, AgentAt, HoldsLane, Holders, AgentEnded
<1>2. retained \subseteq retained' /\ UNCHANGED lane
  BY DEF ModelAnswers, JournalFails
<1>3. CASE JournalFails(a, attempt[a])
  BY <1>1, <1>2, <1>3, MovesTo DEF JournalFails
<1>4. CASE \E usage \in {NotReported} \cup Usages :
              \/ End(a, Charged(attempt[a], usage), "failed")
              \/ ~(usage > Ceiling(attempt[a])) /\ End(a, Charged(attempt[a], usage), "judging")
  <2>1. PICK usage \in {NotReported} \cup Usages :
              \/ End(a, Charged(attempt[a], usage), "failed")
              \/ ~(usage > Ceiling(attempt[a])) /\ End(a, Charged(attempt[a], usage), "judging")
    BY <1>4
  <2>2. usage \in Int /\ Ceiling(attempt[a]) \in Int
    BY <1>1, AgentLimits, MinOfTwo DEF Ceiling, Fit, AgentStates, NotReported
  <2>3. Fit(a, Charged(attempt[a], usage))
    BY <1>1, Charge
  <2>4. ~(usage > Ceiling(attempt[a])) => Owing(Charged(attempt[a], usage))
    BY <1>1, <2>2, Charge
  <2>5. QED
    BY <1>1, <1>2, <2>1, <2>3, <2>4, MovesTo
<1>5. QED
  BY <1>3, <1>4 DEF ModelAnswers

\* A rejected answer costs one repair, or the attempt.
LEMMA RejectKeeps ==
    ASSUME AgentInv, NEW a \in Attempts, NEW s, Fit(a, s), Owing(s), ~HoldsLane(a), Reject(a, s)
    PROVE  AgentInv'
<1> DEFINE t == [s EXCEPT !.rejections = @ + 1]
<1>1. Fit(a, t) /\ Owing(t)
  BY DEF Fit, Owing, AgentStates
<1>2. /\ \E pc \in {"failed", "loop"} : End(a, t, pc) \/ End(a, s, pc)
      /\ retained \subseteq retained' /\ UNCHANGED lane
  BY DEF Reject, JournalFails, Retain
<1> HIDE DEF t
<1>3. QED
  BY <1>1, <1>2, MovesTo

\* A handoff is accepted after enough revisions, on what the attempt itself has seen.
LEMMA FinishKeeps ==
    ASSUME AgentInv, NEW a \in Attempts, NEW s, Fit(a, s), Owing(s), ~HoldsLane(a),
           NEW answer \in Answers, answer.kind = "Finish",
           answer.status = "Complete" => \A step \in DOMAIN s.plan : s.plan[step] = "Completed",
           Finish(a, s, answer)
    PROVE  AgentInv'
<1> DEFINE h == [status |-> answer.status, cited |-> answer.cited]
           t == [s EXCEPT !.pc = "finished", !.handoff = h]
<1>1. CASE Reject(a, s)
  BY <1>1, RejectKeeps
<1>2. CASE /\ ~(s.revision < MinimumPlanRevisions) /\ FinishEvidenced(s, answer) /\ Becomes(a, t)
           /\ retained \subseteq retained' /\ UNCHANGED lane
  <2>1. answer.status \in {"Complete", "Partial", "Blocked"}
    BY DEF Answers
  <2>2. h \in Handoffs /\ h.status = answer.status /\ h.cited = answer.cited
    BY <1>2, <2>1 DEF FinishEvidenced, Handoffs, Fit, AgentStates
  <2> HIDE DEF h
  <2>3. /\ t \in AgentStates /\ t.pc = "finished" /\ t.handoff = h /\ t.plan = s.plan /\ t.revision = s.revision
        /\ t.read = s.read /\ t.asked = s.asked /\ t.seen = s.seen /\ t.reported = s.reported /\ t.tokens = s.tokens
    BY <2>2 DEF Fit, AgentStates, AgentPCs, AgentEnded
  <2>4. s.revision >= MinimumPlanRevisions
    BY <1>2, AgentLimits DEF PolicyValid, Fit, AgentStates
  <2>5. CallsOf("ToolObserved") \subseteq CallsOf("ToolObserved")'
    BY <1>2, JournalGrows
  <2> HIDE DEF t
  <2>6. WithinBudget(t)
    BY <2>3 DEF WithinBudget, Fit, Owing
  <2>7. Evidenced(a, t, CallsOf("ToolObserved")')
    BY <1>2, <2>2, <2>3, <2>4, <2>5 DEF Evidenced, FinishEvidenced, Fit
  <2>8. t.pc \notin Holders
    BY <2>3 DEF Holders
  <2>9. QED
    BY <1>2, <2>3, <2>6, <2>7, <2>8, GoesOn
<1>3. CASE End(a, s, "failed") /\ retained \subseteq retained' /\ UNCHANGED lane
  BY <1>3, MovesTo
<1>4. QED
  BY <1>1, <1>2, <1>3 DEF Finish, JournalFails, Retain

\* A tool is admitted with its reservation and its place in the budget.
LEMMA ChooseToolKeeps ==
    ASSUME AgentInv, NEW a \in Attempts, NEW s, Fit(a, s), Owing(s), ~HoldsLane(a),
           NEW answer \in Answers, answer.kind = "Tool", ChooseTool(a, s, answer)
    PROVE  AgentInv'
<1> DEFINE t == [s EXCEPT !.pc = "preparing", !.asked = answer.bytes]
<1>1. CASE Reject(a, s)
  BY <1>1, RejectKeeps
<1>2. CASE s.tools < MaxToolCalls /\ ReadReserved(s, answer) /\ Becomes(a, t) /\ retained \subseteq retained' /\ UNCHANGED lane
  <2>1. answer.bytes \in Nat
    BY AgentLimits DEF Answers
  <2>2. /\ t \in AgentStates /\ t.pc = "preparing" /\ t.asked = answer.bytes /\ t.tools = s.tools
        /\ t.read = s.read /\ t.seen = s.seen /\ t.reported = s.reported /\ t.tokens = s.tokens
    BY <2>1 DEF Fit, AgentStates, AgentPCs
  <2>3. CallsOf("ToolObserved") \subseteq CallsOf("ToolObserved")'
    BY <1>2, JournalGrows
  <2> HIDE DEF t
  <2>4. WithinBudget(t) /\ Evidenced(a, t, CallsOf("ToolObserved")') /\ t.pc \notin Holders
    BY <1>2, <2>2, <2>3 DEF WithinBudget, Evidenced, ReadReserved, Fit, Owing, Holders
  <2>5. QED
    BY <1>2, <2>2, <2>4, GoesOn
<1>3. CASE End(a, s, "failed") /\ retained \subseteq retained' /\ UNCHANGED lane
  BY <1>3, MovesTo
<1>4. CASE s.tools >= MaxToolCalls
  BY <1>1, <1>4 DEF ChooseTool
<1>5. s.tools < MaxToolCalls \/ s.tools >= MaxToolCalls
  BY AgentLimits DEF Fit, AgentStates
<1>6. QED
  BY <1>1, <1>2, <1>3, <1>4, <1>5 DEF ChooseTool, JournalFails, Retain

\* A plan that passes becomes the prior plan, whatever becomes of its action.
LEMMA JudgeKeeps ==
    ASSUME AgentInv, NEW a \in Attempts, Judge(a)
    PROVE  AgentInv'
<1>1. Fit(a, attempt[a]) /\ Owing(attempt[a]) /\ ~HoldsLane(a)
  BY AttemptIsFit DEF Judge, AgentAt, HoldsLane, Holders, AgentEnded
<1>2. PICK answer \in Answers :
          LET s == [attempt[a] EXCEPT !.plan = answer.plan, !.revision = @ + 1] IN
          IF ~PlanAccepted(attempt[a], answer) THEN Reject(a, attempt[a])
          ELSE IF answer.kind = "Finish" THEN Finish(a, s, answer) ELSE ChooseTool(a, s, answer)
  BY DEF Judge
<1> DEFINE s == [attempt[a] EXCEPT !.plan = answer.plan, !.revision = @ + 1]
<1>3. answer.plan \in Plans /\ answer.kind \in {"Finish", "Tool"}
  BY DEF Answers
<1>4. Fit(a, s) /\ Owing(s) /\ s.plan = answer.plan
  <2>1. answer.plan \in Plans \cup {NoPlan} /\ attempt[a].revision + 1 \in Nat
    BY <1>1, <1>3 DEF Fit, AgentStates
  <2>2. /\ s \in AgentStates /\ s.plan = answer.plan /\ s.read = attempt[a].read /\ s.asked = attempt[a].asked
        /\ s.seen = attempt[a].seen /\ s.reported = attempt[a].reported /\ s.tokens = attempt[a].tokens
    BY <1>1, <2>1 DEF Fit, AgentStates
  <2> HIDE DEF s
  <2>3. QED
    BY <1>1, <2>2 DEF Fit, Owing
<1>5. CASE ~PlanAccepted(attempt[a], answer)
  BY <1>1, <1>2, <1>5, RejectKeeps
<1>6. CASE PlanAccepted(attempt[a], answer) /\ answer.kind = "Finish"
  <2>1. answer.status = "Complete" => \A step \in DOMAIN answer.plan : answer.plan[step] = "Completed"
    BY <1>6 DEF PlanAccepted, ValidFinishPlanState
  <2>2. Finish(a, s, answer)
    BY <1>2, <1>6
  <2> HIDE DEF s
  <2>3. QED
    BY <1>1, <1>4, <1>6, <2>1, <2>2, FinishKeeps
<1>7. CASE PlanAccepted(attempt[a], answer) /\ answer.kind # "Finish"
  <2>1. ChooseTool(a, s, answer)
    BY <1>2, <1>7
  <2> HIDE DEF s
  <2>2. QED
    BY <1>1, <1>3, <1>4, <1>7, <2>1, ChooseToolKeeps
<1>8. QED
  BY <1>5, <1>6, <1>7

-----------------------------------------------------------------------------
(* The agent: its use of the lane                                          *)

\* The lane is taken for a call, by an attempt that may fail at once.
LEMMA TakesLane ==
    ASSUME AgentInv, NEW a \in Attempts, NEW t \in AgentStates, NEW call \in ToolCalls, Becomes(a, t), lane.healthy,
           lane' = [lane EXCEPT !.healthy = FALSE, !.prepared = @ \cup {call}], retained \subseteq retained',
           t.pc \in Holders => call = <<a, t.tools>> /\ call \in CallsOf("ToolPrepared")'
    PROVE  lane' \in [healthy : BOOLEAN, prepared : SUBSET ToolCalls, ran : SUBSET ToolCalls] /\ LaneFollows'
<1>1. attempt'[a] = t /\ \A b \in Attempts \ {a} : attempt'[b] = attempt[b]
  BY DEF AgentInv, AgentShape, Becomes
<1>2. CallsOf("ToolObserved") \subseteq CallsOf("ToolObserved")' /\ CallsOf("ToolPrepared") \subseteq CallsOf("ToolPrepared")'
  BY JournalGrows
<1>3. /\ lane' \in [healthy : BOOLEAN, prepared : SUBSET ToolCalls, ran : SUBSET ToolCalls]
      /\ lane'.healthy = FALSE /\ lane'.prepared = lane.prepared \cup {call} /\ lane'.ran = lane.ran
  BY DEF AgentInv, AgentShape
<1>4. Unobserved' \subseteq {call}
  BY <1>2, <1>3 DEF AgentInv, LaneFollows, Unobserved
<1>5. \A b \in Attempts : HoldsLane(b)' => b = a /\ t.pc \in Holders /\ Call(b)' = <<a, t.tools>>
  BY <1>1 DEF AgentInv, LaneFollows, HoldsLane, Call
<1>6. QED
  BY <1>2, <1>3, <1>4, <1>5 DEF AgentInv, LaneFollows

\* The holder goes on, or leaves the lane occupied; the call may have run.
LEMMA KeepsLane ==
    ASSUME AgentInv, NEW a \in Attempts, NEW t \in AgentStates, Becomes(a, t), HoldsLane(a), t.tools = attempt[a].tools,
           lane' \in {lane, [lane EXCEPT !.healthy = FALSE], [lane EXCEPT !.ran = @ \cup {Call(a)}]},
           retained \subseteq retained'
    PROVE  lane' \in [healthy : BOOLEAN, prepared : SUBSET ToolCalls, ran : SUBSET ToolCalls] /\ LaneFollows'
<1>1. attempt'[a] = t /\ \A b \in Attempts \ {a} : attempt'[b] = attempt[b]
  BY DEF AgentInv, AgentShape, Becomes
<1>2. CallsOf("ToolObserved") \subseteq CallsOf("ToolObserved")' /\ CallsOf("ToolPrepared") \subseteq CallsOf("ToolPrepared")'
  BY JournalGrows
<1>3. Call(a) \in ToolCalls /\ Call(a)' = Call(a)
  BY <1>1 DEF AgentInv, AgentShape, AgentStates, Call, ToolCalls
<1>4. lane.healthy = FALSE
  BY DEF AgentInv, AgentShape, LaneFollows
<1>5. /\ lane' \in [healthy : BOOLEAN, prepared : SUBSET ToolCalls, ran : SUBSET ToolCalls]
      /\ lane'.healthy = FALSE /\ lane'.prepared = lane.prepared /\ lane'.ran \subseteq lane.ran \cup {Call(a)}
  <2>1. lane \in [healthy : BOOLEAN, prepared : SUBSET ToolCalls, ran : SUBSET ToolCalls]
    BY DEF AgentInv, AgentShape
  <2>2. CASE lane' = lane
    BY <1>4, <2>1, <2>2
  <2>3. CASE lane' = [lane EXCEPT !.healthy = FALSE]
    BY <2>1, <2>3
  <2>4. CASE lane' = [lane EXCEPT !.ran = @ \cup {Call(a)}]
    BY <1>3, <1>4, <2>1, <2>4
  <2>5. QED
    BY <2>2, <2>3, <2>4
<1>6. Unobserved' \subseteq {Call(a)} /\ Call(a) \in CallsOf("ToolPrepared")
  BY <1>2, <1>5 DEF AgentInv, LaneFollows, Unobserved
<1>7. \A b \in Attempts : HoldsLane(b)' => b = a
  BY <1>1 DEF AgentInv, LaneFollows, HoldsLane
<1>8. QED
  BY <1>2, <1>3, <1>5, <1>6, <1>7 DEF AgentInv, LaneFollows

\* The lane is free again once the observation is durable.
LEMMA FreesLane ==
    ASSUME AgentInv, NEW a \in Attempts, NEW t \in AgentStates, Becomes(a, t), HoldsLane(a), t.pc \notin Holders,
           lane' = [lane EXCEPT !.healthy = TRUE], Call(a) \in CallsOf("ToolObserved")', retained \subseteq retained'
    PROVE  lane' \in [healthy : BOOLEAN, prepared : SUBSET ToolCalls, ran : SUBSET ToolCalls] /\ LaneFollows'
<1>1. attempt'[a] = t /\ \A b \in Attempts \ {a} : attempt'[b] = attempt[b]
  BY DEF AgentInv, AgentShape, Becomes
<1>2. CallsOf("ToolObserved") \subseteq CallsOf("ToolObserved")' /\ CallsOf("ToolPrepared") \subseteq CallsOf("ToolPrepared")'
  BY JournalGrows
<1>3. /\ lane' \in [healthy : BOOLEAN, prepared : SUBSET ToolCalls, ran : SUBSET ToolCalls]
      /\ lane'.prepared = lane.prepared /\ lane'.ran = lane.ran
  BY DEF AgentInv, AgentShape
<1>4. Unobserved' = {}
  BY <1>2, <1>3 DEF AgentInv, LaneFollows, Unobserved
<1>5. \A b \in Attempts : ~HoldsLane(b)'
  BY <1>1 DEF AgentInv, LaneFollows, HoldsLane
<1>6. QED
  BY <1>2, <1>3, <1>4, <1>5 DEF AgentInv, LaneFollows

\* The lane is taken before the preparation is durable.
LEMMA PrepareToolKeeps ==
    ASSUME AgentInv, NEW a \in Attempts, PrepareTool(a)
    PROVE  AgentInv'
<1> DEFINE s == [attempt[a] EXCEPT !.tools = @ + 1]
           call == <<a, s.tools>>
<1>1. Fit(a, attempt[a]) /\ Owing(attempt[a]) /\ ~HoldsLane(a) /\ attempt[a].tools < MaxToolCalls
  BY AttemptIsFit DEF PrepareTool, AgentAt, HoldsLane, Holders, AgentEnded, AgentInv, WithinBudget
<1>2. Fit(a, s) /\ Owing(s) /\ call \in ToolCalls
  BY <1>1, AgentLimits DEF Fit, Owing, AgentStates, ToolCalls
<1>3. CASE End(a, attempt[a], "failed") /\ UNCHANGED <<lane, retained>>
  BY <1>1, <1>3, MovesTo
<1>4. CASE /\ lane.healthy /\ lane' = [lane EXCEPT !.healthy = FALSE, !.prepared = @ \cup {call}]
           /\ \/ End(a, s, "failed") /\ UNCHANGED retained
              \/ End(a, s, "executing") /\ Retain("ToolPrepared", call)
  <2>1. retained \subseteq retained'
    BY <1>4 DEF Retain
  <2>2. PICK pc \in {"failed", "executing"} : End(a, s, pc) /\ (pc = "executing" => Retain("ToolPrepared", call))
    BY <1>4
  <2> DEFINE t == [s EXCEPT !.pc = pc]
  <2>3. /\ t \in AgentStates /\ t.pc = pc /\ t.tools = s.tools
        /\ WithinBudget(t) /\ Evidenced(a, t, CallsOf("ToolObserved")')
    <3> HIDE DEF s
    <3>1. QED
      BY <1>2, <2>1, StillFit DEF AgentPCs, AgentEnded
  <2>4. Becomes(a, t)
    BY <2>2 DEF End
  <2>5. t.pc \in Holders => call = <<a, t.tools>> /\ call \in CallsOf("ToolPrepared")'
    BY <2>2, <2>3, Retained DEF Holders
  <2>6. lane.healthy /\ lane' = [lane EXCEPT !.healthy = FALSE, !.prepared = @ \cup {call}]
    BY <1>4
  <2> HIDE DEF t, call, s
  <2>7. QED
    BY <1>2, <2>1, <2>3, <2>4, <2>5, <2>6, TakesLane, AttemptMoves
<1>5. QED
  BY <1>3, <1>4 DEF PrepareTool, LaneReady

\* The broker runs for the holder, whether or not its attempt is still there.
LEMMA ExecuteToolKeeps ==
    ASSUME AgentInv, NEW a \in Attempts, ExecuteTool(a)
    PROVE  AgentInv'
<1> DEFINE pc == IF AgentAt(a, "orphaned") THEN "dropped" ELSE "executed"
           t == [attempt[a] EXCEPT !.pc = pc]
<1>1. Fit(a, attempt[a]) /\ Owing(attempt[a]) /\ HoldsLane(a) /\ pc \in AgentPCs \ {"overrun", "finished", "preparing"}
  BY AttemptIsFit DEF ExecuteTool, HoldsLane, Holders, AgentEnded, AgentPCs
<1>2. /\ lane' = [lane EXCEPT !.ran = @ \cup {Call(a)}] /\ retained \subseteq retained' /\ Becomes(a, t)
  BY DEF ExecuteTool, End
<1> HIDE DEF pc
<1>3. /\ t \in AgentStates /\ t.tools = attempt[a].tools
      /\ WithinBudget(t) /\ Evidenced(a, t, CallsOf("ToolObserved")')
  BY <1>1, <1>2, StillFit
<1> HIDE DEF t
<1>4. QED
  BY <1>1, <1>2, <1>3, KeepsLane, AttemptMoves

\* What came of the call is not known: the lane stays occupied.
LEMMA ToolFailsKeeps ==
    ASSUME AgentInv, NEW a \in Attempts, ToolFails(a)
    PROVE  AgentInv'
<1> DEFINE t == [attempt[a] EXCEPT !.pc = "failed"]
<1>1. Fit(a, attempt[a]) /\ HoldsLane(a)
  BY AttemptIsFit DEF ToolFails, AgentAt, HoldsLane, Holders
<1>2. /\ lane' = [lane EXCEPT !.healthy = FALSE] /\ retained \subseteq retained' /\ Becomes(a, t)
  BY DEF ToolFails, End, Retain
<1>3. /\ t \in AgentStates /\ t.tools = attempt[a].tools
      /\ WithinBudget(t) /\ Evidenced(a, t, CallsOf("ToolObserved")')
  BY <1>1, <1>2, StillFit DEF AgentPCs, AgentEnded
<1> HIDE DEF t
<1>4. QED
  BY <1>1, <1>2, <1>3, KeepsLane, AttemptMoves

\* The observation is durable and frees the lane, or it is not and the lane stays occupied; what was
\* read was reserved.
LEMMA ToolObservedKeeps ==
    ASSUME AgentInv, NEW a \in Attempts, ToolObserved(a)
    PROVE  AgentInv'
<1> DEFINE s == attempt[a]
<1>1. Fit(a, s) /\ Owing(s) /\ HoldsLane(a) /\ Call(a) \in ToolCalls /\ Call(a)[1] = a
  BY AttemptIsFit DEF ToolObserved, AgentAt, HoldsLane, Holders, AgentEnded, Fit, AgentStates, Call, ToolCalls
<1>2. CASE UNCHANGED retained /\ MarkReady(FALSE) /\ End(a, s, "failed")
  <2> DEFINE t == [s EXCEPT !.pc = "failed"]
  <2>1. /\ t \in AgentStates /\ t.tools = s.tools
        /\ WithinBudget(t) /\ Evidenced(a, t, CallsOf("ToolObserved")')
    BY <1>1, <1>2, StillFit DEF AgentPCs, AgentEnded
  <2>2. Becomes(a, t) /\ lane' = [lane EXCEPT !.healthy = FALSE] /\ retained \subseteq retained'
    BY <1>2 DEF End, MarkReady
  <2> HIDE DEF t
  <2>3. QED
    BY <1>1, <2>1, <2>2, KeepsLane, AttemptMoves
<1>3. ASSUME Retain("ToolObserved", Call(a)), MarkReady(TRUE), NEW t, Becomes(a, t),
             t \in AgentStates, t.pc \in {"loop", "failed"}, t.read + t.asked <= ReadBudget, Owing(t),
             t.seen \subseteq s.seen \cup {Call(a)}
      PROVE  AgentInv'
  <2>1. /\ lane' = [lane EXCEPT !.healthy = TRUE] /\ retained \subseteq retained' /\ Call(a) \in CallsOf("ToolObserved")'
        /\ CallsOf("ToolObserved") \subseteq CallsOf("ToolObserved")'
    BY <1>3, Retained DEF MarkReady
  <2>2. WithinBudget(t) /\ Evidenced(a, t, CallsOf("ToolObserved")') /\ t.pc \notin Holders
    BY <1>1, <1>3, <2>1 DEF WithinBudget, Evidenced, Fit, Owing, AgentEnded, Holders
  <2>3. QED
    BY <1>1, <1>3, <2>1, <2>2, FreesLane, AttemptMoves
<1>4. CASE Retain("ToolObserved", Call(a)) /\ MarkReady(TRUE) /\ \E bytes \in 0..s.asked : Becomes(a, ReadObserved(s, Call(a), bytes))
  <2>1. PICK bytes \in 0..s.asked : Becomes(a, ReadObserved(s, Call(a), bytes))
    BY <1>4
  <2>2. s.read \in Nat /\ s.asked \in Nat /\ ReadBudget \in Nat /\ s.seen \in SUBSET ToolCalls
    BY <1>1, AgentLimits DEF Fit, AgentStates
  <2>3. s.read + bytes <= ReadBudget /\ s.read + bytes \in Nat /\ s.seen \cup {Call(a)} \in SUBSET ToolCalls
    BY <1>1, <2>1, <2>2 DEF Fit
  <2> DEFINE t == [s EXCEPT !.pc = "loop", !.read = @ + bytes, !.seen = @ \cup {Call(a)}, !.asked = 0]
  <2>4. Becomes(a, t)
    BY <2>1, <2>2, <2>3 DEF ReadObserved
  <2>5. /\ t \in AgentStates /\ t.pc = "loop" /\ t.read = s.read + bytes /\ t.asked = 0 /\ t.seen = s.seen \cup {Call(a)}
        /\ t.reported = s.reported /\ t.tokens = s.tokens
    BY <1>1, <2>3 DEF Fit, AgentStates, AgentPCs
  <2> HIDE DEF t
  <2>6. t.read + t.asked <= ReadBudget /\ Owing(t)
    BY <1>1, <2>3, <2>5 DEF Owing
  <2>7. QED
    BY <1>3, <1>4, <2>4, <2>5, <2>6
<1>5. CASE Retain("ToolObserved", Call(a)) /\ MarkReady(TRUE) /\ Becomes(a, [s EXCEPT !.pc = "loop", !.asked = 0])
  <2> DEFINE t == [s EXCEPT !.pc = "loop", !.asked = 0]
  <2>1. /\ t \in AgentStates /\ t.pc = "loop" /\ t.read = s.read /\ t.asked = 0 /\ t.seen = s.seen
        /\ t.reported = s.reported /\ t.tokens = s.tokens
    BY <1>1 DEF Fit, AgentStates, AgentPCs
  <2> HIDE DEF t
  <2>2. t.read + t.asked <= ReadBudget /\ Owing(t)
    BY <1>1, <2>1, AgentLimits DEF Owing, Fit, AgentStates
  <2>3. QED
    BY <1>3, <1>5, <2>1, <2>2 DEF t
<1>6. CASE Retain("ToolObserved", Call(a)) /\ MarkReady(TRUE) /\ End(a, s, "failed")
  <2> DEFINE t == [s EXCEPT !.pc = "failed"]
  <2>1. /\ t \in AgentStates /\ t.pc = "failed" /\ t.read = s.read /\ t.asked = s.asked /\ t.seen = s.seen
        /\ t.reported = s.reported /\ t.tokens = s.tokens /\ Becomes(a, t)
    BY <1>1, <1>6 DEF Fit, AgentStates, AgentPCs, AgentEnded, End
  <2> HIDE DEF t
  <2>2. t.read + t.asked <= ReadBudget /\ Owing(t)
    BY <1>1, <2>1 DEF Owing, Fit
  <2>3. QED
    BY <1>3, <1>6, <2>1, <2>2
<1>7. QED
  BY <1>2, <1>4, <1>5, <1>6 DEF ToolObserved

\* A dropped attempt leaves its call to the task that runs it.
LEMMA DropKeeps ==
    ASSUME AgentInv, NEW a \in Attempts, Drop(a)
    PROVE  AgentInv'
<1>1. Fit(a, attempt[a]) /\ Owing(attempt[a]) /\ retained \subseteq retained' /\ UNCHANGED lane
  BY AttemptIsFit DEF Drop, AgentEnded
<1>2. CASE AgentAt(a, "calling")
  <2>1. ~HoldsLane(a) /\ End(a, attempt[a], "dropped")
    BY <1>2 DEF Drop, AgentAt, HoldsLane, Holders
  <2>2. QED
    BY <1>1, <2>1, MovesTo
<1>3. CASE HoldsLane(a)
  <2>1. PICK pc \in {"orphaned", "dropped"} : End(a, attempt[a], pc)
    BY DEF Drop
  <2> DEFINE t == [attempt[a] EXCEPT !.pc = pc]
  <2>2. pc \in AgentPCs \ {"overrun", "finished", "preparing"}
    BY DEF AgentPCs, AgentEnded
  <2>3. /\ t \in AgentStates /\ t.tools = attempt[a].tools
        /\ WithinBudget(t) /\ Evidenced(a, t, CallsOf("ToolObserved")')
    BY <1>1, <2>2, StillFit
  <2>4. Becomes(a, t)
    BY <2>1 DEF End
  <2> HIDE DEF t
  <2>5. QED
    BY <1>1, <1>3, <2>3, <2>4, KeepsLane, AttemptMoves
<1>4. QED
  BY <1>2, <1>3 DEF Drop, AgentAt, HoldsLane, Holders

-----------------------------------------------------------------------------
(* The agent: its theorem                                                  *)

\* The invariant holds at first.
LEMMA AgentStarts == ExplorerInit => AgentInv
<1> SUFFICES ASSUME ExplorerInit PROVE AgentInv
  OBVIOUS
<1>1. NewAttempt \in AgentStates
  <2>1. NewAttempt.handoff \in Handoffs /\ NotReported = -1
    BY DEF NewAttempt, Handoffs, NotReported
  <2>2. "new" \in AgentPCs /\ 0 \in 0..MaxModelCalls /\ 0 \in 0..MaxToolCalls /\ MaxOutputTokens \in 0..MaxOutputTokens
    BY AgentLimits DEF AgentPCs
  <2>3. QED
    BY <2>1, <2>2 DEF NewAttempt, AgentStates
<1>2. \A a \in Attempts : attempt[a] = NewAttempt
  BY DEF ExplorerInit
<1>3. WithinBudget(NewAttempt) /\ \A a : Evidenced(a, NewAttempt, CallsOf("ToolObserved"))
  BY AgentLimits DEF NewAttempt, WithinBudget, Evidenced, AgentEnded
<1>4. LaneFollows
  BY <1>2 DEF ExplorerInit, LaneFollows, Unobserved, HoldsLane, Holders, NewAttempt
<1>5. AgentShape
  BY <1>1 DEF ExplorerInit, AgentShape
<1>6. QED
  BY <1>2, <1>3, <1>4, <1>5 DEF AgentInv

\* Every step keeps it.
LEMMA AgentSteps == AgentInv /\ [ExplorerNext]_explorerVars => AgentInv'
<1> SUFFICES ASSUME AgentInv, [ExplorerNext]_explorerVars PROVE AgentInv'
  OBVIOUS
<1>1. CASE UNCHANGED explorerVars
  BY <1>1 DEF explorerVars, AgentInv, AgentShape, LaneFollows, HoldsLane, Unobserved, Call, CallsOf, Records
<1>2. ASSUME NEW a \in Attempts, ExplorerStep(a) \/ Drop(a)
      PROVE  AgentInv'
  BY <1>2, StartAgentKeeps, PrepareCallKeeps, ModelFailsKeeps, ModelAnswersKeeps, JudgeKeeps, PrepareToolKeeps,
     ExecuteToolKeeps, ToolFailsKeeps, ToolObservedKeeps, DropKeeps DEF ExplorerStep
<1>3. QED
  BY <1>1, <1>2 DEF ExplorerNext

\* It holds throughout.
LEMMA AgentInvariant == ExplorerSpec => []AgentInv
BY AgentStarts, AgentSteps, PTL DEF ExplorerSpec

\* It says what is promised.
LEMMA AgentPromises == AgentInv => ExplorerIsSound
<1> SUFFICES ASSUME AgentInv PROVE ExplorerIsSound
  OBVIOUS
<1>1. ExplorerTypeOK
  BY DEF AgentInv, AgentShape, AgentStates, AgentPCs, ExplorerTypeOK
<1>2. FreeLaneIsSettled
  BY DEF AgentInv, LaneFollows, Unobserved, FreeLaneIsSettled
<1>3. EffectsAreRetainedFirst
  <2> DEFINE U == Unobserved
  <2>1. \A c, d \in U : c = d
    BY DEF AgentInv, LaneFollows
  <2>2. U = {} \/ \E c : U = {c}
    <3> HIDE DEF U
    <3>1. QED
      BY <2>1
  <2>3. Cardinality(Unobserved) <= 1
    BY <2>2, FS_EmptySet, FS_Singleton
  <2>4. QED
    BY <2>3 DEF AgentInv, LaneFollows, Unobserved, EffectsAreRetainedFirst
<1>4. HandoffIsEvidenced
  BY DEF AgentInv, Evidenced, HandoffIsEvidenced, AgentAt
<1>5. ReadsAreReserved
  BY AgentLimits DEF AgentInv, AgentShape, AgentStates, WithinBudget, ReadsAreReserved, AgentAt
<1>6. TokensAreCharged
  BY DEF AgentInv, WithinBudget, TokensAreCharged, AgentEnded
<1>7. QED
  BY <1>1, <1>2, <1>3, <1>4, <1>5, <1>6 DEF ExplorerIsSound

\* Whatever model calls, tools or the journal do, and whichever attempt is dropped: the lane is free
\* only when every call is observed, effects follow durable preparations, a handoff rests on its own
\* attempt's observations, and no budget is exceeded (repository_agent_worker.rs).
THEOREM ExplorerSound == ExplorerSpec => []ExplorerIsSound
BY AgentInvariant, AgentPromises, PTL

-----------------------------------------------------------------------------
(* The brokers: their invariant                                            *)

Prepared(b) == {r \in bundles : r.broker = b}
Started(b) == b = epoch.active \/ b \in Range(epoch.closed)

EpochShape ==
    /\ epoch.closed \in Seq(Brokers) /\ epoch.active \in Brokers \cup {"none"}
    /\ epoch.active \notin Range(epoch.closed)

BrokerShape ==
    /\ DOMAIN broker = Brokers
    /\ \A b \in Brokers :
          /\ DOMAIN broker[b] = {"open", "closed", "last", "issued", "reconciled"}
          /\ broker[b].open \in BOOLEAN /\ broker[b].last \in Nat
          /\ broker[b].closed \subseteq Range(epoch.closed)
          /\ DOMAIN broker[b].issued \subseteq Calls
          /\ \A c \in DOMAIN broker[b].issued :
                DOMAIN broker[b].issued[c] = {"digest", "consumed"} /\ broker[b].issued[c].consumed \in BOOLEAN

\* A bundle carries the decision on its own parameters, and what was carried out was authorized.
BundlesAreExact ==
    /\ \A r \in bundles : /\ r.broker \in Brokers /\ r.params \in Params /\ r.sequence \in Nat
                          /\ r.authorization = Evaluate(r.params, r.sequence)
    /\ accessed \subseteq bundles
    /\ \A r \in accessed : r.authorization = Authorized

\* A broker's sequence numbers are its bundles counted, and a broker is opened once.
SequencesFollow ==
    \A b \in Brokers :
       /\ IsFiniteSet(Prepared(b))
       /\ {r.sequence : r \in Prepared(b)} = 1..Cardinality(Prepared(b))
       /\ \A r, s \in Prepared(b) : r.sequence = s.sequence => r = s
       /\ broker[b].open => Started(b) /\ broker[b].last = Cardinality(Prepared(b))
       /\ ~Started(b) => Prepared(b) = {}

\* What an open broker has issued under a call is the bundle prepared for it.
IssuesFollow ==
    \A b \in Brokers : broker[b].open =>
       /\ \A r \in Prepared(b) : r.params.call \in DOMAIN broker[b].issued /\ broker[b].issued[r.params.call].digest = r
       /\ \A c \in DOMAIN broker[b].issued :
             broker[b].issued[c].digest \in Prepared(b) /\ broker[b].issued[c].digest.params.call = c

\* A thread works for an open broker on a bundle of its own.
WorkIsOwn(w) ==
    /\ DOMAIN w = {"kind", "broker", "bundle", "boundary", "at"}
    /\ w.kind \in {"Execute", "Interrupt"} /\ w.at \in {"validated", "consumed"}
    /\ w.broker \in Brokers /\ broker[w.broker].open
    /\ w.bundle \in bundles /\ w.bundle.broker = w.broker
    /\ w.kind = "Interrupt" => w.boundary \in Boundaries
ThreadsFollow ==
    /\ DOMAIN thread = Threads
    /\ \A t \in Threads : thread[t] = None \/ WorkIsOwn(thread[t])

\* A call that ran, is running or has a terminal of its broker is consumed; it runs in one thread,
\* before its terminal.
Spent(r) == broker[r.broker].open => broker[r.broker].issued[r.params.call].consumed = TRUE
Running(t) == thread[t].kind = "Execute" /\ thread[t].at = "consumed"
Recorded(r) == \E x \in terminals : x.bundle = r /\ x.timing = "BrokerRecorded"
CallsAreSpentOnce ==
    /\ \A r \in accessed : Spent(r)
    /\ \A r \in bundles : Recorded(r) => Spent(r)
    /\ \A t \in Threads : Running(t) =>
          /\ Spent(thread[t].bundle)
          /\ thread[t].bundle \notin accessed /\ ~Recorded(thread[t].bundle)
          /\ \A u \in Threads : Running(u) /\ thread[u].bundle = thread[t].bundle => u = t
    /\ OneTerminalPerCall /\ NoEffectClaimsAreTrue

\* A terminal can become its event; one of a reconciliation claims nothing, of a closed broker.
TerminalsFollow ==
    \A x \in terminals :
       /\ x.bundle \in bundles /\ Projectable(x)
       /\ x.timing \in {"BrokerRecorded", "RuntimeReconciled"}
       /\ x.timing = "RuntimeReconciled" => x.effect = "Indeterminate" /\ x.bundle.broker \in Range(epoch.closed)

BrokerInv ==
    /\ EpochShape /\ BrokerShape /\ BundlesAreExact /\ SequencesFollow /\ IssuesFollow
    /\ ThreadsFollow /\ CallsAreSpentOnce /\ TerminalsFollow

-----------------------------------------------------------------------------
(* The brokers: parts of a step                                            *)

\* The members of a sequence with one more element.
LEMMA RangeOfAppend ==
    ASSUME NEW S, NEW q \in Seq(S), NEW e \in S
    PROVE  Append(q, e) \in Seq(S) /\ Range(Append(q, e)) = Range(q) \cup {e}
<1>1. /\ Append(q, e) \in Seq(S) /\ Len(Append(q, e)) = Len(q) + 1 /\ Append(q, e)[Len(q) + 1] = e
      /\ \A i \in 1..Len(q) : Append(q, e)[i] = q[i]
  OBVIOUS
<1>2. DOMAIN Append(q, e) = DOMAIN q \cup {Len(q) + 1} /\ Len(q) + 1 \in DOMAIN Append(q, e)
  OBVIOUS
<1>3. \A i \in DOMAIN q : Append(q, e)[i] = q[i]
  OBVIOUS
<1>4. QED
  BY <1>1, <1>2, <1>3 DEF Range

\* When nothing in a list of checks is denied, its first check is not.
LEMMA FirstIsAuthorized ==
    ASSUME NEW q, 1 \in DOMAIN q, DOMAIN q \subseteq 1..3, First(q) = Authorized
    PROVE  q[1] = Authorized
<1> SUFFICES ASSUME q[1] # Authorized PROVE FALSE
  OBVIOUS
<1> DEFINE F == {k \in DOMAIN q : q[k] # Authorized}
<1>1. 1 \in F /\ F \subseteq 1..3
  OBVIOUS
<1>2. First(q) = q[Min(F)]
  BY DEF First
<1>3. \A y \in F : 1 <= y
  BY <1>1
<1>4. Min(F) \in F
  BY <1>1, <1>3 DEF Min
<1>5. QED
  BY <1>2, <1>4

\* A call past the ceiling of the authority is not authorized.
LEMMA AuthorizedWithinLimit ==
    ASSUME NEW p, NEW n \in Nat, Evaluate(p, n) = Authorized
    PROVE  n <= Bounds["calls"]
<1> DEFINE ceiling == Min({Bounds["calls"], Hard["calls"]})
           limits == <<Limit("calls", n, ceiling, TRUE),
                       Limit("request_bytes", p.size, Min({Bounds["request_bytes"], Hard["request_bytes"]}), TRUE),
                       GrantDecision(p)>>
<1>1. First(limits) = Authorized /\ DOMAIN limits = 1..3 /\ limits[1] = Limit("calls", n, ceiling, TRUE)
  BY DEF Evaluate
<1>2. ceiling = IF Bounds["calls"] <= Hard["calls"] THEN Bounds["calls"] ELSE Hard["calls"]
  BY BrokerParameters DEF Min
<1> HIDE DEF ceiling
<1>3. PICK q : q = limits
  OBVIOUS
<1> HIDE DEF limits
<1>4. First(q) = Authorized /\ 1 \in DOMAIN q /\ DOMAIN q \subseteq 1..3 /\ q[1] = Limit("calls", n, ceiling, TRUE)
  <2>1. First(q) = Authorized
    BY <1>1, <1>3
  <2>2. DOMAIN q = 1..3
    BY <1>1, <1>3
  <2>3. q[1] = Limit("calls", n, ceiling, TRUE)
    BY <1>1, <1>3
  <2>4. QED
    BY <2>1, <2>2, <2>3
<1>5. Limit("calls", n, ceiling, TRUE) = Authorized
  BY <1>4, FirstIsAuthorized
<1>6. ~(n > ceiling)
  BY <1>5 DEF Limit, Denied, Authorized
<1>7. QED
  BY <1>2, <1>6, BrokerParameters

\* What may happen to the brokers in a call that has been issued: it is consumed, or reconciled.
BrokersKeep ==
    /\ DOMAIN broker' = Brokers
    /\ \A b \in Brokers :
          /\ DOMAIN broker'[b] = {"open", "closed", "last", "issued", "reconciled"}
          /\ broker'[b].open = broker[b].open /\ broker'[b].last = broker[b].last /\ broker'[b].closed = broker[b].closed
          /\ DOMAIN broker'[b].issued = DOMAIN broker[b].issued
          /\ \A c \in DOMAIN broker[b].issued :
                /\ DOMAIN broker'[b].issued[c] = {"digest", "consumed"}
                /\ broker'[b].issued[c].digest = broker[b].issued[c].digest
                /\ broker'[b].issued[c].consumed \in BOOLEAN
                /\ broker[b].issued[c].consumed = TRUE => broker'[b].issued[c].consumed = TRUE

\* A call is consumed.
LEMMA ConsumeKeeps ==
    ASSUME BrokerShape, NEW b \in Brokers, NEW r, r.params.call \in DOMAIN broker[b].issued, Consume(b, r)
    PROVE  BrokersKeep /\ broker'[b].issued[r.params.call].consumed = TRUE
<1> DEFINE c == r.params.call
           i == broker[b].issued
           j == [i EXCEPT ![c] = [i[c] EXCEPT !.consumed = TRUE]]
<1>1. broker' = [broker EXCEPT ![b] = [broker[b] EXCEPT !.issued = j]]
  BY DEF Consume
<1>2. /\ DOMAIN j = DOMAIN i /\ \A d \in DOMAIN i : d # c => j[d] = i[d]
      /\ DOMAIN j[c] = {"digest", "consumed"} /\ j[c].digest = i[c].digest /\ j[c].consumed = TRUE
  BY DEF BrokerShape
<1>3. \A d \in DOMAIN i : /\ DOMAIN j[d] = {"digest", "consumed"} /\ j[d].digest = i[d].digest
                           /\ j[d].consumed \in BOOLEAN /\ (i[d].consumed = TRUE => j[d].consumed = TRUE)
  <2> SUFFICES ASSUME NEW d \in DOMAIN i
               PROVE  /\ DOMAIN j[d] = {"digest", "consumed"} /\ j[d].digest = i[d].digest
                      /\ j[d].consumed \in BOOLEAN /\ (i[d].consumed = TRUE => j[d].consumed = TRUE)
    OBVIOUS
  <2>1. CASE d = c
    <3> HIDE DEF j
    <3>1. QED
      BY <1>2, <2>1
  <2>2. CASE d # c
    <3>1. j[d] = i[d] /\ DOMAIN i[d] = {"digest", "consumed"} /\ i[d].consumed \in BOOLEAN
      BY <1>2, <2>2 DEF BrokerShape
    <3> HIDE DEF j
    <3>2. QED
      BY <3>1
  <2>3. QED
    BY <2>1, <2>2
<1> HIDE DEF j
<1>4. /\ DOMAIN broker' = Brokers /\ \A a \in Brokers : a # b => broker'[a] = broker[a]
      /\ DOMAIN broker'[b] = {"open", "closed", "last", "issued", "reconciled"}
      /\ broker'[b].open = broker[b].open /\ broker'[b].last = broker[b].last /\ broker'[b].closed = broker[b].closed
      /\ broker'[b].issued = j
  BY <1>1 DEF BrokerShape
<1>5. QED
  BY <1>2, <1>3, <1>4 DEF BrokersKeep, BrokerShape

\* A call is reconciled.
LEMMA ReconciledKeeps ==
    ASSUME BrokerShape, NEW b \in Brokers, NEW S, broker' = [broker EXCEPT ![b].reconciled = S]
    PROVE  BrokersKeep
<1>1. /\ DOMAIN broker' = Brokers /\ \A a \in Brokers : a # b => broker'[a] = broker[a]
      /\ DOMAIN broker'[b] = {"open", "closed", "last", "issued", "reconciled"}
      /\ broker'[b].open = broker[b].open /\ broker'[b].last = broker[b].last /\ broker'[b].closed = broker[b].closed
      /\ broker'[b].issued = broker[b].issued
  BY DEF BrokerShape
<1>2. QED
  BY <1>1 DEF BrokersKeep, BrokerShape

\* Nothing happens to the brokers.
LEMMA UnchangedKeeps ==
    ASSUME BrokerShape, UNCHANGED broker
    PROVE  BrokersKeep
BY DEF BrokersKeep, BrokerShape

\* Then the epochs, the bundles and the issues are as they were.
LEMMA RecordsKept ==
    ASSUME BrokerInv, BrokersKeep, UNCHANGED <<epoch, bundles>>
    PROVE  /\ EpochShape' /\ BrokerShape' /\ SequencesFollow' /\ IssuesFollow'
           /\ \A r \in bundles : Spent(r) => Spent(r)'
           /\ \A w : WorkIsOwn(w) => WorkIsOwn(w)'
<1>1. EpochShape'
  BY DEF BrokerInv, EpochShape
<1>2. BrokerShape'
  BY DEF BrokerInv, BrokerShape, BrokersKeep
<1>3. \A b : Prepared(b)' = Prepared(b) /\ (Started(b)' <=> Started(b))
  BY DEF Prepared, Started
<1>4. SequencesFollow'
  BY <1>3 DEF BrokerInv, SequencesFollow, BrokersKeep
<1>5. IssuesFollow'
  BY <1>3 DEF BrokerInv, IssuesFollow, BrokersKeep
<1>6. \A r \in bundles : Spent(r) => Spent(r)'
  <2> SUFFICES ASSUME NEW r \in bundles, Spent(r), broker'[r.broker].open
               PROVE  broker'[r.broker].issued[r.params.call].consumed = TRUE
    BY DEF Spent
  <2>1. r.broker \in Brokers /\ r \in Prepared(r.broker)
    BY DEF BrokerInv, BundlesAreExact, Prepared
  <2>2. broker[r.broker].open /\ r.params.call \in DOMAIN broker[r.broker].issued
    BY <2>1 DEF BrokersKeep, BrokerInv, IssuesFollow
  <2>3. QED
    BY <2>1, <2>2 DEF BrokersKeep, Spent
<1>7. \A w : WorkIsOwn(w) => WorkIsOwn(w)'
  BY DEF WorkIsOwn, BrokersKeep
<1>8. QED
  BY <1>1, <1>2, <1>4, <1>5, <1>6, <1>7

\* A thread turns to something else, the others go on.
LEMMA ThreadTurns ==
    ASSUME ThreadsFollow, NEW t \in Threads, NEW w, w = None \/ WorkIsOwn(w)',
           \A v : WorkIsOwn(v) => WorkIsOwn(v)', thread' = [thread EXCEPT ![t] = w]
    PROVE  ThreadsFollow'
BY DEF ThreadsFollow

\* Terminals are kept as long as there is what they speak of.
LEMMA TerminalsKept ==
    ASSUME BrokerInv, UNCHANGED terminals, bundles \subseteq bundles', Range(epoch.closed) \subseteq Range(epoch'.closed)
    PROVE  TerminalsFollow'
BY DEF BrokerInv, TerminalsFollow

\* A thread that stops running leaves what is said of the others.
LEMMA OthersRun ==
    ASSUME BrokerInv, NEW t \in Threads, NEW w, thread' = [thread EXCEPT ![t] = w]
    PROVE  thread'[t] = w /\ \A u \in Threads \ {t} : thread'[u] = thread[u] /\ (Running(u)' <=> Running(u))
BY DEF BrokerInv, ThreadsFollow, Running

\* What is said of the calls survives a step without a new terminal or access, when whoever starts
\* to run is the one that consumed the call.
LEMMA SpentKept ==
    ASSUME BrokerInv, UNCHANGED <<bundles, accessed, terminals>>, NEW t \in Threads, NEW w,
           thread' = [thread EXCEPT ![t] = w], \A q \in bundles : Spent(q) => Spent(q)',
           w.kind = "Execute" /\ w.at = "consumed" => w.bundle \in bundles /\ ~Spent(w.bundle) /\ Spent(w.bundle)'
    PROVE  CallsAreSpentOnce'
<1>1. thread'[t] = w /\ \A u \in Threads \ {t} : thread'[u] = thread[u] /\ (Running(u)' <=> Running(u))
  BY OthersRun
<1>2. \A q : Recorded(q)' <=> Recorded(q)
  BY DEF Recorded
<1>3. \A u \in Threads : Running(u) => thread[u].bundle \in bundles
  BY DEF BrokerInv, ThreadsFollow, WorkIsOwn, Running, None
<1>4. /\ \A q \in accessed : q \in bundles /\ Spent(q)
      /\ \A q \in bundles : Recorded(q) => Spent(q)
      /\ \A u \in Threads : Running(u) =>
            /\ Spent(thread[u].bundle) /\ thread[u].bundle \notin accessed /\ ~Recorded(thread[u].bundle)
            /\ \A v \in Threads : Running(v) /\ thread[v].bundle = thread[u].bundle => v = u
  BY DEF BrokerInv, CallsAreSpentOnce, BundlesAreExact
<1>5. Running(t)' => /\ w.bundle \in bundles /\ ~Spent(w.bundle) /\ Spent(w.bundle)'
                     /\ w.bundle \notin accessed /\ ~Recorded(w.bundle)
                     /\ \A u \in Threads : Running(u) => thread[u].bundle # w.bundle
  BY <1>1, <1>4 DEF Running
<1>6. (\A q \in accessed : Spent(q))' /\ (\A q \in bundles : Recorded(q) => Spent(q))'
  BY <1>2, <1>4
<1>7. ASSUME NEW u \in Threads, Running(u)', NEW c, c = thread'[u].bundle
      PROVE  /\ Spent(c)' /\ c \notin accessed /\ ~Recorded(c)
             /\ \A v \in Threads : Running(v)' /\ thread'[v].bundle = c => v = u
  <2>1. CASE u = t
    BY <1>1, <1>5, <1>7, <2>1
  <2>2. CASE u # t
    <3>1. Running(u) /\ thread[u].bundle = c /\ c \in bundles
      BY <1>1, <1>3, <1>7, <2>2
    <3>2. Spent(c)' /\ c \notin accessed /\ ~Recorded(c)
      BY <1>4, <3>1
    <3>3. \A v \in Threads \ {t} : Running(v)' /\ thread'[v].bundle = c => v = u
      BY <1>1, <1>4, <3>1
    <3>4. ~(Running(t)' /\ thread'[t].bundle = c)
      BY <1>1, <1>5, <3>1
    <3>5. QED
      BY <3>2, <3>3, <3>4
  <2>3. QED
    BY <2>1, <2>2
<1>8. OneTerminalPerCall' /\ NoEffectClaimsAreTrue'
  BY DEF BrokerInv, CallsAreSpentOnce, OneTerminalPerCall, NoEffectClaimsAreTrue
<1>9. (\A u \in Threads : Running(u) =>
           /\ Spent(thread[u].bundle) /\ thread[u].bundle \notin accessed /\ ~Recorded(thread[u].bundle)
           /\ \A v \in Threads : Running(v) /\ thread[v].bundle = thread[u].bundle => v = u)'
  <2> SUFFICES ASSUME NEW u \in Threads, Running(u)'
               PROVE  (/\ Spent(thread[u].bundle) /\ thread[u].bundle \notin accessed /\ ~Recorded(thread[u].bundle)
                       /\ \A v \in Threads : Running(v) /\ thread[v].bundle = thread[u].bundle => v = u)'
    OBVIOUS
  <2>1. PICK c : c = thread'[u].bundle
    OBVIOUS
  <2>2. /\ Spent(c)' /\ c \notin accessed' /\ ~Recorded(c)'
        /\ \A v \in Threads : Running(v)' /\ thread'[v].bundle = c => v = u
    BY <1>2, <1>7, <2>1
  <2>3. Spent(thread[u].bundle)' /\ ~Recorded(thread[u].bundle)'
    BY <2>1, <2>2 DEF Spent, Recorded
  <2>4. QED
    BY <2>1, <2>2, <2>3
<1>10. QED
  BY <1>6, <1>8, <1>9 DEF CallsAreSpentOnce

\* The broker of a call reports on it once, when the call has run or never will.
LEMMA CallReported ==
    ASSUME BrokerInv, UNCHANGED bundles, NEW t \in Threads, thread' = [thread EXCEPT ![t] = None],
           \A q \in bundles : Spent(q) => Spent(q)',
           NEW r \in bundles, Spent(r)', ~Recorded(r), \A u \in Threads \ {t} : Running(u) => thread[u].bundle # r,
           NEW x, x.bundle = r, x.timing = "BrokerRecorded", terminals' \in {terminals, terminals \cup {x}},
           accessed' \in {accessed, accessed \cup {r}}, x.effect = "NoFilesystemAccessAttempted" => r \notin accessed'
    PROVE  CallsAreSpentOnce'
<1>1. \A u \in Threads : Running(u)' => u # t /\ Running(u) /\ thread'[u].bundle = thread[u].bundle
  <2>1. thread'[t] = None /\ \A u \in Threads \ {t} : thread'[u] = thread[u] /\ (Running(u)' <=> Running(u))
    BY OthersRun
  <2>2. QED
    BY <2>1 DEF Running, None
<1>2. \A q : Recorded(q)' => Recorded(q) \/ q = r
  BY DEF Recorded
<1>3. \A y \in terminals : y.bundle = r => y.effect # "NoFilesystemAccessAttempted" /\ y.timing # "BrokerRecorded"
  BY DEF Recorded, BrokerInv, TerminalsFollow
<1>4. (\A q \in accessed : Spent(q))' /\ (\A q \in bundles : Recorded(q) => Spent(q))'
  BY <1>2 DEF BrokerInv, CallsAreSpentOnce, BundlesAreExact
<1>5. ASSUME NEW u \in Threads, Running(u)', NEW c, c = thread'[u].bundle
      PROVE  /\ Spent(c)' /\ c \notin accessed' /\ ~Recorded(c)'
             /\ \A v \in Threads : Running(v)' /\ thread'[v].bundle = c => v = u
  <2>1. Running(u) /\ thread[u].bundle = c /\ c # r
    BY <1>1, <1>5
  <2>2. c \in bundles
    BY <2>1 DEF BrokerInv, ThreadsFollow, WorkIsOwn, Running, None
  <2>3. /\ Spent(c) /\ c \notin accessed /\ ~Recorded(c)
        /\ \A v \in Threads : Running(v) /\ thread[v].bundle = c => v = u
    BY <2>1 DEF BrokerInv, CallsAreSpentOnce
  <2>4. QED
    BY <1>1, <1>2, <2>1, <2>2, <2>3
<1>6. (\A u \in Threads : Running(u) =>
           /\ Spent(thread[u].bundle) /\ thread[u].bundle \notin accessed /\ ~Recorded(thread[u].bundle)
           /\ \A v \in Threads : Running(v) /\ thread[v].bundle = thread[u].bundle => v = u)'
  <2> SUFFICES ASSUME NEW u \in Threads, Running(u)'
               PROVE  (/\ Spent(thread[u].bundle) /\ thread[u].bundle \notin accessed /\ ~Recorded(thread[u].bundle)
                       /\ \A v \in Threads : Running(v) /\ thread[v].bundle = thread[u].bundle => v = u)'
    OBVIOUS
  <2>1. PICK c : c = thread'[u].bundle
    OBVIOUS
  <2>2. /\ Spent(c)' /\ c \notin accessed' /\ ~Recorded(c)'
        /\ \A v \in Threads : Running(v)' /\ thread'[v].bundle = c => v = u
    BY <1>5, <2>1
  <2>3. Spent(thread[u].bundle)' /\ ~Recorded(thread[u].bundle)'
    BY <2>1, <2>2 DEF Spent, Recorded
  <2>4. QED
    BY <2>1, <2>2, <2>3
<1>7. OneTerminalPerCall'
  BY <1>3 DEF BrokerInv, CallsAreSpentOnce, OneTerminalPerCall
<1>8. NoEffectClaimsAreTrue'
  BY <1>3 DEF BrokerInv, CallsAreSpentOnce, NoEffectClaimsAreTrue
<1>9. QED
  BY <1>4, <1>6, <1>7, <1>8 DEF CallsAreSpentOnce

\* What is observed of a call, or not known of it, can become its event.
LEMMA ObservedIsProjectable ==
    ASSUME NEW r, r.authorization = Evaluate(r.params, r.sequence), r.params.call \notin Oversized,
           NEW kind \in ObservedKinds(r),
           NEW effect, effect = IF r.authorization # Authorized THEN "NoFilesystemAccessAttempted"
                                ELSE "ReadOnlyFilesystemAccessAttempted"
    PROVE  Projectable(Observed(r, kind, effect))
<1>1. kind \in {"Succeeded", "Failed", "AuthorizationDenied"} /\ kind # "Unknown"
  BY DEF ObservedKinds
<1>2. IF kind = "AuthorizationDenied" THEN effect = "NoFilesystemAccessAttempted"
                                      ELSE effect = "ReadOnlyFilesystemAccessAttempted"
  BY DEF ObservedKinds
<1>3. Verifies(Observed(r, kind, effect))
  BY <1>1, <1>2 DEF Verifies, Observed
<1>4. QED
  BY <1>1, <1>3 DEF Projectable, Observed

\* So can what an interruption or a reconciliation says.
LEMMA UnknownIsProjectable ==
    ASSUME NEW r, r.authorization = Evaluate(r.params, r.sequence), r.params.call \notin Oversized,
           NEW boundary \in Boundaries, NEW effect, NEW timing,
           \/ timing = "BrokerRecorded" /\ effect = "NoFilesystemAccessAttempted"
           \/ timing = "RuntimeReconciled" /\ effect = "Indeterminate"
    PROVE  Projectable(Unknown(r, effect, timing, boundary))
<1>1. Verifies(Unknown(r, effect, timing, boundary))
  BY DEF Verifies, Unknown
<1>2. boundary \in {"RuntimeRestart", "RuntimeShutdown", "Deadline", "EvidenceCommitIndeterminate", "Cancellation"}
  BY BrokerParameters DEF BoundariesKnown
<1>3. \E p \in Projections : p[3] = boundary
  BY <1>2 DEF Projections
<1>4. QED
  BY <1>1, <1>3 DEF Projectable, Unknown

-----------------------------------------------------------------------------
(* The brokers: their steps                                                *)

\* A bundle is presented, and is the one that was prepared.
LEMMA BeginKeeps ==
    ASSUME BrokerInv, NEW t \in Threads, NEW b \in Brokers, NEW kind \in {"Execute", "Interrupt"}, Begin(t, b, kind)
    PROVE  BrokerInv'
<1>1. PICK r \in Presentable, boundary \in (IF kind = "Execute" THEN {"none"} ELSE Boundaries) :
         /\ ActiveValid(b, r)
         /\ thread' = [thread EXCEPT ![t] = [kind |-> kind, broker |-> b, bundle |-> r,
                                             boundary |-> boundary, at |-> "validated"]]
  BY DEF Begin
<1> DEFINE w == [kind |-> kind, broker |-> b, bundle |-> r, boundary |-> boundary, at |-> "validated"]
<1>2. broker[b].open /\ UNCHANGED <<epoch, broker, bundles, accessed, terminals>>
  BY DEF Begin
<1>3. r \in bundles /\ r.broker = b
  BY <1>1, <1>2 DEF ActiveValid, BrokerInv, IssuesFollow, Prepared
<1>4. WorkIsOwn(w) /\ w.at = "validated"
  BY <1>1, <1>2, <1>3 DEF WorkIsOwn
<1>5. thread' = [thread EXCEPT ![t] = w]
  BY <1>1
<1> HIDE DEF w
<1>6. BrokersKeep
  BY <1>2, UnchangedKeeps DEF BrokerInv
<1>7. /\ EpochShape' /\ BrokerShape' /\ SequencesFollow' /\ IssuesFollow'
      /\ \A q \in bundles : Spent(q) => Spent(q)'
      /\ \A v : WorkIsOwn(v) => WorkIsOwn(v)'
  BY <1>2, <1>6, RecordsKept
<1>8. ThreadsFollow'
  BY <1>4, <1>5, <1>7, ThreadTurns DEF BrokerInv
<1>9. TerminalsFollow' /\ BundlesAreExact'
  BY <1>2, TerminalsKept DEF BrokerInv, BundlesAreExact
<1>10. CallsAreSpentOnce'
  BY <1>2, <1>4, <1>5, <1>7, SpentKept
<1>11. QED
  BY <1>7, <1>8, <1>9, <1>10 DEF BrokerInv

\* A call is consumed by one thread; for another it was not started.
LEMMA ExecuteConsumeKeeps ==
    ASSUME BrokerInv, NEW t \in Threads, ExecuteConsume(t)
    PROVE  BrokerInv'
<1>1. WorkIsOwn(thread[t]) /\ UNCHANGED <<epoch, bundles, accessed, terminals>>
  BY DEF ExecuteConsume, BrokerInv, ThreadsFollow, None
<1>2. PICK b, r : b = thread[t].broker /\ r = thread[t].bundle
  OBVIOUS
<1>3. /\ b \in Brokers /\ broker[b].open /\ r \in bundles /\ r.broker = b /\ r \in Prepared(b)
      /\ r.params.call \in DOMAIN broker[b].issued
  BY <1>1, <1>2 DEF WorkIsOwn, Prepared, BrokerInv, IssuesFollow
<1>4. PICK w : /\ thread' = [thread EXCEPT ![t] = w] /\ (w = None \/ WorkIsOwn(w))
               /\ BrokersKeep
               /\ w.kind = "Execute" /\ w.at = "consumed" =>
                     /\ w.bundle = r /\ broker[b].issued[r.params.call].consumed # TRUE
                     /\ broker'[b].issued[r.params.call].consumed = TRUE
  <2>1. CASE thread' = [thread EXCEPT ![t] = None] /\ UNCHANGED broker
    <3>1. BrokersKeep
      BY <2>1, UnchangedKeeps DEF BrokerInv
    <3>2. ~(None.kind = "Execute" /\ None.at = "consumed")
      BY DEF None
    <3>3. QED
      BY <2>1, <3>1, <3>2
  <2>2. CASE Consume(b, r) /\ thread' = [thread EXCEPT ![t].at = "consumed"] /\ ~Consumed(b, r)
    <3> DEFINE w == [thread[t] EXCEPT !.at = "consumed"]
    <3>1. BrokersKeep /\ broker'[b].issued[r.params.call].consumed = TRUE
      BY <1>3, <2>2, ConsumeKeeps DEF BrokerInv
    <3>2. WorkIsOwn(w) /\ w.bundle = r
      BY <1>1, <1>2 DEF WorkIsOwn
    <3>3. broker[b].issued[r.params.call].consumed # TRUE
      BY <2>2 DEF Consumed
    <3>4. thread' = [thread EXCEPT ![t] = w]
      BY <2>2
    <3> HIDE DEF w
    <3>5. QED
      BY <3>1, <3>2, <3>3, <3>4
  <2>3. QED
    BY <1>2, <2>1, <2>2 DEF ExecuteConsume
<1>5. /\ EpochShape' /\ BrokerShape' /\ SequencesFollow' /\ IssuesFollow'
      /\ \A q \in bundles : Spent(q) => Spent(q)'
      /\ \A v : WorkIsOwn(v) => WorkIsOwn(v)'
  BY <1>1, <1>4, RecordsKept
<1>6. ThreadsFollow'
  BY <1>4, <1>5, ThreadTurns DEF BrokerInv
<1>7. TerminalsFollow' /\ BundlesAreExact'
  BY <1>1, TerminalsKept DEF BrokerInv, BundlesAreExact
<1>8. broker'[b].open = broker[b].open
  BY <1>3, <1>4 DEF BrokersKeep
<1>9. w.kind = "Execute" /\ w.at = "consumed" => w.bundle \in bundles /\ ~Spent(w.bundle) /\ Spent(w.bundle)'
  BY <1>3, <1>4, <1>8 DEF Spent
<1>10. CallsAreSpentOnce'
  BY <1>1, <1>4, <1>5, <1>9, SpentKept
<1>11. QED
  BY <1>5, <1>6, <1>7, <1>10 DEF BrokerInv

\* A call that runs touches the file system when it was authorized, and is reported as what it was.
LEMMA ExecuteFinishKeeps ==
    ASSUME BrokerInv, NEW t \in Threads, ExecuteFinish(t)
    PROVE  BrokerInv'
<1>1. Running(t) /\ UNCHANGED <<epoch, broker, bundles>> /\ thread' = [thread EXCEPT ![t] = None]
  BY DEF ExecuteFinish, Running
<1>2. PICK r : r = thread[t].bundle
  OBVIOUS
<1>3. r \in bundles
  BY <1>1, <1>2 DEF BrokerInv, ThreadsFollow, WorkIsOwn, Running, None
<1>4. /\ Spent(r) /\ r \notin accessed /\ ~Recorded(r)
      /\ \A u \in Threads \ {t} : Running(u) => thread[u].bundle # r
  BY <1>1, <1>2 DEF BrokerInv, CallsAreSpentOnce
<1>5. r.authorization = Evaluate(r.params, r.sequence)
  BY <1>3 DEF BrokerInv, BundlesAreExact
<1> DEFINE denied == r.authorization # Authorized
<1>6. PICK effect : effect = IF denied THEN "NoFilesystemAccessAttempted" ELSE "ReadOnlyFilesystemAccessAttempted"
  OBVIOUS
<1>7. accessed' = IF denied THEN accessed ELSE accessed \cup {r}
  BY <1>2 DEF ExecuteFinish
<1>8. \/ UNCHANGED terminals
      \/ r.params.call \notin Oversized /\ \E kind \in ObservedKinds(r) : terminals' = terminals \cup {Observed(r, kind, effect)}
  BY <1>2, <1>6 DEF ExecuteFinish
<1>9. PICK x : /\ x.bundle = r /\ x.timing = "BrokerRecorded" /\ x.effect = effect
               /\ terminals' = terminals \/ (terminals' = terminals \cup {x} /\ Projectable(x))
  <2>1. CASE UNCHANGED terminals
    <3>1. Observed(r, "Failed", effect).bundle = r /\ Observed(r, "Failed", effect).timing = "BrokerRecorded"
          /\ Observed(r, "Failed", effect).effect = effect
      BY DEF Observed
    <3>2. QED
      BY <2>1, <3>1
  <2>2. ASSUME NEW kind \in ObservedKinds(r), r.params.call \notin Oversized,
               terminals' = terminals \cup {Observed(r, kind, effect)}
        PROVE  /\ Observed(r, kind, effect).bundle = r /\ Observed(r, kind, effect).timing = "BrokerRecorded"
               /\ Observed(r, kind, effect).effect = effect /\ Projectable(Observed(r, kind, effect))
    <3>1. Projectable(Observed(r, kind, effect))
      BY <1>5, <1>6, <2>2, ObservedIsProjectable
    <3>2. QED
      BY <3>1 DEF Observed
  <2>3. QED
    BY <1>8, <2>1, <2>2
<1>10. BrokersKeep
  BY <1>1, UnchangedKeeps DEF BrokerInv
<1>11. /\ EpochShape' /\ BrokerShape' /\ SequencesFollow' /\ IssuesFollow'
       /\ \A q \in bundles : Spent(q) => Spent(q)'
       /\ \A v : WorkIsOwn(v) => WorkIsOwn(v)'
  BY <1>1, <1>10, RecordsKept
<1>12. ThreadsFollow'
  BY <1>1, <1>11, ThreadTurns DEF BrokerInv
<1>13. BundlesAreExact'
  BY <1>1, <1>3, <1>7 DEF BrokerInv, BundlesAreExact
<1>14. TerminalsFollow'
  BY <1>1, <1>3, <1>9 DEF BrokerInv, TerminalsFollow
<1>15. CallsAreSpentOnce'
  <2>1. accessed' \in {accessed, accessed \cup {r}} /\ (x.effect = "NoFilesystemAccessAttempted" => r \notin accessed')
    BY <1>4, <1>6, <1>7, <1>9
  <2>2. Spent(r)' /\ terminals' \in {terminals, terminals \cup {x}}
    BY <1>3, <1>4, <1>9, <1>11
  <2>3. QED
    BY <1>1, <1>3, <1>4, <1>9, <1>11, <2>1, <2>2, CallReported
<1>16. QED
  BY <1>11, <1>12, <1>13, <1>14, <1>15 DEF BrokerInv

\* An interruption speaks for a call only when it is the one that consumes it.
LEMMA InterruptFinishKeeps ==
    ASSUME BrokerInv, NEW t \in Threads, InterruptFinish(t)
    PROVE  BrokerInv'
<1>1. /\ WorkIsOwn(thread[t]) /\ thread[t].kind = "Interrupt" /\ UNCHANGED <<epoch, bundles, accessed>>
      /\ thread' = [thread EXCEPT ![t] = None]
  BY DEF InterruptFinish, BrokerInv, ThreadsFollow, None
<1>2. PICK b, r, boundary : b = thread[t].broker /\ r = thread[t].bundle /\ boundary = thread[t].boundary
  OBVIOUS
<1>3. /\ b \in Brokers /\ broker[b].open /\ r \in bundles /\ r.broker = b /\ r \in Prepared(b) /\ boundary \in Boundaries
      /\ r.params.call \in DOMAIN broker[b].issued
  BY <1>1, <1>2 DEF WorkIsOwn, Prepared, BrokerInv, IssuesFollow
<1>4. r.authorization = Evaluate(r.params, r.sequence)
  BY <1>3 DEF BrokerInv, BundlesAreExact
<1> DEFINE x == Unknown(r, "NoFilesystemAccessAttempted", "BrokerRecorded", boundary)
<1>5. x.bundle = r /\ x.timing = "BrokerRecorded" /\ x.effect = "NoFilesystemAccessAttempted"
  BY DEF Unknown
<1>6. r.params.call \notin Oversized => Projectable(x)
  BY <1>3, <1>4, UnknownIsProjectable
<1>7. \/ UNCHANGED <<broker, terminals>>
      \/ /\ r.params.call \notin Oversized /\ ~Consumed(b, r) /\ Consume(b, r)
         /\ terminals' = terminals \cup {x}
  BY <1>2 DEF InterruptFinish
<1> HIDE DEF x
<1>8. BrokersKeep
  BY <1>3, <1>7, UnchangedKeeps, ConsumeKeeps DEF BrokerInv
<1>9. /\ EpochShape' /\ BrokerShape' /\ SequencesFollow' /\ IssuesFollow'
      /\ \A q \in bundles : Spent(q) => Spent(q)'
      /\ \A v : WorkIsOwn(v) => WorkIsOwn(v)'
  BY <1>1, <1>8, RecordsKept
<1>10. ThreadsFollow'
  BY <1>1, <1>9, ThreadTurns DEF BrokerInv
<1>11. BundlesAreExact'
  BY <1>1 DEF BrokerInv, BundlesAreExact
<1>12. TerminalsFollow'
  BY <1>1, <1>3, <1>5, <1>6, <1>7 DEF BrokerInv, TerminalsFollow
<1>13. CallsAreSpentOnce'
  <2>1. CASE UNCHANGED terminals
    <3>1. ~(None.kind = "Execute" /\ None.at = "consumed")
      BY DEF None
    <3>2. QED
      BY <1>1, <1>9, <2>1, <3>1, SpentKept
  <2>2. CASE ~Consumed(b, r) /\ Consume(b, r) /\ terminals' = terminals \cup {x}
    <3>1. broker'[b].issued[r.params.call].consumed = TRUE
      BY <1>3, <2>2, ConsumeKeeps DEF BrokerInv
    <3>2. ~Spent(r) /\ Spent(r)'
      BY <1>3, <2>2, <3>1 DEF Spent, Consumed
    <3>3. r \notin accessed /\ ~Recorded(r) /\ \A u \in Threads : Running(u) => thread[u].bundle # r
      BY <1>3, <3>2 DEF BrokerInv, CallsAreSpentOnce
    <3>4. accessed' \in {accessed, accessed \cup {r}} /\ r \notin accessed' /\ terminals' \in {terminals, terminals \cup {x}}
      BY <1>1, <2>2, <3>3
    <3>5. QED
      BY <1>1, <1>3, <1>5, <1>9, <3>2, <3>3, <3>4, CallReported
  <2>3. QED
    BY <1>7, <2>1, <2>2
<1>14. QED
  BY <1>9, <1>10, <1>11, <1>12, <1>13 DEF BrokerInv

\* A reconciliation claims nothing, about a call of a broker whose epoch was closed.
LEMMA ReconcileKeeps ==
    ASSUME BrokerInv, NEW b \in Brokers, NEW r \in bundles, NEW boundary \in Boundaries, Reconcile(b, r, boundary)
    PROVE  BrokerInv'
<1>1. UNCHANGED <<epoch, bundles, thread, accessed>> /\ r.broker \in broker[b].closed
  BY DEF Reconcile
<1>2. r.broker \in Range(epoch.closed) /\ r.authorization = Evaluate(r.params, r.sequence)
  BY <1>1 DEF BrokerInv, BrokerShape, BundlesAreExact
<1> DEFINE x == Unknown(r, "Indeterminate", "RuntimeReconciled", boundary)
<1>3. x.bundle = r /\ x.timing = "RuntimeReconciled" /\ x.effect = "Indeterminate"
  BY DEF Unknown
<1>4. r.params.call \notin Oversized => Projectable(x)
  BY <1>2, UnknownIsProjectable
<1>5. terminals' = terminals \/ (r.params.call \notin Oversized /\ terminals' = terminals \cup {x})
  BY DEF Reconcile
<1> HIDE DEF x
<1>6. BrokersKeep
  BY ReconciledKeeps DEF BrokerInv, Reconcile
<1>7. /\ EpochShape' /\ BrokerShape' /\ SequencesFollow' /\ IssuesFollow'
      /\ \A q \in bundles : Spent(q) => Spent(q)'
      /\ \A v : WorkIsOwn(v) => WorkIsOwn(v)'
  BY <1>1, <1>6, RecordsKept
<1>8. ThreadsFollow' /\ BundlesAreExact'
  BY <1>1, <1>7 DEF BrokerInv, ThreadsFollow, BundlesAreExact
<1>9. TerminalsFollow'
  BY <1>1, <1>2, <1>3, <1>4, <1>5 DEF BrokerInv, TerminalsFollow
<1>10. CallsAreSpentOnce'
  <2>1. \A q : Recorded(q)' <=> Recorded(q)
    BY <1>3, <1>5 DEF Recorded
  <2>2. \A u \in Threads : (Running(u)' <=> Running(u)) /\ (Running(u) => thread[u].bundle \in bundles)
    BY <1>1 DEF Running, BrokerInv, ThreadsFollow, WorkIsOwn, None
  <2>3. OneTerminalPerCall' /\ NoEffectClaimsAreTrue'
    BY <1>1, <1>3, <1>5 DEF BrokerInv, CallsAreSpentOnce, OneTerminalPerCall, NoEffectClaimsAreTrue
  <2>4. ASSUME NEW u \in Threads, Running(u)
        PROVE  Spent(thread[u].bundle)'
    <3>1. PICK c \in bundles : c = thread[u].bundle
      BY <2>2, <2>4
    <3>2. Spent(c)'
      BY <1>7, <2>4, <3>1 DEF BrokerInv, CallsAreSpentOnce
    <3>3. QED
      BY <1>1, <3>1, <3>2 DEF Spent
  <2>5. (\A q \in accessed : Spent(q))' /\ (\A q \in bundles : Recorded(q) => Spent(q))'
    BY <1>1, <1>7, <2>1 DEF BrokerInv, CallsAreSpentOnce, BundlesAreExact
  <2>6. QED
    BY <1>1, <2>1, <2>2, <2>3, <2>4, <2>5 DEF BrokerInv, CallsAreSpentOnce
<1>11. QED
  BY <1>7, <1>8, <1>9, <1>10 DEF BrokerInv

\* A broker is opened once, with nothing issued; the one before it is closed.
LEMMA OpenBrokerKeeps ==
    ASSUME BrokerInv, NEW b \in Brokers, OpenBroker(b)
    PROVE  BrokerInv'
<1> DEFINE e == [active |-> b, closed |-> IF epoch.active = "none" THEN epoch.closed ELSE Append(epoch.closed, epoch.active)]
           s == [Fresh EXCEPT !.open = TRUE, !.closed = Range(e.closed)]
<1>1. /\ ~Started(b) /\ EpochValid(e) /\ epoch' = e /\ broker' = [broker EXCEPT ![b] = s]
      /\ UNCHANGED <<bundles, thread, accessed, terminals>>
  BY DEF OpenBroker, Started
<1>2. /\ epoch'.active = b /\ epoch'.closed \in Seq(Brokers) /\ b \notin Range(epoch'.closed)
      /\ Range(epoch'.closed) = Range(epoch.closed) \cup ({epoch.active} \ {"none"})
  <2>1. epoch.closed \in Seq(Brokers) /\ epoch.active \in Brokers \cup {"none"} /\ "none" \notin Brokers
    BY BrokerParameters DEF BrokerInv, EpochShape
  <2>2. epoch'.active = b /\ b \notin Range(epoch'.closed)
    BY <1>1 DEF EpochValid
  <2>3. CASE epoch.active = "none"
    <3>1. epoch'.closed = epoch.closed
      BY <1>1, <2>3
    <3>2. QED
      BY <2>1, <2>2, <2>3, <3>1
  <2>4. CASE epoch.active # "none"
    <3>1. epoch'.closed = Append(epoch.closed, epoch.active) /\ epoch.active \in Brokers
      BY <1>1, <2>1, <2>4
    <3>2. QED
      BY <2>1, <2>2, <2>4, <3>1, RangeOfAppend
  <2>5. QED
    BY <2>3, <2>4
<1>3. /\ DOMAIN s = {"open", "closed", "last", "issued", "reconciled"} /\ s.open = TRUE /\ s.last = 0
      /\ s.closed = Range(epoch'.closed) /\ DOMAIN s.issued = {}
  BY <1>1 DEF Fresh
<1> HIDE DEF s, e
<1>4. DOMAIN broker' = Brokers /\ broker'[b] = s /\ \A a \in Brokers \ {b} : broker'[a] = broker[a]
  BY <1>1 DEF BrokerInv, BrokerShape
<1>5. Prepared(b) = {} /\ \A a : Prepared(a)' = Prepared(a)
  BY <1>1 DEF BrokerInv, SequencesFollow, Prepared
<1>6. EpochShape'
  BY <1>2 DEF EpochShape
<1>7. BrokerShape'
  <2>1. ASSUME NEW a \in Brokers \ {b}
        PROVE  broker'[a].closed \subseteq Range(epoch'.closed)
    BY <1>2, <1>4, <2>1 DEF BrokerInv, BrokerShape
  <2>2. /\ DOMAIN broker'[b] = {"open", "closed", "last", "issued", "reconciled"}
        /\ broker'[b].open \in BOOLEAN /\ broker'[b].last \in Nat
        /\ broker'[b].closed \subseteq Range(epoch'.closed) /\ DOMAIN broker'[b].issued = {}
    <3>1. broker'[b].open = TRUE /\ broker'[b].last = 0 /\ TRUE \in BOOLEAN /\ 0 \in Nat
      BY <1>3, <1>4
    <3>2. DOMAIN broker'[b] = {"open", "closed", "last", "issued", "reconciled"} /\ DOMAIN broker'[b].issued = {}
      BY <1>3, <1>4
    <3>3. broker'[b].closed \subseteq Range(epoch'.closed)
      BY <1>3, <1>4
    <3>4. QED
      BY <3>1, <3>2, <3>3
  <2>3. QED
    BY <1>4, <2>1, <2>2 DEF BrokerInv, BrokerShape
<1>8. SequencesFollow'
  <2>1. IsFiniteSet({}) /\ Cardinality({}) = 0
    BY FS_EmptySet
  <2>2. \A a \in Brokers : Started(a) \/ a = b => Started(a)'
    BY <1>1, <1>2, BrokerParameters DEF Started
  <2>3. ASSUME NEW a \in Brokers
        PROVE  /\ IsFiniteSet(Prepared(a))
               /\ {r.sequence : r \in Prepared(a)} = 1..Cardinality(Prepared(a))
               /\ \A q, r \in Prepared(a) : q.sequence = r.sequence => q = r
               /\ broker'[a].open => Started(a)' /\ broker'[a].last = Cardinality(Prepared(a))
               /\ ~Started(a)' => Prepared(a) = {}
    BY <1>3, <1>4, <1>5, <2>1, <2>2, <2>3 DEF BrokerInv, SequencesFollow
  <2>4. QED
    BY <1>5, <2>3 DEF SequencesFollow
<1>9. IssuesFollow'
  BY <1>3, <1>4, <1>5 DEF BrokerInv, IssuesFollow
<1>10. \A r \in bundles : r.broker \in Brokers \ {b}
  BY <1>5 DEF BrokerInv, BundlesAreExact, Prepared
<1>11. BundlesAreExact' /\ TerminalsFollow'
  BY <1>1, <1>2, TerminalsKept DEF BrokerInv, BundlesAreExact
<1>12. ThreadsFollow'
  <2>1. \A w : WorkIsOwn(w) => WorkIsOwn(w)'
    BY <1>1, <1>4, <1>10 DEF WorkIsOwn
  <2>2. QED
    BY <1>1, <2>1 DEF BrokerInv, ThreadsFollow
<1>13. CallsAreSpentOnce'
  <2>1. \A r \in bundles : Spent(r)' <=> Spent(r)
    BY <1>4, <1>10 DEF Spent
  <2>2. \A u \in Threads : (Running(u)' <=> Running(u)) /\ (Running(u) => thread[u].bundle \in bundles)
    BY <1>1 DEF Running, BrokerInv, ThreadsFollow, WorkIsOwn, None
  <2>3. OneTerminalPerCall' /\ NoEffectClaimsAreTrue' /\ \A q : Recorded(q)' <=> Recorded(q)
    BY <1>1 DEF BrokerInv, CallsAreSpentOnce, OneTerminalPerCall, NoEffectClaimsAreTrue, Recorded
  <2>4. ASSUME NEW u \in Threads, Running(u)
        PROVE  Spent(thread[u].bundle)'
    <3>1. PICK c \in bundles : c = thread[u].bundle
      BY <2>2, <2>4
    <3>2. Spent(c)'
      BY <2>1, <2>4, <3>1 DEF BrokerInv, CallsAreSpentOnce
    <3>3. QED
      BY <1>1, <3>1, <3>2 DEF Spent
  <2>5. (\A q \in accessed : Spent(q))' /\ (\A q \in bundles : Recorded(q) => Spent(q))'
    BY <1>1, <2>1, <2>3 DEF BrokerInv, CallsAreSpentOnce, BundlesAreExact
  <2>6. QED
    BY <1>1, <2>2, <2>3, <2>4, <2>5 DEF BrokerInv, CallsAreSpentOnce
<1>14. QED
  BY <1>6, <1>7, <1>8, <1>9, <1>11, <1>12, <1>13 DEF BrokerInv

\* The next sequence number and the issue appear together.
LEMMA PrepareKeeps ==
    ASSUME BrokerInv, NEW b \in Brokers, NEW p \in Params, Prepare(b, p)
    PROVE  BrokerInv'
<1> DEFINE n == broker[b].last + 1
           r == [params |-> p, authority |-> "own", sequence |-> n, authorization |-> Evaluate(p, n), broker |-> b]
           i == broker[b].issued
           j == [c \in DOMAIN i \cup {p.call} |-> IF c = p.call THEN [digest |-> r, consumed |-> FALSE] ELSE i[c]]
           s == [broker[b] EXCEPT !.last = n, !.issued = j]
<1>1. /\ broker[b].open /\ p.call \notin DOMAIN i /\ broker' = [broker EXCEPT ![b] = s] /\ bundles' = bundles \cup {r}
      /\ UNCHANGED <<epoch, thread, accessed, terminals>>
  BY DEF Prepare, BrokerInv, BrokerShape
<1>2. n \in Nat /\ p.call \in Calls
  BY BrokerParameters DEF BrokerInv, BrokerShape
<1>3. r.params = p /\ r.sequence = n /\ r.authorization = Evaluate(p, n) /\ r.broker = b
  OBVIOUS
<1> HIDE DEF r
<1>4. /\ DOMAIN j = DOMAIN i \cup {p.call}
      /\ DOMAIN j[p.call] = {"digest", "consumed"} /\ j[p.call].digest = r /\ j[p.call].consumed = FALSE
      /\ \A c \in DOMAIN i : j[c] = i[c]
  BY <1>1
<1> HIDE DEF j
<1>5. /\ DOMAIN s = {"open", "closed", "last", "issued", "reconciled"} /\ s.open = broker[b].open /\ s.last = n
      /\ s.closed = broker[b].closed /\ s.issued = j
  BY DEF BrokerInv, BrokerShape
<1> HIDE DEF s
<1>6. DOMAIN broker' = Brokers /\ broker'[b] = s /\ \A a \in Brokers \ {b} : broker'[a] = broker[a]
  BY <1>1 DEF BrokerInv, BrokerShape
<1>7. Prepared(b)' = Prepared(b) \cup {r} /\ \A a \in Brokers \ {b} : Prepared(a)' = Prepared(a)
  BY <1>1, <1>3 DEF Prepared
<1>8. r \notin Prepared(b) /\ r \notin bundles
  <2>1. \A q \in Prepared(b) : q.sequence \in 1..broker[b].last
    BY <1>1 DEF BrokerInv, SequencesFollow
  <2>2. broker[b].last \in Nat
    BY DEF BrokerInv, BrokerShape
  <2>3. r \notin Prepared(b)
    BY <1>3, <2>1, <2>2
  <2>4. QED
    BY <1>3, <2>3 DEF Prepared
<1>9. EpochShape'
  BY <1>1 DEF BrokerInv, EpochShape
<1>10. BrokerShape'
  <2>1. \A c \in DOMAIN j : DOMAIN j[c] = {"digest", "consumed"} /\ j[c].consumed \in BOOLEAN
    BY <1>4 DEF BrokerInv, BrokerShape
  <2>2. DOMAIN j \subseteq Calls
    BY <1>2, <1>4 DEF BrokerInv, BrokerShape
  <2>3. broker[b].open \in BOOLEAN /\ broker[b].closed \subseteq Range(epoch.closed)
    BY DEF BrokerInv, BrokerShape
  <2>4. /\ DOMAIN broker'[b] = {"open", "closed", "last", "issued", "reconciled"}
        /\ broker'[b].open \in BOOLEAN /\ broker'[b].last \in Nat
        /\ broker'[b].closed \subseteq Range(epoch'.closed) /\ broker'[b].issued = j
    <3>1. broker'[b].open = broker[b].open /\ broker'[b].closed = broker[b].closed
      BY <1>5, <1>6
    <3>2. QED
      BY <1>1, <1>2, <1>5, <1>6, <2>3, <3>1
  <2>5. QED
    BY <1>1, <1>6, <2>1, <2>2, <2>4 DEF BrokerInv, BrokerShape
<1>11. BundlesAreExact'
  BY <1>1, <1>2, <1>3 DEF BrokerInv, BundlesAreExact
<1>12. SequencesFollow'
  <2>1. /\ IsFiniteSet(Prepared(b)) /\ broker[b].last = Cardinality(Prepared(b)) /\ broker[b].last \in Nat
        /\ {q.sequence : q \in Prepared(b)} = 1..broker[b].last
        /\ \A q, x \in Prepared(b) : q.sequence = x.sequence => q = x
    BY <1>1 DEF BrokerInv, SequencesFollow, BrokerShape
  <2>2. IsFiniteSet(Prepared(b)') /\ Cardinality(Prepared(b)') = n
    BY <1>7, <1>8, <2>1, FS_AddElement
  <2>3. {q.sequence : q \in Prepared(b)'} = (1..broker[b].last) \cup {n}
    BY <1>3, <1>7, <2>1
  <2>4. (1..broker[b].last) \cup {n} = 1..n
    BY <2>1
  <2>5. \A q \in Prepared(b) : q.sequence # n
    BY <2>1
  <2>6. \A q, x \in Prepared(b)' : q.sequence = x.sequence => q = x
    BY <1>3, <1>7, <2>1, <2>5
  <2>7. \A a \in Brokers : Started(a)' <=> Started(a)
    BY <1>1 DEF Started
  <2>8. Started(b)
    BY <1>1 DEF BrokerInv, SequencesFollow
  <2>9. ASSUME NEW a \in Brokers
        PROVE  /\ IsFiniteSet(Prepared(a)')
               /\ {q.sequence : q \in Prepared(a)'} = 1..Cardinality(Prepared(a)')
               /\ \A q, x \in Prepared(a)' : q.sequence = x.sequence => q = x
               /\ broker'[a].open => Started(a)' /\ broker'[a].last = Cardinality(Prepared(a)')
               /\ ~Started(a)' => Prepared(a)' = {}
    <3>1. CASE a = b
      BY <1>5, <1>6, <2>2, <2>3, <2>4, <2>6, <2>7, <2>8, <3>1
    <3>2. CASE a # b
      BY <1>6, <1>7, <2>7, <3>2 DEF BrokerInv, SequencesFollow
    <3>3. QED
      BY <3>1, <3>2
  <2>10. QED
    BY <2>9 DEF SequencesFollow
<1>13. IssuesFollow'
  <2>1. ASSUME NEW a \in Brokers, broker'[a].open
        PROVE  /\ \A q \in Prepared(a)' : /\ q.params.call \in DOMAIN broker'[a].issued
                                         /\ broker'[a].issued[q.params.call].digest = q
               /\ \A c \in DOMAIN broker'[a].issued :
                     broker'[a].issued[c].digest \in Prepared(a)' /\ broker'[a].issued[c].digest.params.call = c
    <3>1. CASE a = b
      <4>1. /\ \A q \in Prepared(b) : q.params.call \in DOMAIN i /\ i[q.params.call].digest = q
            /\ \A c \in DOMAIN i : i[c].digest \in Prepared(b) /\ i[c].digest.params.call = c
        BY <1>1 DEF BrokerInv, IssuesFollow
      <4> HIDE DEF i
      <4>2. QED
        BY <1>3, <1>4, <1>5, <1>6, <1>7, <3>1, <4>1
    <3>2. CASE a # b
      BY <1>6, <1>7, <2>1, <3>2 DEF BrokerInv, IssuesFollow
    <3>3. QED
      BY <3>1, <3>2
  <2>2. QED
    BY <2>1 DEF IssuesFollow
<1>14. \A q \in bundles : Spent(q) => Spent(q)'
  <2> SUFFICES ASSUME NEW q \in bundles, Spent(q), broker'[q.broker].open
               PROVE  broker'[q.broker].issued[q.params.call].consumed = TRUE
    BY DEF Spent
  <2>1. q.broker \in Brokers /\ q \in Prepared(q.broker)
    BY DEF BrokerInv, BundlesAreExact, Prepared
  <2>2. CASE q.broker = b
    <3>1. q.params.call \in DOMAIN i /\ i[q.params.call].consumed = TRUE
      BY <1>1, <2>1, <2>2 DEF BrokerInv, IssuesFollow, Spent
    <3>2. QED
      BY <1>4, <1>5, <1>6, <2>2, <3>1
  <2>3. CASE q.broker # b
    BY <1>6, <2>1, <2>3 DEF Spent
  <2>4. QED
    BY <2>2, <2>3
<1>15. ThreadsFollow'
  <2>1. \A a \in Brokers : broker'[a].open = broker[a].open
    BY <1>5, <1>6
  <2>2. \A w : WorkIsOwn(w) => WorkIsOwn(w)'
    BY <1>1, <2>1 DEF WorkIsOwn
  <2>3. QED
    BY <1>1, <2>2 DEF BrokerInv, ThreadsFollow
<1>16. TerminalsFollow'
  BY <1>1, TerminalsKept
<1>17. CallsAreSpentOnce'
  <2>1. \A u \in Threads : (Running(u)' <=> Running(u)) /\ (Running(u) => thread[u].bundle \in bundles)
    BY <1>1 DEF Running, BrokerInv, ThreadsFollow, WorkIsOwn, None
  <2>2. OneTerminalPerCall' /\ NoEffectClaimsAreTrue' /\ \A q : Recorded(q)' <=> Recorded(q)
    BY <1>1 DEF BrokerInv, CallsAreSpentOnce, OneTerminalPerCall, NoEffectClaimsAreTrue, Recorded
  <2>3. \A q : Recorded(q) => q \in bundles
    BY DEF BrokerInv, TerminalsFollow, Recorded
  <2>4. ASSUME NEW u \in Threads, Running(u)
        PROVE  Spent(thread[u].bundle)'
    <3>1. PICK c \in bundles : c = thread[u].bundle
      BY <2>1, <2>4
    <3>2. Spent(c)'
      BY <1>14, <2>4, <3>1 DEF BrokerInv, CallsAreSpentOnce
    <3>3. QED
      BY <1>1, <3>1, <3>2 DEF Spent
  <2>5. (\A q \in accessed : Spent(q))'
    BY <1>1, <1>14 DEF BrokerInv, CallsAreSpentOnce, BundlesAreExact
  <2>6. (\A q \in bundles : Recorded(q) => Spent(q))'
    BY <1>14, <2>2, <2>3 DEF BrokerInv, CallsAreSpentOnce
  <2>7. QED
    BY <1>1, <2>1, <2>2, <2>4, <2>5, <2>6 DEF BrokerInv, CallsAreSpentOnce
<1>18. QED
  BY <1>9, <1>10, <1>11, <1>12, <1>13, <1>15, <1>16, <1>17 DEF BrokerInv

\* A broker that stops takes its threads with it, and is never opened again.
LEMMA CrashKeeps ==
    ASSUME BrokerInv, NEW b \in Brokers, Crash(b)
    PROVE  BrokerInv'
<1>1. /\ broker' = [broker EXCEPT ![b] = Fresh] /\ UNCHANGED <<epoch, bundles, accessed, terminals>>
      /\ thread' = [t \in Threads |-> IF thread[t] # None /\ thread[t].broker = b THEN None ELSE thread[t]]
  BY DEF Crash
<1>2. /\ DOMAIN broker' = Brokers /\ \A a \in Brokers \ {b} : broker'[a] = broker[a]
      /\ DOMAIN broker'[b] = {"open", "closed", "last", "issued", "reconciled"} /\ ~broker'[b].open /\ broker'[b].open \in BOOLEAN
      /\ broker'[b].last = 0 /\ broker'[b].closed = {} /\ DOMAIN broker'[b].issued = {}
  BY <1>1 DEF BrokerInv, BrokerShape, Fresh
<1>3. \A a : Prepared(a)' = Prepared(a) /\ (Started(a)' <=> Started(a))
  BY <1>1 DEF Prepared, Started
<1>4. EpochShape'
  BY <1>1 DEF BrokerInv, EpochShape
<1>5. BrokerShape'
  BY <1>1, <1>2 DEF BrokerInv, BrokerShape
<1>6. BundlesAreExact' /\ TerminalsFollow'
  BY <1>1, TerminalsKept DEF BrokerInv, BundlesAreExact
<1>7. SequencesFollow'
  BY <1>2, <1>3 DEF BrokerInv, SequencesFollow
<1>8. IssuesFollow'
  BY <1>2, <1>3 DEF BrokerInv, IssuesFollow
<1>9. \A t \in Threads : thread'[t] = None \/ (thread'[t] = thread[t] /\ WorkIsOwn(thread[t]) /\ thread[t].broker # b)
  BY <1>1 DEF BrokerInv, ThreadsFollow
<1>10. \A w : WorkIsOwn(w) /\ w.broker # b => WorkIsOwn(w)'
  BY <1>1, <1>2 DEF WorkIsOwn
<1>11. ThreadsFollow'
  BY <1>1, <1>9, <1>10 DEF ThreadsFollow
<1>12. \A q \in bundles : Spent(q) => Spent(q)'
  BY <1>2 DEF Spent, BrokerInv, BundlesAreExact
<1>13. CallsAreSpentOnce'
  <2>1. \A u \in Threads : Running(u)' => Running(u) /\ thread'[u] = thread[u] /\ thread[u].bundle \in bundles
    BY <1>9 DEF Running, WorkIsOwn, None
  <2>2. OneTerminalPerCall' /\ NoEffectClaimsAreTrue' /\ \A q : Recorded(q)' <=> Recorded(q)
    BY <1>1 DEF BrokerInv, CallsAreSpentOnce, OneTerminalPerCall, NoEffectClaimsAreTrue, Recorded
  <2>3. ASSUME NEW u \in Threads, Running(u)'
        PROVE  Spent(thread[u].bundle)'
    <3>1. PICK c \in bundles : c = thread[u].bundle
      BY <2>1, <2>3
    <3>2. Spent(c)'
      BY <1>12, <2>1, <2>3, <3>1 DEF BrokerInv, CallsAreSpentOnce
    <3>3. QED
      BY <2>1, <2>3, <3>1, <3>2 DEF Spent
  <2>4. (\A q \in accessed : Spent(q))' /\ (\A q \in bundles : Recorded(q) => Spent(q))'
    BY <1>1, <1>12, <2>2 DEF BrokerInv, CallsAreSpentOnce, BundlesAreExact
  <2>5. QED
    BY <1>1, <2>1, <2>2, <2>3, <2>4 DEF BrokerInv, CallsAreSpentOnce
<1>14. QED
  BY <1>4, <1>5, <1>6, <1>7, <1>8, <1>11, <1>13 DEF BrokerInv

-----------------------------------------------------------------------------
(* The brokers: their theorem                                              *)

\* The invariant holds at first.
LEMMA BrokersStart == Init => BrokerInv
<1> SUFFICES ASSUME Init PROVE BrokerInv
  OBVIOUS
<1>1. /\ DOMAIN Fresh = {"open", "closed", "last", "issued", "reconciled"} /\ Fresh.open = FALSE /\ Fresh.last = 0
      /\ Fresh.closed = {} /\ DOMAIN Fresh.issued = {}
  BY DEF Fresh
<1>2. /\ DOMAIN broker = Brokers /\ \A b \in Brokers : broker[b] = Fresh
      /\ epoch.active = "none" /\ epoch.closed = <<>> /\ bundles = {} /\ accessed = {} /\ terminals = {}
      /\ DOMAIN thread = Threads /\ \A t \in Threads : thread[t] = None
  BY DEF Init
<1>3. EpochShape
  BY <1>2 DEF EpochShape, Range
<1>4. BrokerShape
  <2>1. Fresh.open \in BOOLEAN /\ Fresh.last \in Nat /\ \A S : Fresh.closed \subseteq S /\ DOMAIN Fresh.issued \subseteq S
    BY DEF Fresh
  <2>2. QED
    BY <1>1, <1>2, <2>1 DEF BrokerShape
<1>5. SequencesFollow
  BY <1>1, <1>2, FS_EmptySet DEF SequencesFollow, Prepared
<1>6. IssuesFollow /\ BundlesAreExact /\ TerminalsFollow
  BY <1>1, <1>2 DEF IssuesFollow, BundlesAreExact, TerminalsFollow
<1>7. ThreadsFollow
  BY <1>2 DEF ThreadsFollow
<1>8. CallsAreSpentOnce
  BY <1>2 DEF CallsAreSpentOnce, Running, None, OneTerminalPerCall, NoEffectClaimsAreTrue
<1>9. QED
  BY <1>3, <1>4, <1>5, <1>6, <1>7, <1>8 DEF BrokerInv

\* Every step keeps it.
LEMMA BrokersStep == BrokerInv /\ [Next]_vars => BrokerInv'
<1> SUFFICES ASSUME BrokerInv, [Next]_vars PROVE BrokerInv'
  OBVIOUS
<1>1. CASE UNCHANGED vars
  <2>1. BrokersKeep
    BY <1>1, UnchangedKeeps DEF BrokerInv, vars
  <2>2. EpochShape' /\ BrokerShape' /\ SequencesFollow' /\ IssuesFollow' /\ \A w : WorkIsOwn(w) => WorkIsOwn(w)'
    BY <1>1, <2>1, RecordsKept DEF vars
  <2>3. BundlesAreExact' /\ TerminalsFollow' /\ ThreadsFollow'
    BY <1>1, <2>2 DEF BrokerInv, BundlesAreExact, TerminalsFollow, ThreadsFollow, vars
  <2>4. CallsAreSpentOnce'
    BY <1>1 DEF BrokerInv, CallsAreSpentOnce, Spent, Recorded, Running, OneTerminalPerCall, NoEffectClaimsAreTrue, vars
  <2>5. QED
    BY <2>2, <2>3, <2>4 DEF BrokerInv
<1>2. ASSUME NEW b \in Brokers, OpenBroker(b) \/ Crash(b) \/ \E p \in Params : Prepare(b, p)
      PROVE  BrokerInv'
  BY <1>2, OpenBrokerKeeps, CrashKeeps, PrepareKeeps
<1>3. ASSUME NEW t \in Threads, NEW b \in Brokers, Begin(t, b, "Execute") \/ Begin(t, b, "Interrupt")
      PROVE  BrokerInv'
  BY <1>3, BeginKeeps
<1>4. ASSUME NEW t \in Threads, ExecuteConsume(t) \/ ExecuteFinish(t) \/ InterruptFinish(t)
      PROVE  BrokerInv'
  BY <1>4, ExecuteConsumeKeeps, ExecuteFinishKeeps, InterruptFinishKeeps
<1>5. ASSUME NEW b \in Brokers, NEW r \in bundles, NEW boundary \in Boundaries, Reconcile(b, r, boundary)
      PROVE  BrokerInv'
  BY <1>5, ReconcileKeeps
<1>6. QED
  BY <1>1, <1>2, <1>3, <1>4, <1>5 DEF Next

\* It holds throughout.
LEMMA BrokersInvariant == Spec => []BrokerInv
BY BrokersStart, BrokersStep, PTL DEF Spec

\* There are as many numbers from one to n.
LEMMA UpTo ==
    ASSUME NEW n \in Nat
    PROVE  IsFiniteSet(1..n) /\ Cardinality(1..n) = n
<1>1. 1 \in Int /\ n \in Int
  OBVIOUS
<1>2. IsFiniteSet(1..n) /\ Cardinality(1..n) = IF 1 > n THEN 0 ELSE n - 1 + 1
  BY <1>1, FS_Interval, ZenonT(30)
<1>3. QED
  BY <1>2

\* The numbers of the calls that ran are different, and within the ceiling: there are no more calls.
LEMMA CallsWithinLimit ==
    ASSUME BrokerInv, NEW b \in Brokers
    PROVE  Cardinality({r \in accessed : r.broker = b}) <= Bounds["calls"]
<1> DEFINE mine == {r \in accessed : r.broker = b}
           T == 1..Bounds["calls"]
           f == [r \in mine |-> r.sequence]
<1>1. \A r \in mine : r \in Prepared(b) /\ r.sequence \in Nat /\ Evaluate(r.params, r.sequence) = Authorized
  BY DEF BrokerInv, BundlesAreExact, Prepared
<1>2. \A r \in mine : r.sequence >= 1
  <2>1. {r.sequence : r \in Prepared(b)} = 1..Cardinality(Prepared(b)) /\ Cardinality(Prepared(b)) \in Nat
    BY FS_CardinalityType DEF BrokerInv, SequencesFollow
  <2>2. QED
    BY <1>1, <2>1
<1>3. \A r \in mine : r.sequence <= Bounds["calls"]
  BY <1>1, AuthorizedWithinLimit
<1>4. \A q, r \in mine : q.sequence = r.sequence => q = r
  BY <1>1 DEF BrokerInv, SequencesFollow
<1>5. f \in Injection(mine, T)
  BY <1>1, <1>2, <1>3, <1>4, BrokerParameters DEF Injection, IsInjective
<1>6. IsFiniteSet(T) /\ Cardinality(T) = Bounds["calls"]
  <2>1. Bounds["calls"] \in Nat
    BY BrokerParameters
  <2>2. QED
    BY <2>1, UpTo, ZenonT(30)
<1> HIDE DEF mine, T, f
<1>7. Cardinality(mine) <= Cardinality(T)
  BY <1>5, <1>6, FS_Injection
<1>8. QED
  BY <1>6, <1>7 DEF mine

\* The invariant says what is promised.
LEMMA BrokersPromise == BrokerInv => BrokersAreSound
<1> SUFFICES ASSUME BrokerInv PROVE BrokersAreSound
  OBVIOUS
<1>1. TypeOK
  <2>1. Range(epoch.closed) \subseteq Brokers
    BY DEF BrokerInv, EpochShape, Range
  <2>2. \A t \in Threads : thread[t] = None \/ thread[t].broker \in Brokers
    BY DEF BrokerInv, ThreadsFollow, WorkIsOwn
  <2>3. \A b \in Brokers : DOMAIN broker[b].issued \subseteq Calls /\ broker[b].closed \subseteq Brokers /\ broker[b].last \in Nat
    BY <2>1 DEF BrokerInv, BrokerShape
  <2>4. QED
    BY <2>1, <2>2, <2>3 DEF BrokerInv, EpochShape, BundlesAreExact, TypeOK
<1>2. SequenceIsDense
  BY DEF BrokerInv, SequencesFollow, SequenceIsDense, Prepared
<1>3. CallLimitHolds
  BY CallsWithinLimit DEF BrokerInv, BundlesAreExact, CallLimitHolds
<1>4. ExecutesWhatWasPrepared
  BY DEF BrokerInv, ThreadsFollow, WorkIsOwn, ExecutesWhatWasPrepared
<1>5. ReconciledWasClosed
  BY DEF BrokerInv, TerminalsFollow, EpochShape, ReconciledWasClosed
<1>6. TerminalsAreTrue
  BY DEF BrokerInv, CallsAreSpentOnce, TerminalsFollow, TerminalsAreTrue, TerminalsAreProjectable
<1>7. QED
  BY <1>1, <1>2, <1>3, <1>4, <1>5, <1>6 DEF BrokersAreSound, CallsAreAccounted

\* However many threads execute and interrupt the calls of however many brokers, and whichever of them
\* stop: a call runs at most once, within the authority's limit and as it was prepared, and what is
\* reported of it is one terminal that is true and can become the durable event (broker.rs).
THEOREM BrokersSound == Spec => []BrokersAreSound
BY BrokersInvariant, BrokersPromise, PTL

=============================================================================
