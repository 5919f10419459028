---------------------------- MODULE FailoverProofs ----------------------------
(***************************************************************************)
(* Theorems about Failover, for any number of concurrent invocations, any  *)
(* members and any polling limit: who claims a failover had it accepted,   *)
(* who has waited for the group has waited for its own, and each answers   *)
(* within a bounded number of calls.                                       *)
(***************************************************************************)
EXTENDS Failover, TLAPS

(* Where the failover of h is: it waits in the group, it runs, or it is    *)
(* over.                                                                   *)
Runs(h) == owner = h /\ group = "failing"
Waits(h) == owner = h /\ group = "pending"

(* Once h has seen the group in transition, its failover is over. *)
Waited(h) == polls[h] > 0 => h \in completed

(* An invocation that polls, or that claims a failover, had its trigger    *)
(* accepted.  A failover of which the service knows no more is over, and   *)
(* one that polls and has seen the group in transition has seen its own    *)
(* begin.                                                                  *)
HandlerInv(h) ==
  /\ pc[h] = "poll" => h \in accepted
  /\ h \in accepted => pc[h] \in {"poll", "answered"}
  /\ h \in accepted => h \in completed \/ Waits(h) \/ Runs(h)
  /\ pc[h] = "poll" /\ polls[h] > 0 => h \in completed \/ Runs(h)
  /\ pc[h] \in {"start", "trigger"} => polls[h] = 0
  /\ pc[h] = "answered" /\ answer[h].failover_initiated => h \in accepted
  /\ answer[h].statusCode = 200 => Waited(h)

FailoverInv ==
  /\ TypeOK
  /\ \A h \in Handlers : HandlerInv(h)
  /\ group = "failing" \/ group = "pending" => owner \in Handlers

LEMMA InitFailoverInv == Init => FailoverInv
<1> SUFFICES ASSUME Init PROVE FailoverInv
  OBVIOUS
<1>1. NoAnswer.statusCode = 0 /\ ~NoAnswer.failover_initiated
  BY DEF NoAnswer
<1>2. polls \in [Handlers -> 0..MaxPolls]
  BY FailoverAssumption DEF Init
<1>3. NoAnswer \notin Answers
  BY DEF NoAnswer, Answers
<1>4. TypeOK
  BY <1>2, <1>3 DEF Init, TypeOK, GroupPhases
<1> QED
  BY <1>1, <1>4 DEF Init, FailoverInv, HandlerInv, Waited

-------------------------------------------------------------------------------
(* A step of one invocation, taken apart: what it leaves of the others,    *)
(* and what is left to show of its own.                                    *)

LEMMA HandlerKeeps ==
  ASSUME FailoverInv, NEW h \in Handlers, TypeOK', HandlerInv(h)',
         group' = "failing" \/ group' = "pending" => owner' \in Handlers,
         accepted' = accepted \/ accepted' = accepted \cup {h}, UNCHANGED completed,
         \A k \in Handlers \ {h} :
           /\ pc'[k] = pc[k] /\ polls'[k] = polls[k] /\ answer'[k] = answer[k]
           /\ Waits(k) => Waits(k)'
           /\ Runs(k) => Runs(k)'
  PROVE  FailoverInv'
<1>1. ASSUME NEW k \in Handlers PROVE HandlerInv(k)'
  <2>1. CASE k = h
    BY <2>1
  <2>2. CASE k # h
    BY <2>2 DEF FailoverInv, HandlerInv, Waited
  <2> QED
    BY <2>1, <2>2
<1> QED
  BY <1>1 DEF FailoverInv

(* An invocation that only answers: with a claim that holds, or with none. *)
LEMMA AnswerKeeps ==
  ASSUME FailoverInv, NEW h \in Handlers, NEW a \in Answers,
         pc' = [pc EXCEPT ![h] = "answered"], answer' = [answer EXCEPT ![h] = a],
         a.failover_initiated => h \in accepted,
         a.statusCode = 200 => Waited(h),
         UNCHANGED <<serviceVars, polls, accepted>>
  PROVE  FailoverInv'
<1>0. TypeOK /\ HandlerInv(h)
  BY DEF FailoverInv
<1>1. UNCHANGED <<group, owner, completed, polls, accepted>>
  BY DEF serviceVars
<1>2. /\ pc'[h] = "answered" /\ answer'[h] = a
      /\ \A k \in Handlers \ {h} : pc'[k] = pc[k] /\ answer'[k] = answer[k]
  BY <1>0 DEF TypeOK
<1>3. TypeOK'
  BY <1>0, <1>1, <1>2 DEF TypeOK
<1>4. HandlerInv(h)'
  BY <1>0, <1>1, <1>2 DEF HandlerInv, Waited, Waits, Runs
<1> QED
  BY <1>1, <1>2, <1>3, <1>4, HandlerKeeps DEF FailoverInv, Waits, Runs

LEMMA FailKeeps ==
  ASSUME FailoverInv, NEW h \in Handlers, NEW code \in {400, 500}, Fail(h, code),
         UNCHANGED <<serviceVars, polls, accepted>>
  PROVE  FailoverInv'
<1> DEFINE a == [statusCode |-> code, failover_initiated |-> FALSE]
<1>1. /\ a \in Answers
      /\ pc' = [pc EXCEPT ![h] = "answered"] /\ answer' = [answer EXCEPT ![h] = a]
  BY DEF Fail, Answer, Answers
<1>2. a.failover_initiated => h \in accepted
  OBVIOUS
<1>3. a.statusCode = 200 => Waited(h)
  OBVIOUS
<1> HIDE DEF a
<1> QED
  BY <1>1, <1>2, <1>3, AnswerKeeps

LEMMA PreflightKeeps ==
  ASSUME FailoverInv, NEW h \in Handlers, Preflight(h)
  PROVE  FailoverInv'
<1>0. TypeOK /\ HandlerInv(h) /\ pc[h] = "start"
  BY DEF FailoverInv, Preflight
<1>1. \/ pc' = [pc EXCEPT ![h] = "trigger"] /\ UNCHANGED answer
      \/ Fail(h, 400)
  BY DEF Preflight
<1>2. UNCHANGED <<serviceVars, polls, accepted>>
  BY DEF Preflight
<1>3. CASE pc' = [pc EXCEPT ![h] = "trigger"] /\ UNCHANGED answer
  <2>1. TypeOK'
    BY <1>0, <1>2, <1>3 DEF TypeOK, serviceVars
  <2>2. pc'[h] = "trigger" /\ \A k \in Handlers \ {h} : pc'[k] = pc[k]
    BY <1>0, <1>3 DEF TypeOK
  <2>3. HandlerInv(h)'
    BY <1>0, <1>2, <1>3, <2>2 DEF HandlerInv, Waited, serviceVars
  <2> QED
    BY <1>2, <1>3, <2>1, <2>2, <2>3, HandlerKeeps DEF FailoverInv, serviceVars, Waits, Runs
<1>4. CASE Fail(h, 400)
  BY <1>2, <1>4, FailKeeps
<1> QED
  BY <1>1, <1>3, <1>4

(* The service accepts when it knows of no failover: all earlier ones are  *)
(* over.                                                                   *)
LEMMA TriggerAcceptedKeeps ==
  ASSUME FailoverInv, NEW h \in Handlers, TriggerAccepted(h)
  PROVE  FailoverInv'
<1>0. TypeOK /\ HandlerInv(h) /\ pc[h] = "trigger" /\ polls[h] = 0
  <2>1. TypeOK /\ HandlerInv(h) /\ pc[h] = "trigger"
    BY DEF FailoverInv, TriggerAccepted
  <2> QED BY <2>1 DEF HandlerInv, Waited
<1>1. /\ group' = "pending" /\ owner' = h /\ accepted' = accepted \cup {h}
      /\ UNCHANGED <<completed, polls>> /\ group = "idle"
  BY DEF TriggerAccepted
<1>2. Waits(h)' /\ \A k \in Handlers \ {h} : ~Waits(k) /\ ~Runs(k)
  BY <1>1 DEF Waits, Runs
<1>3. CASE pc' = [pc EXCEPT ![h] = "poll"] /\ UNCHANGED answer
  <2>1. TypeOK'
    BY <1>0, <1>1, <1>3 DEF TypeOK, GroupPhases
  <2>2. pc'[h] = "poll" /\ \A k \in Handlers \ {h} : pc'[k] = pc[k]
    BY <1>0, <1>3 DEF TypeOK
  <2>3. HandlerInv(h)'
    BY <1>0, <1>1, <1>2, <1>3, <2>2 DEF HandlerInv, Waited
  <2> QED
    BY <1>1, <1>2, <1>3, <2>1, <2>2, <2>3, HandlerKeeps
<1>4. CASE Fail(h, 500)
  <2>1. /\ pc' = [pc EXCEPT ![h] = "answered"]
        /\ answer' = [answer EXCEPT ![h] = [statusCode |-> 500,
                                           failover_initiated |-> FALSE]]
        /\ [statusCode |-> 500, failover_initiated |-> FALSE] \in Answers
    BY <1>4 DEF Fail, Answer, Answers
  <2>2. TypeOK'
    BY <1>0, <1>1, <2>1 DEF TypeOK, GroupPhases
  <2>3. /\ pc'[h] = "answered" /\ answer'[h].statusCode = 500
        /\ ~answer'[h].failover_initiated
        /\ \A k \in Handlers \ {h} : pc'[k] = pc[k] /\ answer'[k] = answer[k]
    BY <1>0, <2>1 DEF TypeOK
  <2>4. HandlerInv(h)'
    BY <1>0, <1>1, <1>2, <2>3 DEF HandlerInv, Waited
  <2> QED
    BY <1>1, <1>2, <2>2, <2>3, <2>4, HandlerKeeps
<1> QED
  BY <1>3, <1>4 DEF TriggerAccepted

LEMMA PollKeeps ==
  ASSUME FailoverInv, NEW h \in Handlers, Poll(h)
  PROVE  FailoverInv'
<1>0. TypeOK /\ HandlerInv(h) /\ pc[h] = "poll" /\ h \in accepted
  <2>1. TypeOK /\ HandlerInv(h) /\ pc[h] = "poll"
    BY DEF FailoverInv, Poll
  <2> QED BY <2>1 DEF HandlerInv, Waited
<1>1. CASE Status = "available" /\ Answer(h, 200, TRUE) /\ UNCHANGED polls
  <2>1. UNCHANGED <<serviceVars, polls, accepted>>
    BY <1>1 DEF Poll
  <2>3. ~Runs(h)
    BY <1>1 DEF Status, Runs
  <2>4. Waited(h)
    BY <1>0, <2>3 DEF HandlerInv, Waited
  <2> DEFINE a == [statusCode |-> 200, failover_initiated |-> TRUE]
  <2>5. /\ a \in Answers
        /\ pc' = [pc EXCEPT ![h] = "answered"] /\ answer' = [answer EXCEPT ![h] = a]
    BY <1>1 DEF Answer, Answers
  <2> HIDE DEF a
  <2> QED
    BY <1>0, <2>1, <2>4, <2>5, AnswerKeeps
<1>2. CASE /\ polls[h] < MaxPolls /\ Status # "available"
           /\ polls' = [polls EXCEPT ![h] = @ + 1] /\ UNCHANGED <<pc, answer>>
  <2>1. polls' \in [Handlers -> 0..MaxPolls]
    BY <1>0, <1>2, FailoverAssumption DEF TypeOK
  <2>2. UNCHANGED <<group, owner, completed, accepted>>
    BY DEF Poll, serviceVars
  <2>3. TypeOK' /\ \A k \in Handlers \ {h} : polls'[k] = polls[k]
    BY <1>0, <1>2, <2>1, <2>2 DEF TypeOK
  <2>4. ~Waits(h)
    BY <1>2 DEF Status, Waits
  <2>5. answer[h].statusCode # 200
    BY <1>0 DEF TypeOK, NoAnswer
  <2>6. HandlerInv(h)'
    BY <1>0, <1>2, <2>2, <2>4, <2>5 DEF HandlerInv, Waited, Waits, Runs
  <2> QED
    BY <1>2, <2>2, <2>3, <2>6, HandlerKeeps DEF FailoverInv, Waits, Runs
<1> QED
  BY <1>1, <1>2 DEF Poll

(* Steps of the replication group leave the invocations alone, and bring a *)
(* failover only forward.                                                  *)
LEMMA GroupKeeps ==
  ASSUME FailoverInv, UNCHANGED <<pc, polls, accepted, answer>>,
         group' \in GroupPhases, owner' \in Handlers \cup {None},
         completed' \in SUBSET Handlers, completed \subseteq completed',
         \A h \in Handlers :
           /\ Waits(h) => Waits(h)' \/ Runs(h)'
           /\ Runs(h) => Runs(h)' \/ h \in completed',
         group' = "failing" \/ group' = "pending" => owner' \in Handlers
  PROVE  FailoverInv'
<1>1. TypeOK'
  BY DEF FailoverInv, TypeOK
<1>2. ASSUME NEW h \in Handlers PROVE HandlerInv(h)'
  BY DEF FailoverInv, HandlerInv, Waited
<1> QED
  BY <1>1, <1>2 DEF FailoverInv

LEMMA NextFailoverInv == FailoverInv /\ [Next]_vars => FailoverInv'
<1> SUFFICES ASSUME FailoverInv, [Next]_vars PROVE FailoverInv'
  OBVIOUS
<1>0. TypeOK
  BY DEF FailoverInv
<1>1. ASSUME NEW h \in Handlers, Handler(h) PROVE FailoverInv'
  <2>1. CASE Misconfigured(h) \/ DescribeFails(h) \/ TriggerRefused(h) \/ PollTimeout(h)
    <3>0. UNCHANGED <<serviceVars, polls, accepted>> /\ \E code \in {400, 500} : Fail(h, code)
      <4>1. CASE Misconfigured(h)
        BY <4>1 DEF Misconfigured
      <4>2. CASE DescribeFails(h)
        BY <4>2 DEF DescribeFails
      <4>3. CASE TriggerRefused(h)
        BY <4>3 DEF TriggerRefused
      <4>4. CASE PollTimeout(h)
        BY <4>4 DEF PollTimeout
      <4> QED BY <2>1, <4>1, <4>2, <4>3, <4>4
    <3>1. PICK code \in {400, 500} : Fail(h, code)
      BY <3>0
    <3>2. UNCHANGED <<serviceVars, polls, accepted>>
      BY <3>0
    <3> QED
      BY <3>1, <3>2, FailKeeps
  <2> QED
    BY <1>1, <2>1, PreflightKeeps, TriggerAcceptedKeeps, PollKeeps DEF Handler
<1>2. CASE GroupModified
  BY <1>0, <1>2, GroupKeeps DEF GroupModified, TypeOK, GroupPhases, Waits, Runs
<1>3. CASE FailoverBegins
  BY <1>0, <1>3, GroupKeeps DEF FailoverBegins, FailoverInv, TypeOK, GroupPhases, Waits, Runs
<1>4. CASE FailoverEnds
  BY <1>0, <1>4, GroupKeeps DEF FailoverEnds, FailoverInv, TypeOK, GroupPhases, Waits, Runs
<1>5. CASE UNCHANGED vars
  BY <1>0, <1>5, GroupKeeps DEF vars, serviceVars, FailoverInv, TypeOK, Waits, Runs
<1> QED
  BY <1>1, <1>2, <1>3, <1>4, <1>5 DEF Next

(* What execute_failover keeps: each handler's fields agree with where it  *)
(* is, and with what the replication group was asked.                      *)
THEOREM FailoverInvariant == Spec => []FailoverInv
BY InitFailoverInv, NextFailoverInv, PTL DEF Spec

-------------------------------------------------------------------------------
(* The theorems a reader looks for. *)

(* Every variable keeps its type: the polling loop never turns more often  *)
(* than its limit, and an invocation has answered exactly when it is over. *)
THEOREM FailoverTypeCorrect == Spec => []TypeOK
<1>1. FailoverInv => TypeOK
  BY DEF FailoverInv
<1> QED
  BY <1>1, FailoverInvariant, PTL

(* An invocation that answers 200 after it has seen the group in           *)
(* transition has waited for its own failover to take place, however many  *)
(* invocations and changes of the group come between its calls.            *)
THEOREM CompleteAfterWaiting == Spec => []WaitedMeansComplete
<1>1. FailoverInv => WaitedMeansComplete
  BY DEF FailoverInv, HandlerInv, Waited, WaitedMeansComplete
<1> QED
  BY <1>1, FailoverInvariant, PTL

(* A response that says a failover was initiated comes from an invocation  *)
(* whose own test_failover was accepted.                                   *)
THEOREM ClaimsAreTrue == Spec => []InitiatedMeansAccepted
<1>1. FailoverInv => InitiatedMeansAccepted
  BY DEF FailoverInv, HandlerInv, InitiatedMeansAccepted
<1> QED
  BY <1>1, FailoverInvariant, PTL

-------------------------------------------------------------------------------
(* How long an invocation can take. *)

(* The calls an invocation may still make before it has answered. *)
CallsLeft(h) ==
  CASE pc[h] = "start" -> MaxPolls + 3
    [] pc[h] = "trigger" -> MaxPolls + 2
    [] pc[h] = "poll" -> MaxPolls + 1 - polls[h]
    [] OTHER -> 0

(* Each call of h brings h nearer to its answer, and nothing the others or *)
(* the replication group do takes it further away.                         *)
CallCounts ==
  \A h \in Handlers :
    /\ CallsLeft(h)' <= CallsLeft(h)
    /\ Handler(h) => CallsLeft(h)' < CallsLeft(h)

(* Only an invocation that has answered has no call left. *)
CallsBounded ==
  \A h \in Handlers :
    /\ CallsLeft(h) \in 0..(MaxPolls + 3)
    /\ CallsLeft(h) = 0 <=> pc[h] = "answered"

LEMMA CallsLeftBounded == TypeOK => CallsBounded
<1> SUFFICES ASSUME TypeOK, NEW h \in Handlers
             PROVE  /\ CallsLeft(h) \in 0..(MaxPolls + 3)
                    /\ CallsLeft(h) = 0 <=> pc[h] = "answered"
  BY DEF CallsBounded
<1>1. /\ MaxPolls \in Nat /\ polls[h] \in 0..MaxPolls
      /\ pc[h] \in {"start", "trigger", "poll", "answered"}
  BY FailoverAssumption DEF TypeOK
<1> QED
  BY <1>1 DEF CallsLeft

LEMMA HandlerCounts ==
  ASSUME TypeOK, TypeOK', NEW h \in Handlers, Handler(h)
  PROVE  CallsLeft(h)' < CallsLeft(h)
<1>0. MaxPolls \in Nat /\ polls[h] \in 0..MaxPolls /\ polls'[h] \in 0..MaxPolls
  BY FailoverAssumption DEF TypeOK
<1>1. ASSUME pc' = [pc EXCEPT ![h] = "answered"], pc[h] # "answered"
      PROVE  CallsLeft(h)' < CallsLeft(h)
  <2>1. pc'[h] = "answered"
    BY <1>1 DEF TypeOK
  <2>2. pc[h] \in {"start", "trigger", "poll"}
    BY <1>1 DEF TypeOK
  <2> QED
    BY <1>0, <2>1, <2>2 DEF CallsLeft
<1>2. CASE \/ Misconfigured(h) \/ DescribeFails(h) \/ TriggerRefused(h) \/ PollTimeout(h)
  <2>1. pc[h] # "answered"
    BY <1>2 DEF Misconfigured, DescribeFails, TriggerRefused, PollTimeout
  <2>2. pc' = [pc EXCEPT ![h] = "answered"]
    BY <1>2 DEF Misconfigured, DescribeFails, TriggerRefused, PollTimeout, Fail, Answer
  <2> QED
    BY <1>1, <2>1, <2>2
<1>3. CASE Preflight(h)
  <2>1. pc[h] = "start"
    BY <1>3 DEF Preflight
  <2>2. pc' = [pc EXCEPT ![h] = "trigger"] \/ pc' = [pc EXCEPT ![h] = "answered"]
    BY <1>3 DEF Preflight, Fail, Answer
  <2>3. CASE pc' = [pc EXCEPT ![h] = "trigger"]
    BY <1>0, <2>1, <2>3 DEF CallsLeft, TypeOK
  <2> QED
    BY <1>1, <2>1, <2>2, <2>3
<1>4. CASE TriggerAccepted(h)
  <2>1. pc[h] = "trigger"
    BY <1>4 DEF TriggerAccepted
  <2>2. pc' = [pc EXCEPT ![h] = "poll"] \/ pc' = [pc EXCEPT ![h] = "answered"]
    BY <1>4 DEF TriggerAccepted, Fail, Answer
  <2>3. CASE pc' = [pc EXCEPT ![h] = "poll"]
    BY <1>0, <2>1, <2>3 DEF CallsLeft, TypeOK
  <2> QED
    BY <1>1, <2>1, <2>2, <2>3
<1>5. CASE Poll(h)
  <2>1. pc[h] = "poll"
    BY <1>5 DEF Poll
  <2>2. \/ pc' = [pc EXCEPT ![h] = "answered"]
        \/ polls' = [polls EXCEPT ![h] = @ + 1] /\ UNCHANGED pc
    BY <1>5 DEF Poll, Answer
  <2>3. CASE polls' = [polls EXCEPT ![h] = @ + 1] /\ UNCHANGED pc
    BY <1>0, <2>1, <2>3 DEF CallsLeft, TypeOK
  <2> QED
    BY <1>1, <2>1, <2>2, <2>3
<1> QED
  BY <1>2, <1>3, <1>4, <1>5 DEF Handler

(* What h has still to do is untouched by the others. *)
LEMMA OthersKeepCalls ==
  ASSUME TypeOK, [Next]_vars, NEW h \in Handlers, ~Handler(h)
  PROVE  CallsLeft(h)' = CallsLeft(h)
<1> SUFFICES pc'[h] = pc[h] /\ polls'[h] = polls[h]
  BY DEF CallsLeft
<1>1. ASSUME NEW k \in Handlers, Handler(k)
      PROVE  pc'[h] = pc[h] /\ polls'[h] = polls[h]
  <2>1. k # h
    BY <1>1
  <2>2. \/ pc' = pc
        \/ \E p : pc' = [pc EXCEPT ![k] = p]
    BY <1>1 DEF Handler, Misconfigured, Preflight, DescribeFails, TriggerRefused,
                TriggerAccepted, Poll, PollTimeout, Fail, Answer
  <2>3. polls' = polls \/ polls' = [polls EXCEPT ![k] = polls[k] + 1]
    <3>1. CASE Poll(k)
      BY <3>1 DEF Poll
    <3>2. CASE Misconfigured(k) \/ Preflight(k) \/ DescribeFails(k)
      BY <3>2 DEF Misconfigured, Preflight, DescribeFails
    <3>3. CASE TriggerRefused(k) \/ TriggerAccepted(k) \/ PollTimeout(k)
      BY <3>3 DEF TriggerRefused, TriggerAccepted, PollTimeout
    <3> QED BY <1>1, <3>1, <3>2, <3>3 DEF Handler
  <2> QED
    BY <2>1, <2>2, <2>3 DEF TypeOK
<1>2. CASE GroupModified \/ FailoverBegins \/ FailoverEnds \/ UNCHANGED vars
  BY <1>2 DEF GroupModified, FailoverBegins, FailoverEnds, vars
<1> QED
  BY <1>1, <1>2 DEF Next

(* execute_failover and _poll_until_available: whatever the group does and *)
(* however many invocations race, each makes at most MaxPolls + 3 calls,   *)
(* and it has answered when none is left.                                  *)
THEOREM AnswersWithinCalls == Spec => []CallsBounded /\ [][CallCounts]_vars
<1>1. TypeOK /\ TypeOK' /\ [Next]_vars => [CallCounts]_vars
  <2> SUFFICES ASSUME TypeOK, TypeOK', [Next]_vars, NEW h \in Handlers
               PROVE  /\ CallsLeft(h)' <= CallsLeft(h)
                      /\ Handler(h) => CallsLeft(h)' < CallsLeft(h)
    BY DEF CallCounts
  <2>1. CallsLeft(h) \in Nat /\ CallsLeft(h)' \in Nat
    BY CallsLeftBounded, FailoverAssumption DEF CallsBounded, TypeOK, CallsLeft
  <2> QED
    BY <2>1, HandlerCounts, OthersKeepCalls
<1> QED
  BY <1>1, CallsLeftBounded, FailoverTypeCorrect, PTL DEF Spec

===============================================================================
