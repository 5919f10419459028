------------------------------- MODULE Failover -------------------------------
(***************************************************************************)
(* The ElastiCache failover Lambda (elasticache-stress-test/src/           *)
(* failover.py): pre-flight checks on a description of the replication     *)
(* group, test_failover, then polling until the group is available again.  *)
(*                                                                         *)
(* Several invocations may run at once (an operator's retry, or the AWS    *)
(* CLI's own).  The replication group is external: it accepts a failover   *)
(* only when none is in progress, and the status it describes stays        *)
(* `available' until the accepted failover has actually begun.             *)
(***************************************************************************)
EXTENDS Integers, FiniteSets

CONSTANTS
  Handlers,     (* concurrent invocations of the Lambda                     *)
  Members,      (* members that the target node group may have              *)
  MaxPolls      (* MAX_WAIT_SECONDS / POLL_INTERVAL_SECONDS                 *)

ASSUME FailoverAssumption == MaxPolls \in Nat \ {0}

None == "none"

(* What a description says of a member: a role that is not "replica" (the  *)
(* primary, or none), or a replica whose ReplicaLag is not there, not a    *)
(* number, within or above the 30 seconds of MAX_REPLICA_LAG_SECONDS.      *)
MemberKinds == {"not_replica", "absent", "unparseable", "low", "high"}

(* What a description shows of the target node group: its members.  (One   *)
(* that is not there has none; it is answered as one with too few.)        *)
NodeGroups == UNION {[ms -> MemberKinds] : ms \in SUBSET Members}

NoAnswer == [statusCode |-> 0, failover_initiated |-> FALSE]

VARIABLES
  group,        (* the replication group: see GroupPhases                   *)
  owner,        (* the invocation whose failover is pending or running      *)
  completed,    (* invocations whose failover has taken place               *)
  pc,           (* where each invocation is                                 *)
  polls,        (* how often it has slept in the polling loop               *)
  accepted,     (* invocations whose test_failover the service accepted     *)
  answer        (* statusCode and failover_initiated of each response       *)

GroupPhases == {"idle", "busy", "pending", "failing"}
serviceVars == <<group, owner, completed>>
vars == <<serviceVars, pc, polls, accepted, answer>>

Init ==
  /\ group \in {"idle", "busy"}
  /\ owner = None
  /\ completed = {}
  /\ pc = [h \in Handlers |-> "start"]
  /\ polls = [h \in Handlers |-> 0]
  /\ accepted = {}
  /\ answer = [h \in Handlers |-> NoAnswer]

-------------------------------------------------------------------------------
(* The replication group. *)

(* The Status of describe_replication_groups: a failover that has been     *)
(* accepted but has not begun does not show.                               *)
Status == IF group \in {"idle", "pending"} THEN "available" ELSE "modifying"

(* Maintenance or a change nobody here asked for begins or ends. *)
GroupModified ==
  /\ \/ group = "idle" /\ group' = "busy"
     \/ group = "busy" /\ group' = "idle"
  /\ UNCHANGED <<owner, completed, pc, polls, accepted, answer>>

FailoverBegins ==
  /\ group = "pending"
  /\ group' = "failing"
  /\ UNCHANGED <<owner, completed, pc, polls, accepted, answer>>

FailoverEnds ==
  /\ group = "failing"
  /\ group' = "idle"
  /\ completed' = completed \cup {owner}
  /\ owner' = None
  /\ UNCHANGED <<pc, polls, accepted, answer>>

-------------------------------------------------------------------------------
(* The handler. *)

Answer(h, code, initiated) ==
  /\ pc' = [pc EXCEPT ![h] = "answered"]
  /\ answer' = [answer EXCEPT ![h] = [statusCode |-> code,
                                      failover_initiated |-> initiated]]

(* except ClientError, except Exception: 500; except RuntimeError: 400.    *)
(* The same three clauses serve the pre-flight checks, the trigger and the *)
(* polling.                                                                *)
Fail(h, code) == Answer(h, code, FALSE)

(* AWS_REGION or REDIS_REPLICATION_GROUP_ID is not set. *)
Misconfigured(h) ==
  /\ pc[h] = "start"
  /\ Fail(h, 400)
  /\ UNCHANGED <<serviceVars, polls, accepted>>

(* Checks (a), (d), (b) and (c) on one description of the group; members   *)
(* whose role is not "replica", and replicas without a lag or with one     *)
(* that is not a number, are not held up.                                  *)
ChecksPass(ng) ==
  /\ Status = "available"
  /\ Cardinality(DOMAIN ng) >= 2
  /\ \A x \in DOMAIN ng : ng[x] # "high"

Preflight(h) ==
  /\ pc[h] = "start"
  /\ \E ng \in NodeGroups :
       \/ /\ ChecksPass(ng)
          /\ pc' = [pc EXCEPT ![h] = "trigger"]
          /\ UNCHANGED answer
       \/ /\ ~ChecksPass(ng)
          /\ Fail(h, 400)
  /\ UNCHANGED <<serviceVars, polls, accepted>>

(* describe_replication_groups raises or finds no group. *)
DescribeFails(h) ==
  /\ pc[h] \in {"start", "poll"}
  /\ \E code \in {400, 500} : Fail(h, code)
  /\ UNCHANGED <<serviceVars, polls, accepted>>

(* Mutant: a refused test_failover is not an error. *)
TriggerRefused_Ignored(h) ==
  /\ pc[h] = "trigger"
  /\ pc' = [pc EXCEPT ![h] = "poll"]
  /\ UNCHANGED <<serviceVars, polls, accepted, answer>>

(* test_failover is refused: a failover or another change is in progress,  *)
(* or the call is throttled.                                               *)
TriggerRefused(h) ==
  /\ pc[h] = "trigger"
  /\ Fail(h, 500)
  /\ UNCHANGED <<serviceVars, polls, accepted>>

(* test_failover is accepted; its answer arrives or is lost. *)
TriggerAccepted(h) ==
  /\ pc[h] = "trigger" /\ group = "idle"
  /\ group' = "pending"
  /\ owner' = h
  /\ accepted' = accepted \cup {h}
  /\ \/ pc' = [pc EXCEPT ![h] = "poll"] /\ UNCHANGED answer
     \/ Fail(h, 500)
  /\ UNCHANGED <<completed, polls>>

(* Mutants: the polling loop has no deadline; it turns once too often.     *)
Poll_NoDeadline(h) ==
  /\ pc[h] = "poll"
  /\ \/ Status = "available" /\ Answer(h, 200, TRUE)
     \/ Status # "available" /\ UNCHANGED <<pc, answer>>
  /\ polls' = [polls EXCEPT ![h] = (@ + 1) % MaxPolls]
  /\ UNCHANGED <<serviceVars, accepted>>

Poll_OneMore(h) ==
  /\ pc[h] = "poll" /\ Status # "available"
  /\ polls[h] <= MaxPolls
  /\ polls' = [polls EXCEPT ![h] = @ + 1]
  /\ UNCHANGED <<serviceVars, pc, accepted, answer>>

(* One turn of _poll_until_available. *)
Poll(h) ==
  /\ pc[h] = "poll" /\ polls[h] < MaxPolls
  /\ \/ /\ Status = "available"
        /\ Answer(h, 200, TRUE)
        /\ UNCHANGED polls
     \/ /\ Status # "available"
        /\ polls' = [polls EXCEPT ![h] = @ + 1]
        /\ UNCHANGED <<pc, answer>>
  /\ UNCHANGED <<serviceVars, accepted>>

(* Mutant: the deadline ends the loop, and the last status is returned. *)
PollTimeout_Returns(h) ==
  /\ pc[h] = "poll" /\ polls[h] = MaxPolls
  /\ Answer(h, 200, TRUE)
  /\ UNCHANGED <<serviceVars, polls, accepted>>

(* The deadline of the polling loop: RuntimeError. *)
PollTimeout(h) ==
  /\ pc[h] = "poll" /\ polls[h] = MaxPolls
  /\ Fail(h, 400)
  /\ UNCHANGED <<serviceVars, polls, accepted>>

Handler(h) ==
  \/ Misconfigured(h) \/ Preflight(h) \/ DescribeFails(h)
  \/ TriggerRefused(h) \/ TriggerAccepted(h)
  \/ Poll(h) \/ PollTimeout(h)

Next ==
  \/ \E h \in Handlers : Handler(h)
  \/ GroupModified \/ FailoverBegins \/ FailoverEnds

Spec == Init /\ [][Next]_vars

(* Each call of the API returns or raises, and a sleep ends.  Nothing is   *)
(* assumed of the replication group: it may stay in transition for ever.   *)
FairSpec == Spec /\ \A h \in Handlers : WF_vars(Handler(h))

-------------------------------------------------------------------------------
(* Properties. *)

Answers == [statusCode : {200, 400, 500}, failover_initiated : BOOLEAN]

TypeOK ==
  /\ group \in GroupPhases
  /\ owner \in Handlers \cup {None}
  /\ completed \in SUBSET Handlers
  /\ pc \in [Handlers -> {"start", "trigger", "poll", "answered"}]
  /\ polls \in [Handlers -> 0..MaxPolls]
  /\ accepted \in SUBSET Handlers
  /\ answer \in [Handlers -> Answers \cup {NoAnswer}]
  /\ \A h \in Handlers : pc[h] = "answered" <=> answer[h] \in Answers

(* A response that says a failover was initiated comes from an invocation  *)
(* whose own test_failover was accepted: one that merely found the group   *)
(* available, or was refused, does not claim another's failover.           *)
InitiatedMeansAccepted ==
  \A h \in Handlers :
    pc[h] = "answered" /\ answer[h].failover_initiated => h \in accepted

(* "Failover complete": an invocation that answers 200 after it has seen   *)
(* the group in transition has waited for its own failover to take place,  *)
(* not for a change or a failover of another that came between its checks, *)
(* its trigger and its polls.  (An invocation that finds the group         *)
(* available at its first poll answers 200 before its failover begins.)    *)
WaitedMeansComplete ==
  \A h \in Handlers :
    answer[h].statusCode = 200 /\ polls[h] > 0 => h \in completed

(* Every invocation answers, even if the group never becomes available.    *)
AlwaysAnswers == \A h \in Handlers : <>(pc[h] = "answered")

(* An invocation that answers from the polling loop and says that no       *)
(* failover was initiated did not initiate one (violated, see README).     *)
NotInitiatedMeansNone ==
  \A h \in Handlers :
    pc[h] = "answered" /\ polls[h] > 0 /\ ~answer[h].failover_initiated
      => h \notin accepted

===============================================================================
