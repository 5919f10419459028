---------------------- MODULE ConnectionExhaustionProofs ----------------------
(***************************************************************************)
(* Theorems about ConnectionExhaustion, for every number of threads,       *)
(* target, batch size and time limit: the locals of the workers, then who  *)
(* owns the sockets and what the counter counts, and last that the         *)
(* invocation keeps the promise of HeldPool.                               *)
(***************************************************************************)
EXTENDS ConnectionExhaustion, FiniteSetTheorems, TLAPS

(* What the program counter says of a worker's locals: inside an iteration *)
(* of the batch there is one left, and a socket being opened exists.       *)
LocalsOK ==
  \A w \in Workers :
    /\ pc[w] \in {"open", "handshake", "count"} => left[w] > 0
    /\ pc[w] \in {"handshake", "count", "churnshake"} => sock[w] \in Fds

TypeInv == TypeOK /\ LocalsOK

LEMMA InitTypeInv == Init => TypeInv
BY ConstantsAssumption
   DEF Init, TypeInv, TypeOK, LocalsOK, RunningPC, ExitPC, Workers, Fds

(* Each step of a worker keeps the types and the facts about its locals. *)
LEMMA WorkerTypeInv ==
  ASSUME TypeInv, NEW w \in Workers, Worker(w)
  PROVE  TypeInv'
<1> USE ConstantsAssumption DEF TypeInv, TypeOK, LocalsOK, RunningPC, ExitPC,
        handlerVars, Fds
<1>1. CASE LoopTest(w)
  BY <1>1 DEF LoopTest
<1>2. CASE ReadTotal(w)
  BY <1>2 DEF ReadTotal, MinOf
<1>3. CASE BatchCheck(w)
  BY <1>3 DEF BatchCheck
<1>4. ASSUME NEW from, NEW to \in {"handshake", "churnshake"},
             OpenSocket(w, from, to),
             to = "handshake" => from = "open"
      PROVE  TypeInv'
  <2>1. /\ UNCHANGED <<now, total_held, left, held, results,
                       handler, joining, joinBy, response>>
        /\ pc[w] = from
    BY <1>4 DEF OpenSocket
  <2>2. CASE \E f \in Fds \ openFds :
               /\ sock' = [sock EXCEPT ![w] = f]
               /\ openFds' = openFds \cup {f}
               /\ pc' = [pc EXCEPT ![w] = to]
    <3>1. PICK f \in 1..FdLimit :
               /\ sock' = [sock EXCEPT ![w] = f]
               /\ openFds' = openFds \cup {f}
               /\ pc' = [pc EXCEPT ![w] = to]
      BY <2>2
    <3>2. f \in 0..FdLimit
      BY <3>1
    <3>3. TypeOK'
      BY <2>1, <3>1, <3>2
    <3>4. to = "handshake" => left[w] > 0
      BY <1>4, <2>1
    <3>5. ASSUME NEW v \in Workers
          PROVE  /\ pc'[v] \in {"open", "handshake", "count"} => left'[v] > 0
                 /\ pc'[v] \in {"handshake", "count", "churnshake"}
                      => sock'[v] \in 1..FdLimit
      <4>1. CASE v = w
        BY <1>4, <2>1, <3>1, <3>4, <4>1
      <4>2. CASE v # w
        BY <2>1, <3>1, <4>2
      <4> QED BY <4>1, <4>2
    <3> QED BY <3>3, <3>5
  <2>3. CASE pc' = [pc EXCEPT ![w] = "closing"] /\ UNCHANGED <<sock, openFds>>
    BY <2>1, <2>3
  <2> QED BY <1>4, <2>2, <2>3 DEF OpenSocket
<1>5. CASE OpenPool(w) \/ OpenChurn(w)
  BY <1>4, <1>5 DEF OpenPool, OpenChurn
<1>6. CASE HandshakeOk(w)
  BY <1>6 DEF HandshakeOk
<1>7. CASE HandshakeFail(w)
  <2>1. /\ UNCHANGED <<now, total_held, held, results,
                       handler, joining, joinBy, response>>
        /\ sock' = [sock EXCEPT ![w] = 0]
        /\ left' = [left EXCEPT ![w] = @ - 1]
        /\ pc' = [pc EXCEPT ![w] = "batch"]
        /\ pc[w] = "handshake"
    BY <1>7 DEF HandshakeFail
  <2>2. openFds' \in SUBSET (1..FdLimit)
    BY <1>7 DEF HandshakeFail
  <2>3. TypeOK'
    BY <2>1, <2>2
  <2>4. LocalsOK'
    BY <2>1
  <2> QED BY <2>3, <2>4
<1>8. CASE CountHeld(w)
  BY <1>8 DEF CountHeld
<1>9. CASE ChurnDone(w)
  <2>1. /\ UNCHANGED <<now, total_held, left, held, results,
                       handler, joining, joinBy, response>>
        /\ sock' = [sock EXCEPT ![w] = 0]
        /\ pc' = [pc EXCEPT ![w] = "loop"]
    BY <1>9 DEF ChurnDone
  <2>2. openFds' \in SUBSET (1..FdLimit)
    BY <1>9 DEF ChurnDone
  <2>3. TypeOK'
    BY <2>1, <2>2
  <2>4. LocalsOK'
    BY <2>1
  <2> QED BY <2>3, <2>4
<1>10. CASE CloseHeld(w)
  BY <1>10 DEF CloseHeld
<1>11. CASE ReleaseHeld(w)
  <2>1. Cardinality(held[w]) \in Nat
    <3>1. IsFiniteSet(1..FdLimit)
      BY FS_Interval
    <3>2. held[w] \in SUBSET (1..FdLimit)
      OBVIOUS
    <3> QED BY <3>1, <3>2, FS_Subset, FS_CardinalityType
  <2> QED BY <1>11, <2>1 DEF ReleaseHeld
<1> QED BY <1>1, <1>2, <1>3, <1>5, <1>6, <1>7, <1>8, <1>9, <1>10, <1>11
        DEF Worker

LEMMA NextTypeInv == TypeInv /\ [Next]_vars => TypeInv'
<1> SUFFICES ASSUME TypeInv, [Next]_vars PROVE TypeInv'
  OBVIOUS
<1> USE ConstantsAssumption
<1>1. ASSUME NEW w \in Workers, Worker(w) PROVE TypeInv'
  BY <1>1, WorkerTypeInv
<1>2. CASE HandlerJoin
  BY <1>2 DEF HandlerJoin, TypeInv, TypeOK, LocalsOK, workerVars
<1>3. CASE HandlerReturn
  BY <1>3 DEF HandlerReturn, TypeInv, TypeOK, LocalsOK, workerVars
<1>4. CASE Tick
  BY <1>4 DEF Tick, TypeInv, TypeOK, LocalsOK, workerVars, handlerVars
<1>5. CASE LambdaTimeout
  BY <1>5 DEF LambdaTimeout, TypeInv, TypeOK, LocalsOK
<1>6. CASE UNCHANGED vars
  BY <1>6 DEF vars, TypeInv, TypeOK, LocalsOK, workerVars, handlerVars
<1> QED BY <1>1, <1>2, <1>3, <1>4, <1>5, <1>6 DEF Next, Ended

(* Every variable keeps its type: the batch counter never goes below zero, *)
(* only existing descriptors are held, joins stay in range.                *)
THEOREM TypeCorrect == Spec => []TypeOK
<1>1. TypeInv => TypeOK
  BY DEF TypeInv
<1> QED BY InitTypeInv, NextTypeInv, <1>1, PTL DEF Spec

LEMMA TypeInvAlways == Spec => []TypeInv
BY InitTypeInv, NextTypeInv, PTL DEF Spec

-------------------------------------------------------------------------------
(* The overshoot of the pool. *)

LEMMA WorkersFinite ==
  /\ IsFiniteSet(Workers)
  /\ Cardinality(Workers) = Threads
BY FS_Interval, ConstantsAssumption DEF Workers

LEMMA InFlightFinite ==
  /\ IsFiniteSet(InFlight)
  /\ Cardinality(InFlight) \in Nat
BY WorkersFinite, FS_Subset, FS_CardinalityType DEF InFlight

(* A worker that is not in flight leaves room for one more. *)
LEMMA InFlightRoom ==
  ASSUME NEW w \in Workers, w \notin InFlight
  PROVE  Cardinality(InFlight) <= Threads - 1
<1>1. IsFiniteSet(Workers \ {w}) /\ Cardinality(Workers \ {w}) = Threads - 1
  BY WorkersFinite, FS_RemoveElement
<1>2. InFlight \in SUBSET (Workers \ {w})
  BY DEF InFlight
<1> QED BY <1>1, <1>2, FS_Subset

(* How a step of one worker changes the set of workers in flight. *)
LEMMA InFlightStep ==
  ASSUME TypeInv, NEW w \in Workers, NEW p, pc' = [pc EXCEPT ![w] = p]
  PROVE  InFlight' = IF p \in {"open", "handshake", "count"}
                     THEN InFlight \cup {w} ELSE InFlight \ {w}
BY DEF InFlight, TypeInv, TypeOK

LEMMA WorkerOvershoot ==
  ASSUME TypeInv, OvershootBound, NEW w \in Workers, Worker(w)
  PROVE  OvershootBound'
<1> USE ConstantsAssumption, InFlightFinite
<1> DEFINE N == Cardinality(InFlight)
<1>0. /\ total_held \in Int /\ Target \in Int /\ Threads \in Int
      /\ N \in Nat /\ total_held + N <= Target + Threads - 1
  BY DEF OvershootBound, TypeInv, TypeOK
<1>a. Cardinality(InFlight \ {w}) = IF w \in InFlight THEN N - 1 ELSE N
  BY FS_RemoveElement
<1>b. Cardinality(InFlight \cup {w}) = IF w \in InFlight THEN N ELSE N + 1
  BY FS_AddElement
<1>c. ASSUME UNCHANGED total_held, InFlight' = InFlight \ {w}
      PROVE  OvershootBound'
  BY <1>0, <1>a, <1>c DEF OvershootBound
<1>d. ASSUME UNCHANGED total_held, w \in InFlight, InFlight' = InFlight \cup {w}
      PROVE  OvershootBound'
  BY <1>0, <1>b, <1>d DEF OvershootBound
<1>1. CASE LoopTest(w)
  BY <1>1, <1>c, InFlightStep DEF LoopTest
<1>2. CASE ReadTotal(w)
  BY <1>2, <1>c, InFlightStep DEF ReadTotal
<1>3. CASE BatchCheck(w)
  <2>1. w \notin InFlight
    BY <1>3 DEF BatchCheck, InFlight
  <2>2. CASE total_held < Target /\ pc' = [pc EXCEPT ![w] = "open"]
    <3>1. InFlight' = InFlight \cup {w}
      BY <2>2, InFlightStep
    <3>2. N <= Threads - 1
      BY <2>1, InFlightRoom
    <3>3. Cardinality(InFlight') = N + 1
      BY <3>1, <2>1, <1>b
    <3>4. total_held' = total_held
      BY <1>3 DEF BatchCheck
    <3> QED BY <3>2, <3>3, <3>4, <2>2, <1>0 DEF OvershootBound
  <2>3. CASE pc' = [pc EXCEPT ![w] = "loop"]
    BY <2>3, <1>3, <1>c, InFlightStep DEF BatchCheck
  <2> QED BY <1>3, <2>2, <2>3 DEF BatchCheck
<1>4. CASE OpenPool(w)
  <2>1. w \in InFlight /\ UNCHANGED total_held
    <3>1. pc[w] = "open" /\ UNCHANGED total_held
      BY <1>4 DEF OpenPool, OpenSocket
    <3> QED BY <3>1 DEF InFlight
  <2>2. CASE pc' = [pc EXCEPT ![w] = "handshake"]
    <3>1. InFlight' = InFlight \cup {w}
      BY <2>2, InFlightStep
    <3> QED BY <2>1, <3>1, <1>d
  <2>3. CASE pc' = [pc EXCEPT ![w] = "closing"]
    <3>1. \A v \in Workers : pc'[v] = IF v = w THEN "closing" ELSE pc[v]
      BY <2>3 DEF TypeInv, TypeOK
    <3>2. InFlight' = InFlight \ {w}
      BY <3>1 DEF InFlight
    <3> QED BY <2>1, <3>2, <1>c
  <2> QED BY <1>4, <2>2, <2>3 DEF OpenPool, OpenSocket
<1>5. CASE OpenChurn(w)
  <2>1. UNCHANGED total_held
    BY <1>5 DEF OpenChurn, OpenSocket
  <2>2. CASE pc' = [pc EXCEPT ![w] = "churnshake"]
    BY <2>1, <2>2, <1>c, InFlightStep
  <2>3. CASE pc' = [pc EXCEPT ![w] = "closing"]
    BY <2>1, <2>3, <1>c, InFlightStep
  <2> QED BY <1>5, <2>2, <2>3 DEF OpenChurn, OpenSocket
<1>6. CASE HandshakeOk(w)
  <2>1. w \in InFlight /\ UNCHANGED total_held
    BY <1>6 DEF HandshakeOk, InFlight
  <2> QED BY <1>6, <2>1, <1>d, InFlightStep DEF HandshakeOk
<1>7. CASE HandshakeFail(w)
  BY <1>7, <1>c, InFlightStep DEF HandshakeFail
<1>8. CASE CountHeld(w)
  <2>1. w \in InFlight /\ total_held' = total_held + 1
    BY <1>8 DEF CountHeld, InFlight
  <2>2. InFlight' = InFlight \ {w}
    BY <1>8, InFlightStep DEF CountHeld
  <2> QED BY <2>1, <2>2, <1>0, <1>a DEF OvershootBound
<1>9. CASE ChurnDone(w)
  BY <1>9, <1>c, InFlightStep DEF ChurnDone
<1>10. CASE CloseHeld(w)
  BY <1>10, <1>c, InFlightStep DEF CloseHeld
<1>11. CASE ReleaseHeld(w)
  <2>1. Cardinality(held[w]) \in Nat
    <3>1. IsFiniteSet(Fds)
      BY FS_Interval DEF Fds
    <3> QED BY <3>1, FS_Subset, FS_CardinalityType DEF TypeInv, TypeOK
  <2>2. InFlight' = InFlight \ {w}
    BY <1>11, InFlightStep DEF ReleaseHeld
  <2>3. total_held' = total_held - Cardinality(held[w])
    BY <1>11 DEF ReleaseHeld
  <2> QED BY <2>1, <2>2, <2>3, <1>0, <1>a DEF OvershootBound
<1> QED BY <1>1, <1>2, <1>3, <1>4, <1>5, <1>6, <1>7, <1>8, <1>9, <1>10, <1>11
        DEF Worker

LEMMA NextOvershoot ==
  TypeInv /\ OvershootBound /\ [Next]_vars => OvershootBound'
<1> SUFFICES ASSUME TypeInv, OvershootBound, [Next]_vars PROVE OvershootBound'
  OBVIOUS
<1>1. ASSUME NEW w \in Workers, Worker(w) PROVE OvershootBound'
  BY <1>1, WorkerOvershoot
<1>2. CASE UNCHANGED <<total_held, pc>>
  BY <1>2 DEF OvershootBound, InFlight
<1>3. HandlerJoin \/ HandlerReturn \/ Tick \/ LambdaTimeout \/ UNCHANGED vars
        => UNCHANGED <<total_held, pc>>
  BY DEF HandlerJoin, HandlerReturn, Tick, LambdaTimeout, vars, workerVars
<1> QED BY <1>1, <1>2, <1>3 DEF Next, Ended

(* The lock is released between the check of total_held and its increment, *)
(* yet the held pool exceeds target_total by at most one socket per thread *)
(* but one, counting the sockets still being opened.                       *)
THEOREM Overshoot == Spec => []OvershootBound
<1>1. Init => OvershootBound
  <2> SUFFICES ASSUME Init PROVE OvershootBound
    OBVIOUS
  <2>1. InFlight = {}
    BY DEF Init, InFlight
  <2> QED BY <2>1, FS_EmptySet, ConstantsAssumption DEF Init, OvershootBound
<1> QED BY <1>1, NextOvershoot, TypeInvAlways, PTL DEF Spec

-------------------------------------------------------------------------------
(* Sockets and the counter. *)


(* The facts about one worker's socket and list. *)
SockOK(w) ==
  /\ pc[w] \in {"handshake", "churnshake"} => sock[w] \in Fds \ held[w]
  /\ pc[w] = "count" => sock[w] \in held[w]
  /\ pc[w] = "done" => held[w] = {}
  /\ pc[w] \in {"churn", "churnshake"} => RapidChurn

Disjoint == \A v, w \in Workers : v # w => Owned(v) \cap Owned(w) = {}

(* Every open socket has one owner; a killed sandbox has none open. *)
OwnInv ==
  /\ NoSocketLost /\ Disjoint
  /\ \A w \in Workers : SockOK(w)
  /\ ~Alive => openFds = {}

LEMMA InitOwnInv == Init => OwnInv
<1> SUFFICES ASSUME Init PROVE OwnInv
  OBVIOUS
<1>1. \A w \in Workers : Owned(w) = {} /\ SockOK(w)
  BY DEF Init, Owned, SockOK, RunningPC
<1> QED
  BY <1>1 DEF Init, OwnInv, NoSocketLost, Disjoint, Alive

(* A step of one worker either gives sockets back, or opens one that       *)
(* nobody owns.                                                            *)
LEMMA OwnStep ==
  ASSUME OwnInv, Alive, NEW w \in Workers, UNCHANGED handler, SockOK(w)',
         \A v \in Workers \ {w} :
           pc'[v] = pc[v] /\ held'[v] = held[v] /\ sock'[v] = sock[v],
         \/ /\ Owned(w)' \subseteq Owned(w)
            /\ openFds' = openFds \ (Owned(w) \ Owned(w)')
         \/ \E f : /\ f \notin openFds
                   /\ Owned(w)' = Owned(w) \cup {f}
                   /\ openFds' = openFds \cup {f}
  PROVE  OwnInv'
<1>1. \A v \in Workers \ {w} : Owned(v)' = Owned(v) /\ SockOK(v)'
  BY DEF Owned, OwnInv, SockOK
<1>2. openFds = UNION {Owned(v) : v \in Workers}
  BY DEF OwnInv, NoSocketLost
<1>3. CASE /\ Owned(w)' \subseteq Owned(w)
           /\ openFds' = openFds \ (Owned(w) \ Owned(w)')
  <2>1. Disjoint'
    BY <1>1, <1>3 DEF OwnInv, Disjoint
  <2>2. \A f : f \in openFds' <=> \E v \in Workers : f \in Owned(v)'
    BY <1>1, <1>2, <1>3 DEF OwnInv, Disjoint
  <2>3. openFds' = UNION {Owned(v)' : v \in Workers}
    BY <2>2
  <2> QED
    BY <1>1, <2>1, <2>3 DEF OwnInv, NoSocketLost, Alive
<1>4. ASSUME NEW f, f \notin openFds, Owned(w)' = Owned(w) \cup {f},
             openFds' = openFds \cup {f}
      PROVE  OwnInv'
  <2>1. \A v \in Workers : f \notin Owned(v)
    BY <1>2, <1>4
  <2>2. Disjoint'
    BY <1>1, <1>4, <2>1 DEF OwnInv, Disjoint
  <2>3. \A g : g \in openFds' <=> \E v \in Workers : g \in Owned(v)'
    BY <1>1, <1>2, <1>4
  <2>4. openFds' = UNION {Owned(v)' : v \in Workers}
    BY <2>3
  <2> QED
    BY <1>1, <2>2, <2>4 DEF OwnInv, NoSocketLost, Alive
<1> QED
  BY <1>3, <1>4

(* A step that only moves the worker on. *)
LEMMA MoveKeeps ==
  ASSUME TypeInv, OwnInv, Alive, NEW w \in Workers,
         NEW p \in (RunningPC \cup {"closing"}) \ {"handshake", "churnshake", "count"},
         p = "churn" => RapidChurn,
         pc[w] \in RunningPC \ {"handshake", "churnshake"},
         pc' = [pc EXCEPT ![w] = p],
         UNCHANGED <<held, openFds, handler>>,
         \A v \in Workers \ {w} : sock'[v] = sock[v]
  PROVE  OwnInv'
<1>1. pc'[w] = p /\ \A v \in Workers \ {w} : pc'[v] = pc[v]
  BY DEF TypeInv, TypeOK
<1>2. Owned(w)' = Owned(w)
  BY <1>1 DEF Owned
<1>3. SockOK(w)'
  BY <1>1 DEF SockOK, RunningPC
<1> QED
  BY <1>1, <1>2, <1>3, OwnStep

LEMMA OpenKeeps ==
  ASSUME TypeInv, OwnInv, NEW w \in Workers,
         NEW from \in {"open", "churn"}, NEW to \in {"handshake", "churnshake"},
         from = "open" <=> to = "handshake", OpenSocket(w, from, to)
  PROVE  OwnInv'
<1>1. Alive /\ pc[w] = from /\ UNCHANGED <<held, handler>>
  BY DEF OpenSocket, handlerVars
<1>2. SockOK(w)
  BY DEF OwnInv
<1>3. ASSUME NEW f \in Fds \ openFds, sock' = [sock EXCEPT ![w] = f],
             openFds' = openFds \cup {f}, pc' = [pc EXCEPT ![w] = to]
      PROVE  OwnInv'
  <2>1. /\ pc'[w] = to /\ sock'[w] = f
        /\ \A v \in Workers \ {w} : pc'[v] = pc[v] /\ sock'[v] = sock[v]
    BY <1>3 DEF TypeInv, TypeOK
  <2>2. Owned(w) = held[w] /\ Owned(w)' = Owned(w) \cup {f}
    BY <1>1, <2>1 DEF Owned, RunningPC
  <2>3. f \notin held[w]
    BY <1>1, <1>3, <2>2 DEF OwnInv, NoSocketLost
  <2>4. SockOK(w)'
    BY <1>1, <1>2, <1>3, <2>1, <2>3 DEF SockOK
  <2> QED
    BY <1>1, <1>3, <2>1, <2>2, <2>4, OwnStep
<1>4. CASE pc' = [pc EXCEPT ![w] = "closing"] /\ UNCHANGED <<sock, openFds>>
  BY <1>1, <1>4, MoveKeeps DEF RunningPC
<1> QED
  BY <1>3, <1>4 DEF OpenSocket

(* The socket of a handshake that failed, or of a churn, is closed. *)
LEMMA ShutKeeps ==
  ASSUME TypeInv, OwnInv, Alive, NEW w \in Workers,
         pc[w] \in {"handshake", "churnshake"},
         NEW p \in {"batch", "loop"}, pc' = [pc EXCEPT ![w] = p],
         sock' = [sock EXCEPT ![w] = 0], openFds' = openFds \ {sock[w]},
         UNCHANGED <<held, handler>>
  PROVE  OwnInv'
<1>1. /\ pc'[w] = p
      /\ \A v \in Workers \ {w} : pc'[v] = pc[v] /\ sock'[v] = sock[v]
  BY DEF TypeInv, TypeOK
<1>2. sock[w] \notin held[w]
  BY DEF OwnInv, SockOK
<1>3. Owned(w) = held[w] \cup {sock[w]} /\ Owned(w)' = held[w]
  BY <1>1 DEF Owned, RunningPC
<1>4. SockOK(w)'
  BY <1>1 DEF SockOK
<1> QED
  BY <1>1, <1>2, <1>3, <1>4, OwnStep

LEMMA WorkerKeepsOwn ==
  ASSUME TypeInv, OwnInv, NEW w \in Workers, Worker(w)
  PROVE  OwnInv'
<1>1. CASE LoopTest(w) \/ ReadTotal(w) \/ BatchCheck(w) \/ CountHeld(w)
  <2>1. PICK p \in {"read", "closing", "batch", "churn", "loop", "open"} :
          pc' = [pc EXCEPT ![w] = p] /\ (p = "churn" => RapidChurn)
    BY <1>1 DEF LoopTest, ReadTotal, BatchCheck, CountHeld
  <2>2. Alive /\ pc[w] \in {"loop", "read", "batch", "count"} /\ UNCHANGED <<held, openFds, handler>>
    BY <1>1 DEF LoopTest, ReadTotal, BatchCheck, CountHeld, handlerVars
  <2>3. \A v \in Workers \ {w} : sock'[v] = sock[v]
    BY <1>1 DEF LoopTest, ReadTotal, BatchCheck, CountHeld, TypeInv, TypeOK
  <2> QED
    BY <2>1, <2>2, <2>3, MoveKeeps DEF RunningPC
<1>2. CASE OpenPool(w) \/ OpenChurn(w)
  BY <1>2, OpenKeeps DEF OpenPool, OpenChurn
<1>3. CASE HandshakeOk(w)
  <2>1. /\ Alive /\ pc[w] = "handshake" /\ UNCHANGED <<sock, openFds, handler>>
        /\ pc'[w] = "count" /\ held'[w] = held[w] \cup {sock[w]}
        /\ \A v \in Workers \ {w} : pc'[v] = pc[v] /\ held'[v] = held[v]
    BY <1>3 DEF HandshakeOk, handlerVars, TypeInv, TypeOK
  <2>2. Owned(w)' = Owned(w)
    BY <2>1 DEF Owned, RunningPC
  <2>3. SockOK(w)'
    BY <2>1 DEF SockOK
  <2> QED
    BY <2>1, <2>2, <2>3, OwnStep
<1>4. CASE HandshakeFail(w) \/ ChurnDone(w)
  BY <1>4, ShutKeeps DEF HandshakeFail, ChurnDone, handlerVars
<1>5. CASE CloseHeld(w)
  <2>1. /\ Alive /\ pc[w] = "closing" /\ openFds' = openFds \ held[w]
        /\ UNCHANGED <<held, sock, handler>>
        /\ pc'[w] = "release" /\ \A v \in Workers \ {w} : pc'[v] = pc[v]
    BY <1>5 DEF CloseHeld, handlerVars, TypeInv, TypeOK
  <2>2. Owned(w)' = {} /\ Owned(w) = held[w]
    BY <2>1 DEF Owned, RunningPC
  <2>3. SockOK(w)'
    BY <2>1 DEF SockOK
  <2> QED
    BY <2>1, <2>2, <2>3, OwnStep
<1>6. CASE ReleaseHeld(w)
  <2>1. /\ Alive /\ pc[w] = "release" /\ UNCHANGED <<sock, openFds, handler>>
        /\ pc'[w] = "done" /\ held'[w] = {}
        /\ \A v \in Workers \ {w} : pc'[v] = pc[v] /\ held'[v] = held[v]
    BY <1>6 DEF ReleaseHeld, handlerVars, TypeInv, TypeOK
  <2>2. Owned(w)' = {} /\ Owned(w) = {}
    BY <2>1 DEF Owned, RunningPC
  <2>3. SockOK(w)'
    BY <2>1 DEF SockOK
  <2> QED
    BY <2>1, <2>2, <2>3, OwnStep
<1> QED
  BY <1>1, <1>2, <1>3, <1>4, <1>5, <1>6 DEF Worker

LEMMA NextOwnInv == TypeInv /\ OwnInv /\ [Next]_vars => OwnInv'
<1> SUFFICES ASSUME TypeInv, OwnInv, [Next]_vars PROVE OwnInv'
  OBVIOUS
<1>1. ASSUME UNCHANGED <<pc, held, sock>>,
             \/ openFds' = openFds /\ (handler = "killed" <=> handler' = "killed")
             \/ openFds' = {} /\ handler' = "killed"
      PROVE  OwnInv'
  <2>1. \A w \in Workers : Owned(w)' = Owned(w) /\ SockOK(w)'
    BY <1>1 DEF Owned, OwnInv, SockOK
  <2> QED
    BY <1>1, <2>1 DEF OwnInv, NoSocketLost, Disjoint, Alive
<1>2. CASE HandlerJoin \/ HandlerReturn \/ Tick \/ UNCHANGED vars
  <2>1. UNCHANGED <<pc, held, sock, openFds>>
    BY <1>2 DEF HandlerJoin, HandlerReturn, Tick, vars, workerVars
  <2>2. handler = "killed" <=> handler' = "killed"
    BY <1>2 DEF HandlerJoin, HandlerReturn, Tick, vars, handlerVars
  <2> QED
    BY <1>1, <2>1, <2>2
<1>3. CASE LambdaTimeout
  BY <1>1, <1>3 DEF LambdaTimeout
<1> QED
  BY <1>2, <1>3, WorkerKeepsOwn DEF Next, Ended

LEMMA OwnInvAlways == Spec => []OwnInv
BY InitOwnInv, NextOwnInv, TypeInvAlways, PTL DEF Spec

(* No socket is lost, whichever way a handshake or a worker ends: each     *)
(* open descriptor belongs to a thread that will close it.                 *)
THEOREM NoneLost == Spec => []NoSocketLost
<1>1. OwnInv => NoSocketLost
  BY DEF OwnInv
<1> QED
  BY <1>1, OwnInvAlways, PTL

-------------------------------------------------------------------------------
(* The counter. *)

LEMMA FdsFinite ==
  ASSUME NEW S \in SUBSET Fds
  PROVE  IsFiniteSet(S) /\ Cardinality(S) \in Nat
<1>1. IsFiniteSet(Fds)
  BY FS_Interval, ConstantsAssumption DEF Fds
<1> QED
  BY <1>1, FS_Subset, FS_CardinalityType

LEMMA PairedCard ==
  ASSUME NEW x, NEW S, IsFiniteSet(S)
  PROVE  /\ IsFiniteSet({x} \X S)
         /\ Cardinality({x} \X S) = Cardinality(S)
         /\ Cardinality(S) \in Nat
<1>1. IsFiniteSet({x}) /\ Cardinality({x}) = 1 /\ Cardinality(S) \in Nat
  BY FS_Singleton, FS_CardinalityType
<1>2. /\ IsFiniteSet({x} \X S)
      /\ Cardinality({x} \X S) = Cardinality({x}) * Cardinality(S)
  BY <1>1, FS_Product
<1> QED
  BY <1>1, <1>2

LEMMA CountedFinite ==
  ASSUME TypeInv
  PROVE  IsFiniteSet(Counted) /\ Cardinality(Counted) \in Nat
<1>1. IsFiniteSet(Workers \X Fds)
  <2>1. IsFiniteSet(Fds) /\ IsFiniteSet(Workers)
    BY FdsFinite, WorkersFinite
  <2> QED
    BY <2>1, FS_Product
<1>2. Counted \in SUBSET (Workers \X Fds)
  BY DEF Counted
<1> QED
  BY <1>1, <1>2, FS_Subset, FS_CardinalityType

(* A step that leaves every worker's counted sockets alone. *)
LEMMA SameCounted ==
  ASSUME NEW w \in Workers, CounterExact, UNCHANGED total_held,
         \A v \in Workers \ {w} :
           pc'[v] = pc[v] /\ held'[v] = held[v] /\ sock'[v] = sock[v],
         \A f \in Fds :
           f \in held'[w] /\ ~(pc'[w] = "count" /\ f = sock'[w])
             <=> f \in held[w] /\ ~(pc[w] = "count" /\ f = sock[w])
  PROVE  CounterExact'
<1>1. Counted' = Counted
  BY DEF Counted
<1> QED
  BY <1>1 DEF CounterExact

LEMMA WorkerCounterExact ==
  ASSUME TypeInv, OwnInv, CounterExact, NEW w \in Workers, Worker(w)
  PROVE  CounterExact'
<1>0. /\ SockOK(w) /\ held[w] \subseteq Fds
      /\ total_held = Cardinality(Counted)
      /\ IsFiniteSet(Counted) /\ Cardinality(Counted) \in Nat
  BY CountedFinite DEF OwnInv, CounterExact, TypeInv, TypeOK
<1>1. CASE \/ LoopTest(w) \/ ReadTotal(w) \/ BatchCheck(w) \/ HandshakeFail(w)
           \/ ChurnDone(w) \/ CloseHeld(w)
  <2>1. /\ UNCHANGED <<total_held, held>> /\ pc[w] # "count" /\ pc'[w] # "count"
        /\ \A v \in Workers \ {w} : pc'[v] = pc[v] /\ sock'[v] = sock[v]
    BY <1>1 DEF LoopTest, ReadTotal, BatchCheck, HandshakeFail, ChurnDone,
       CloseHeld, TypeInv, TypeOK
  <2> QED
    BY <2>1, SameCounted
<1>2. CASE OpenPool(w) \/ OpenChurn(w)
  <2>1. /\ UNCHANGED <<total_held, held>> /\ pc[w] # "count" /\ pc'[w] # "count"
        /\ \A v \in Workers \ {w} : pc'[v] = pc[v] /\ sock'[v] = sock[v]
    BY <1>2 DEF OpenPool, OpenChurn, OpenSocket, TypeInv, TypeOK
  <2> QED
    BY <2>1, SameCounted
<1>3. CASE HandshakeOk(w)
  <2>1. /\ UNCHANGED <<total_held, sock>> /\ pc[w] = "handshake" /\ pc'[w] = "count"
        /\ held'[w] = held[w] \cup {sock[w]}
        /\ \A v \in Workers \ {w} : pc'[v] = pc[v] /\ held'[v] = held[v]
    BY <1>3 DEF HandshakeOk, TypeInv, TypeOK
  <2>2. sock[w] \notin held[w]
    BY <1>0, <2>1 DEF SockOK
  <2> QED
    BY <2>1, <2>2, SameCounted
<1>4. CASE CountHeld(w)
  <2>1. /\ total_held' = total_held + 1 /\ pc[w] = "count" /\ pc'[w] = "batch"
        /\ UNCHANGED held
        /\ \A v \in Workers \ {w} : pc'[v] = pc[v] /\ sock'[v] = sock[v]
    <3>1. DOMAIN pc = Workers /\ DOMAIN sock = Workers
      BY DEF TypeInv, TypeOK
    <3> QED BY <1>4, <3>1 DEF CountHeld
  <2>2. sock[w] \in held[w] /\ sock[w] \in Fds
    BY <1>0, <2>1 DEF SockOK
  <2>3. <<w, sock[w]>> \notin Counted
    BY <2>1 DEF Counted
  <2>4. Counted' = Counted \cup {<<w, sock[w]>>}
    <3>1. ASSUME NEW v \in Workers, NEW f \in Fds
          PROVE  <<v, f>> \in Counted' <=> <<v, f>> \in Counted \/ (v = w /\ f = sock[w])
      BY <2>1, <2>2 DEF Counted
    <3>2. Counted \subseteq Workers \X Fds /\ Counted' \subseteq Workers \X Fds
      BY DEF Counted
    <3> QED BY <2>2, <3>1, <3>2
  <2>5. Cardinality(Counted') = Cardinality(Counted) + 1
    BY <1>0, <2>3, <2>4, FS_AddElement
  <2> QED
    BY <1>0, <2>1, <2>5 DEF CounterExact
<1>5. CASE ReleaseHeld(w)
  <2>1. /\ total_held' = total_held - Cardinality(held[w]) /\ pc[w] = "release"
        /\ UNCHANGED sock /\ pc'[w] = "done" /\ held'[w] = {}
        /\ \A v \in Workers \ {w} : pc'[v] = pc[v] /\ held'[v] = held[v]
    BY <1>5 DEF ReleaseHeld, TypeInv, TypeOK
  <2>2. /\ Counted' = Counted \ ({w} \X held[w])
        /\ Counted \cap ({w} \X held[w]) = {w} \X held[w]
    BY <1>0, <2>1 DEF Counted
  <2>3. Cardinality({w} \X held[w]) = Cardinality(held[w])
    BY <1>0, FdsFinite, PairedCard
  <2>4. Cardinality(Counted') = Cardinality(Counted) - Cardinality({w} \X held[w])
    <3> DEFINE D == {w} \X held[w]
    <3>1. Cardinality(Counted \ D) = Cardinality(Counted) - Cardinality(Counted \cap D)
      <4> HIDE DEF D
      <4> QED
        BY <1>0, FS_Difference
    <3> QED
      BY <2>2, <3>1
  <2> QED
    BY <1>0, <2>1, <2>3, <2>4 DEF CounterExact
<1> QED
  BY <1>1, <1>2, <1>3, <1>4, <1>5 DEF Worker

LEMMA NextCounterExact ==
  TypeInv /\ OwnInv /\ CounterExact /\ [Next]_vars => CounterExact'
<1> SUFFICES ASSUME TypeInv, OwnInv, CounterExact, [Next]_vars PROVE CounterExact'
  OBVIOUS
<1>1. HandlerJoin \/ HandlerReturn \/ Tick \/ LambdaTimeout \/ UNCHANGED vars
        => UNCHANGED <<total_held, pc, held, sock>>
  BY DEF HandlerJoin, HandlerReturn, Tick, LambdaTimeout, vars, workerVars
<1>2. CASE UNCHANGED <<total_held, pc, held, sock>>
  BY <1>2 DEF CounterExact, Counted
<1> QED
  BY <1>1, <1>2, WorkerCounterExact DEF Next, Ended

(* However the threads interleave, total_held is the number of sockets     *)
(* added and not yet given back.                                           *)
THEOREM CounterAlwaysExact == Spec => []CounterExact
<1>1. Init => CounterExact
  <2> SUFFICES ASSUME Init PROVE CounterExact
    OBVIOUS
  <2>1. Counted = {}
    BY DEF Init, Counted
  <2> QED
    BY <2>1, FS_EmptySet DEF Init, CounterExact
<1> QED
  BY <1>1, NextCounterExact, TypeInvAlways, OwnInvAlways, PTL DEF Spec

-------------------------------------------------------------------------------
(* The peak: every open socket is counted, or is the one socket that a     *)
(* worker in flight, or one that churns, has not counted.                  *)

Shaking == {w \in Workers : pc[w] \in {"handshake", "count"}}
Churners == {w \in Workers : pc[w] = "churnshake"}
Openers == Shaking \cup Churners
Owner(f) == CHOOSE w \in Workers : f \in Owned(w)

LEMMA UncountedSocket ==
  ASSUME TypeInv, OwnInv, Alive, NEW f \in openFds
  PROVE  /\ Owner(f) \in Workers /\ f \in Owned(Owner(f))
         /\ \/ <<Owner(f), f>> \in Counted
            \/ Owner(f) \in Openers /\ f = sock[Owner(f)]
<1>1. \E w \in Workers : f \in Owned(w)
  BY DEF OwnInv, NoSocketLost
<1>2. Owner(f) \in Workers /\ f \in Owned(Owner(f))
  BY <1>1 DEF Owner
<1>3. f \in Fds
  BY DEF TypeInv, TypeOK
<1> QED
  BY <1>2, <1>3 DEF Owned, Counted, Openers, Shaking, Churners

LEMMA OpenersFinite ==
  /\ IsFiniteSet(Openers) /\ Cardinality(Openers) \in Nat
  /\ Cardinality(Shaking) \in Nat /\ Cardinality(Churners) \in Nat
  /\ Cardinality(Openers) <= Cardinality(Shaking) + Cardinality(Churners)
<1>1. /\ Shaking \in SUBSET Workers /\ Churners \in SUBSET Workers
      /\ Openers \in SUBSET Workers
  BY DEF Shaking, Churners, Openers
<1>2. IsFiniteSet(Shaking) /\ Cardinality(Shaking) \in Nat
  BY <1>1, WorkersFinite, FS_Subset, FS_CardinalityType
<1>3. IsFiniteSet(Churners) /\ Cardinality(Churners) \in Nat
  BY <1>1, WorkersFinite, FS_Subset, FS_CardinalityType
<1>4. IsFiniteSet(Openers) /\ Cardinality(Openers) \in Nat
  BY <1>1, WorkersFinite, FS_Subset, FS_CardinalityType
<1>5. Cardinality(Openers) = Cardinality(Shaking) + Cardinality(Churners)
                               - Cardinality(Shaking \cap Churners)
  BY <1>2, <1>3, FS_Union DEF Openers
<1>6. Cardinality(Shaking \cap Churners) \in Nat
  BY <1>2, FS_Intersection, FS_CardinalityType
<1> QED
  BY <1>2, <1>3, <1>4, <1>5, <1>6

(* How many they are: a worker with no socket leaves room for one more. *)
LEMMA OpenersRoom ==
  ASSUME TypeInv, OwnInv
  PROVE  /\ Cardinality(Shaking) <= Cardinality(InFlight)
         /\ \A w \in Workers : pc[w] = "open" =>
              Cardinality(Shaking) <= Cardinality(InFlight) - 1
         /\ Cardinality(Churners) <= IF RapidChurn THEN Threads ELSE 0
         /\ \A w \in Workers : pc[w] = "churn" => Cardinality(Churners) <= Threads - 1
<1>1. Shaking \in SUBSET InFlight /\ Churners \in SUBSET Workers
  BY DEF Shaking, InFlight, Churners
<1>2. Cardinality(Shaking) <= Cardinality(InFlight)
  BY <1>1, InFlightFinite, FS_Subset
<1>3. ASSUME NEW w \in Workers, pc[w] = "open"
      PROVE  Cardinality(Shaking) <= Cardinality(InFlight) - 1
  <2>1. Shaking \in SUBSET (InFlight \ {w}) /\ w \in InFlight
    BY <1>3 DEF Shaking, InFlight
  <2>2. IsFiniteSet(InFlight \ {w}) /\ Cardinality(InFlight \ {w}) = Cardinality(InFlight) - 1
    BY <2>1, InFlightFinite, FS_RemoveElement
  <2> QED
    BY <2>1, <2>2, FS_Subset
<1>4. Cardinality(Churners) <= IF RapidChurn THEN Threads ELSE 0
  <2>1. CASE RapidChurn
    BY <1>1, <2>1, WorkersFinite, FS_Subset
  <2>2. CASE ~RapidChurn
    <3>1. Churners = {}
      BY <2>2 DEF Churners, OwnInv, SockOK
    <3> QED
      BY <2>2, <3>1, FS_EmptySet
  <2> QED
    BY <2>1, <2>2, ConstantsAssumption
<1>5. ASSUME NEW w \in Workers, pc[w] = "churn"
      PROVE  Cardinality(Churners) <= Threads - 1
  <2>1. Churners \in SUBSET (Workers \ {w})
    BY <1>5 DEF Churners
  <2>2. IsFiniteSet(Workers \ {w}) /\ Cardinality(Workers \ {w}) = Threads - 1
    BY WorkersFinite, FS_RemoveElement
  <2> QED
    BY <2>1, <2>2, FS_Subset
<1> QED
  BY <1>2, <1>3, <1>4, <1>5

LEMMA OpenWithinCounted ==
  ASSUME TypeInv, OwnInv, Alive
  PROVE  Cardinality(openFds) <= Cardinality(Counted) + Cardinality(Openers)
<1> DEFINE Idle == {0} \X Openers
           Image == Counted \cup Idle
           F == [f \in openFds |-> IF <<Owner(f), f>> \in Counted
                                     THEN <<Owner(f), f>> ELSE <<0, Owner(f)>>]
<1>1. F \in [openFds -> Image]
  BY UncountedSocket
<1>2. ASSUME NEW f \in openFds, NEW g \in openFds, F[f] = F[g] PROVE f = g
  <2>1. Owner(f) # 0 /\ Owner(g) # 0
    <3>1. \A w \in Workers : w # 0
      BY ConstantsAssumption DEF Workers
    <3> QED
      BY <3>1, UncountedSocket
  <2>2. Owner(f) = Owner(g)
    BY <1>2, <2>1
  <2> QED
    BY <1>2, <2>1, <2>2, UncountedSocket
<1>3. F \in Injection(openFds, Image)
  BY <1>1, <1>2 DEF Injection, IsInjective
<1>4. IsFiniteSet(Idle) /\ Cardinality(Idle) = Cardinality(Openers)
  BY OpenersFinite, PairedCard
<1>5. /\ IsFiniteSet(Image)
      /\ Cardinality(Image) = Cardinality(Counted) + Cardinality(Idle)
                                - Cardinality(Counted \cap Idle)
  <2> HIDE DEF Idle
  <2> QED
    BY <1>4, CountedFinite, FS_Union
<1>6. Cardinality(Counted \cap Idle) \in Nat
  <2> HIDE DEF Idle
  <2> QED
    BY CountedFinite, FS_Intersection, FS_CardinalityType
<1>7. Cardinality(openFds) <= Cardinality(Image)
  <2> HIDE DEF F, Image
  <2> QED
    BY <1>3, <1>5, FS_Injection
<1>8. /\ Cardinality(Image) \in Int /\ Cardinality(openFds) \in Int
      /\ Cardinality(Counted) \in Int /\ Cardinality(Openers) \in Int
  BY <1>4, <1>5, <1>6, CountedFinite, OpenersFinite, FdsFinite DEF TypeInv, TypeOK
<1> HIDE DEF Image, Idle
<1> QED
  BY <1>4, <1>5, <1>6, <1>7, <1>8

(* Most sockets the sandbox ever has open. *)
LEMMA PeakHolds ==
  ASSUME TypeInv, OwnInv, CounterExact, OvershootBound
  PROVE  Cardinality(openFds) \in Nat /\ Cardinality(openFds) <= SocketPeak
<1>1. Cardinality(openFds) \in Nat
  BY FdsFinite DEF TypeInv, TypeOK
<1>2. CASE Alive
  <2>1. Cardinality(openFds) <= total_held + Cardinality(Openers)
    BY <1>2, OpenWithinCounted DEF CounterExact
  <2>2. total_held \in Int
    BY DEF TypeInv, TypeOK
  <2> QED
    BY <1>1, <2>1, <2>2, OpenersFinite, OpenersRoom, InFlightFinite, ConstantsAssumption
       DEF OvershootBound, SocketPeak
<1>3. CASE ~Alive
  BY <1>1, <1>3, FS_EmptySet, ConstantsAssumption DEF OwnInv, SocketPeak
<1> QED
  BY <1>2, <1>3

-------------------------------------------------------------------------------
(* The promise of HeldPool. *)

LEMMA OverMeansEmpty ==
  ASSUME TypeInv, OwnInv, Over
  PROVE  openFds = {} /\ Cardinality(openFds) = 0
<1>1. openFds = {}
  BY DEF Over, OwnInv, NoSocketLost, Owned, SockOK, RunningPC, Alive
<1> QED
  BY <1>1, FS_EmptySet

(* While the invocation is not over, one socket more, or fewer of them. *)
LEMMA GrowOrDrop ==
  ASSUME TypeInv, ~Over, ~Over', Cardinality(openFds)' <= SocketPeak,
         \/ openFds' \subseteq openFds
         \/ \E f : f \notin openFds /\ openFds' = openFds \cup {f}
  PROVE  Pool!Next \/ UNCHANGED <<Cardinality(openFds), Over>>
<1>0. IsFiniteSet(openFds) /\ Cardinality(openFds) \in Nat
  BY FdsFinite DEF TypeInv, TypeOK
<1>0a. UNCHANGED Over
  BY DEF Over
<1>1. CASE openFds' \subseteq openFds
  <2>1. IsFiniteSet(openFds') /\ Cardinality(openFds') <= Cardinality(openFds)
    BY <1>0, <1>1, FS_Subset
  <2>2. Cardinality(openFds') \in Nat
    BY <2>1, FS_CardinalityType
  <2>3. CASE Cardinality(openFds') = Cardinality(openFds)
    BY <1>0a, <2>3
  <2>4. CASE Cardinality(openFds') < Cardinality(openFds)
    <3>1. Cardinality(openFds') \in 0..(Cardinality(openFds) - 1)
      BY <1>0, <2>2, <2>4
    <3> QED
      BY <1>0a, <3>1 DEF Pool!Next, Pool!Drop
  <2> QED
    BY <1>0, <2>1, <2>2, <2>3, <2>4
<1>2. ASSUME NEW f, f \notin openFds, openFds' = openFds \cup {f}
      PROVE  Pool!Next
  <2>1. Cardinality(openFds') = Cardinality(openFds) + 1
    BY <1>0, <1>2, FS_AddElement
  <2>2. Cardinality(openFds) < SocketPeak
    BY <1>0, <2>1, ConstantsAssumption DEF SocketPeak
  <2> QED
    BY <1>0a, <2>1, <2>2 DEF Pool!Next, Pool!Grow
<1> QED
  BY <1>1, <1>2

(* The last thread that is done ends the pool: nothing is open any more. *)
LEMMA EndsEmpty ==
  ASSUME TypeInv, OwnInv, TypeInv', OwnInv', Over', Over \/ ~Over
  PROVE  Pool!Next \/ UNCHANGED <<Cardinality(openFds), Over>>
<1>1. Cardinality(openFds)' = 0
  <2>1. openFds' = {}
    BY DEF Over, OwnInv, NoSocketLost, Owned, SockOK, RunningPC, Alive
  <2> QED
    BY <2>1, FS_EmptySet
<1>2. CASE Over
  BY <1>1, <1>2, OverMeansEmpty
<1>3. CASE ~Over
  <2>1. Over' = TRUE
    BY DEF Over
  <2> QED
    BY <1>1, <1>3, <2>1 DEF Pool!Next, Pool!End
<1> QED
  BY <1>2, <1>3

(* What a step of a worker does to the set of open sockets. *)
LEMMA WorkerSockets ==
  ASSUME TypeInv, NEW w \in Workers, Worker(w)
  PROVE  /\ ~Over
         /\ \/ openFds' \subseteq openFds
            \/ \E f : f \notin openFds /\ openFds' = openFds \cup {f}
<1>1. CASE OpenPool(w) \/ OpenChurn(w)
  BY <1>1 DEF OpenPool, OpenChurn, OpenSocket, Over, Alive
<1>2. CASE \/ LoopTest(w) \/ ReadTotal(w) \/ BatchCheck(w) \/ HandshakeOk(w)
           \/ CountHeld(w) \/ ReleaseHeld(w)
  BY <1>2 DEF LoopTest, ReadTotal, BatchCheck, HandshakeOk, CountHeld,
     ReleaseHeld, Over, Alive
<1>3. CASE HandshakeFail(w) \/ ChurnDone(w) \/ CloseHeld(w)
  BY <1>3 DEF HandshakeFail, ChurnDone, CloseHeld, Over, Alive
<1> QED
  BY <1>1, <1>2, <1>3 DEF Worker

Facts == TypeInv /\ OwnInv /\ CounterExact /\ OvershootBound
Safe == Facts /\ Cardinality(openFds) <= SocketPeak

LEMMA FactsAlways == Spec => []Facts
BY TypeInvAlways, OwnInvAlways, CounterAlwaysExact, Overshoot, PTL DEF Facts

LEMMA SafeAlways == Spec => []Safe
<1>1. Facts => Safe
  BY PeakHolds DEF Facts, Safe
<1> QED
  BY <1>1, FactsAlways, PTL

LEMMA StepIsPoolStep ==
  Safe /\ Safe' /\ [Next]_vars => [Pool!Next]_<<Cardinality(openFds), Over>>
<1> SUFFICES ASSUME Safe, Safe', [Next]_vars
             PROVE  Pool!Next \/ UNCHANGED <<Cardinality(openFds), Over>>
  OBVIOUS
<1>0. TypeInv /\ OwnInv /\ TypeInv' /\ OwnInv'
  BY DEF Safe, Facts
<1>1. CASE Over'
  BY <1>0, <1>1, EndsEmpty
<1>2. ASSUME ~Over', NEW w \in Workers, Worker(w)
      PROVE  Pool!Next \/ UNCHANGED <<Cardinality(openFds), Over>>
  <2>1. Cardinality(openFds)' <= SocketPeak
    BY DEF Safe
  <2> QED
    BY <1>0, <1>2, <2>1, WorkerSockets, GrowOrDrop
<1>3. CASE HandlerJoin \/ HandlerReturn \/ Tick \/ UNCHANGED vars
  <2>1. UNCHANGED <<openFds, pc>> /\ (handler = "killed" <=> handler' = "killed")
    BY <1>3 DEF HandlerJoin, HandlerReturn, Tick, vars, workerVars, handlerVars
  <2> QED
    BY <2>1 DEF Over
<1>4. LambdaTimeout => Over'
  BY DEF LambdaTimeout, Over
<1> QED
  BY <1>1, <1>2, <1>3, <1>4 DEF Next, Ended

LEMMA InitIsPoolInit == Init => Pool!Init
<1> SUFFICES ASSUME Init PROVE Cardinality(openFds) = 0 /\ Over = FALSE
  BY DEF Pool!Init
<1>1. 1 \in Workers /\ pc[1] # "done" /\ handler # "killed"
  BY ConstantsAssumption DEF Init, Workers
<1> QED
  BY <1>1, FS_EmptySet DEF Init, Over

(* Every step of the threads, of the handler and of the sandbox is a step  *)
(* of HeldPool or none: connections come one by one, never more than the   *)
(* peak (the target, the overshoot and the churn), and none is left at the *)
(* end.                                                                    *)
THEOREM PoolPromiseKept == Spec => KeepsPoolPromise
BY InitIsPoolInit, StepIsPoolStep, SafeAlways, PTL
   DEF Spec, KeepsPoolPromise, Pool!Spec

-------------------------------------------------------------------------------
(* The end of the pool. *)

(* A worker that is about to open a socket finds a descriptor.             *)
LEMMA DescriptorFree ==
  ASSUME Facts, Alive, FdLimit >= SocketPeak, NEW w \in Workers,
         pc[w] \in {"open", "churn"}
  PROVE  ~(Fds \subseteq openFds)
<1>1. TypeInv /\ OwnInv /\ CounterExact /\ OvershootBound /\ total_held \in Int
  BY DEF Facts, TypeInv, TypeOK
<1>2. Cardinality(openFds) <= total_held + Cardinality(Openers)
  BY <1>1, OpenWithinCounted DEF CounterExact
<1>3. pc[w] = "churn" => RapidChurn
  BY <1>1 DEF OwnInv, SockOK
<1>4. Cardinality(openFds) \in Nat
  BY <1>1, FdsFinite DEF TypeInv, TypeOK
<1>5. Cardinality(openFds) < SocketPeak
  <2>1. CASE pc[w] = "open"
    BY <1>1, <1>2, <1>4, <2>1, OpenersFinite, OpenersRoom, InFlightFinite, ConstantsAssumption
       DEF OvershootBound, SocketPeak
  <2>2. CASE pc[w] = "churn"
    BY <1>1, <1>2, <1>3, <1>4, <2>2, OpenersFinite, OpenersRoom, InFlightFinite,
       ConstantsAssumption DEF OvershootBound, SocketPeak
  <2> QED
    BY <2>1, <2>2
<1>6. Cardinality(Fds) = FdLimit
  BY FS_Interval, ConstantsAssumption DEF Fds
<1>7. CASE Fds \subseteq openFds
  <2>1. openFds = Fds
    BY <1>1, <1>7 DEF TypeInv, TypeOK
  <2>2. SocketPeak \in Int
    BY ConstantsAssumption DEF SocketPeak
  <2> QED
    BY <1>4, <1>5, <1>6, <2>1, <2>2, ConstantsAssumption
<1> QED
  BY <1>7

LEMMA NextPoolKept ==
  ASSUME FdLimit >= SocketPeak
  PROVE  Facts /\ PoolKeptUntilEnd /\ [Next]_vars => PoolKeptUntilEnd'
<1> SUFFICES ASSUME Facts, PoolKeptUntilEnd, [Next]_vars PROVE PoolKeptUntilEnd'
  OBVIOUS
<1>0. now \in Int /\ EndTime \in Int /\ pc \in [Workers -> RunningPC \cup ExitPC]
  BY ConstantsAssumption DEF Facts, TypeInv, TypeOK, EndTime
<1>1. ASSUME NEW w \in Workers, UNCHANGED now, NEW p, pc' = [pc EXCEPT ![w] = p],
             p \in ExitPC => now >= EndTime
      PROVE  PoolKeptUntilEnd'
  BY <1>0, <1>1 DEF PoolKeptUntilEnd, EndTime
<1>2. ASSUME NEW w \in Workers, Worker(w) PROVE PoolKeptUntilEnd'
  <2>1. CASE OpenPool(w) \/ OpenChurn(w)
    <3>1. ~(Fds \subseteq openFds) /\ UNCHANGED now
      BY <2>1, DescriptorFree DEF OpenPool, OpenChurn, OpenSocket
    <3>2. PICK p \in {"handshake", "churnshake"} : pc' = [pc EXCEPT ![w] = p]
      BY <2>1, <3>1 DEF OpenPool, OpenChurn, OpenSocket
    <3> QED
      BY <1>1, <3>1, <3>2 DEF ExitPC
  <2>2. CASE CloseHeld(w) \/ ReleaseHeld(w)
    <3>1. PICK p \in {"release", "done"} : pc' = [pc EXCEPT ![w] = p] /\ UNCHANGED now
      BY <2>2 DEF CloseHeld, ReleaseHeld
    <3>2. now >= EndTime
      BY <2>2 DEF CloseHeld, ReleaseHeld, PoolKeptUntilEnd, ExitPC
    <3> QED
      BY <1>1, <3>1, <3>2
  <2>3. CASE LoopTest(w)
    <3>1. CASE now < EndTime
      <4>1. pc' = [pc EXCEPT ![w] = "read"] /\ UNCHANGED now
        BY <2>3, <3>1 DEF LoopTest
      <4> QED
        BY <1>1, <4>1 DEF ExitPC
    <3>2. CASE now >= EndTime
      <4>1. pc' = [pc EXCEPT ![w] = "closing"] /\ UNCHANGED now
        <5>1. ~(now < EndTime)
          BY <1>0, <3>2
        <5> QED
          BY <2>3, <5>1 DEF LoopTest
      <4> QED
        BY <1>1, <3>2, <4>1
    <3> QED
      BY <1>0, <3>1, <3>2
  <2>4. CASE \/ ReadTotal(w) \/ BatchCheck(w) \/ HandshakeOk(w)
             \/ HandshakeFail(w) \/ CountHeld(w) \/ ChurnDone(w)
    <3>1. PICK p \in {"batch", "churn", "loop", "open", "count"} :
            pc' = [pc EXCEPT ![w] = p] /\ UNCHANGED now
      BY <2>4 DEF ReadTotal, BatchCheck, HandshakeOk, HandshakeFail, CountHeld, ChurnDone
    <3> QED
      BY <1>1, <3>1 DEF ExitPC
  <2> QED
    BY <1>2, <2>1, <2>2, <2>3, <2>4 DEF Worker
<1>3. CASE Tick
  BY <1>0, <1>3 DEF Tick, workerVars, PoolKeptUntilEnd, EndTime
<1>4. CASE HandlerJoin \/ HandlerReturn \/ LambdaTimeout \/ UNCHANGED vars
  BY <1>4 DEF HandlerJoin, HandlerReturn, LambdaTimeout, vars, workerVars, PoolKeptUntilEnd
<1> QED
  BY <1>2, <1>3, <1>4 DEF Next, Ended

(* When the sandbox has descriptors for the peak, the pool is held until   *)
(* end_time: no worker leaves its loop, and drops its sockets, before.     *)
THEOREM PoolHeldToTheEnd ==
  ASSUME FdLimit >= SocketPeak
  PROVE  Spec => []PoolKeptUntilEnd
<1>1. Init => PoolKeptUntilEnd
  BY DEF Init, PoolKeptUntilEnd, ExitPC
<1> QED
  BY <1>1, NextPoolKept, FactsAlways, PTL DEF Spec

(* The results are those of the threads that are done; the response counts *)
(* some of them.                                                           *)
ResultsOfDone ==
  /\ \A w \in results : pc[w] = "done"
  /\ response \subseteq results

LEMMA NextResultsOfDone ==
  TypeInv /\ ResultsOfDone /\ [Next]_vars => ResultsOfDone'
<1> SUFFICES ASSUME TypeInv, ResultsOfDone, [Next]_vars PROVE ResultsOfDone'
  OBVIOUS
<1>0. results \subseteq Workers /\ pc \in [Workers -> RunningPC \cup ExitPC]
  BY DEF TypeInv, TypeOK
<1>1. ASSUME NEW w \in Workers, Worker(w) PROVE ResultsOfDone'
  <2>1. UNCHANGED response /\ pc[w] # "done" /\ \A v \in Workers \ {w} : pc'[v] = pc[v]
    BY <1>0, <1>1 DEF Worker, LoopTest, ReadTotal, BatchCheck, OpenPool, OpenChurn,
       OpenSocket, HandshakeOk, HandshakeFail, CountHeld, ChurnDone, CloseHeld,
       ReleaseHeld, handlerVars
  <2>2. CASE ReleaseHeld(w)
    BY <1>0, <2>1, <2>2 DEF ReleaseHeld, ResultsOfDone
  <2>3. CASE ~ReleaseHeld(w)
    <3>1. UNCHANGED results
      BY <1>1, <2>3 DEF Worker, LoopTest, ReadTotal, BatchCheck, OpenPool, OpenChurn,
         OpenSocket, HandshakeOk, HandshakeFail, CountHeld, ChurnDone, CloseHeld
    <3> QED
      BY <1>0, <2>1, <3>1 DEF ResultsOfDone
  <2> QED
    BY <2>2, <2>3
<1>2. CASE HandlerReturn
  BY <1>2 DEF HandlerReturn, workerVars, ResultsOfDone
<1>3. CASE HandlerJoin \/ Tick \/ LambdaTimeout \/ UNCHANGED vars
  BY <1>3 DEF HandlerJoin, Tick, LambdaTimeout, vars, workerVars, handlerVars, ResultsOfDone
<1> QED
  BY <1>1, <1>2, <1>3 DEF Next, Ended

(* A response that counts every worker means that the test is over: the    *)
(* pool is closed and the counter is back to zero.                         *)
THEOREM CompleteMeansDrained == Spec => []CompleteResponseMeansDrained
<1>1. Init => ResultsOfDone
  BY DEF Init, ResultsOfDone
<1>2. Facts /\ ResultsOfDone => CompleteResponseMeansDrained
  <2> SUFFICES ASSUME Facts, ResultsOfDone, response = Workers
               PROVE  openFds = {} /\ total_held = 0
    BY DEF CompleteResponseMeansDrained
  <2>1. \A w \in Workers : pc[w] = "done"
    BY DEF ResultsOfDone
  <2>2. \A w \in Workers : held[w] = {}
    BY <2>1 DEF Facts, OwnInv, SockOK
  <2>3. Counted = {}
    BY <2>2 DEF Counted
  <2>4. total_held = 0
    BY <2>3, FS_EmptySet DEF Facts, CounterExact
  <2> QED
    BY <2>1, <2>4, OverMeansEmpty DEF Facts, Over
<1> QED
  BY <1>1, <1>2, NextResultsOfDone, TypeInvAlways, FactsAlways, PTL DEF Spec

-------------------------------------------------------------------------------
(* How long a worker needs to wind down. *)

(* The steps a worker may still take once end_time has passed. *)
StepsLeft(w) ==
  CASE pc[w] = "read" -> 4 * BatchSize + 5
    [] pc[w] = "batch" -> 4 * left[w] + 4
    [] pc[w] = "open" -> 4 * left[w] + 3
    [] pc[w] = "handshake" -> 4 * left[w] + 2
    [] pc[w] = "count" -> 4 * left[w] + 1
    [] pc[w] = "churn" -> 5
    [] pc[w] = "churnshake" -> 4
    [] pc[w] = "loop" -> 3
    [] pc[w] = "closing" -> 2
    [] pc[w] = "release" -> 1
    [] OTHER -> 0

(* After end_time each step of a worker brings it nearer to its end,       *)
(* whatever its handshakes answer, and nobody else sets it back.           *)
StepCounts ==
  now >= EndTime =>
    \A w \in Workers :
      /\ StepsLeft(w)' <= StepsLeft(w)
      /\ Worker(w) => StepsLeft(w)' < StepsLeft(w)

(* Only a worker that is done has no step left. *)
StepsBounded ==
  \A w \in Workers :
    /\ StepsLeft(w) \in 0..(4 * BatchSize + 5)
    /\ StepsLeft(w) = 0 <=> pc[w] = "done"

LEMMA StepsLeftBounded == TypeInv => StepsBounded
<1> SUFFICES ASSUME TypeInv, NEW w \in Workers
             PROVE  /\ StepsLeft(w) \in 0..(4 * BatchSize + 5)
                    /\ StepsLeft(w) = 0 <=> pc[w] = "done"
  BY DEF StepsBounded
<1>1. /\ BatchSize \in Nat /\ left[w] \in 0..BatchSize
      /\ pc[w] \in RunningPC \cup ExitPC
  BY ConstantsAssumption DEF TypeInv, TypeOK
<1> QED
  BY <1>1 DEF StepsLeft, RunningPC, ExitPC

(* A step of a worker moves nobody else. *)
LEMMA OthersStay ==
  ASSUME TypeInv, NEW w \in Workers, Worker(w), NEW v \in Workers, v # w
  PROVE  pc'[v] = pc[v] /\ left'[v] = left[v]
<1> USE DEF TypeInv, TypeOK
<1>1. CASE LoopTest(w) \/ ReadTotal(w) \/ BatchCheck(w)
  BY <1>1 DEF LoopTest, ReadTotal, BatchCheck
<1>2. CASE OpenPool(w) \/ OpenChurn(w)
  BY <1>2 DEF OpenPool, OpenChurn, OpenSocket
<1>3. CASE HandshakeOk(w) \/ HandshakeFail(w) \/ CountHeld(w) \/ ChurnDone(w)
  BY <1>3 DEF HandshakeOk, HandshakeFail, CountHeld, ChurnDone
<1>4. CASE CloseHeld(w) \/ ReleaseHeld(w)
  BY <1>4 DEF CloseHeld, ReleaseHeld
<1> QED
  BY <1>1, <1>2, <1>3, <1>4 DEF Worker

LEMMA WorkerCounts ==
  ASSUME TypeInv, TypeInv', now >= EndTime, NEW w \in Workers, Worker(w)
  PROVE  StepsLeft(w)' < StepsLeft(w)
<1>0. /\ left[w] \in Nat /\ left'[w] \in 0..BatchSize /\ BatchSize \in Nat
      /\ pc[w] \in {"open", "handshake", "count"} => left[w] > 0
  BY ConstantsAssumption DEF TypeInv, TypeOK, LocalsOK
<1>1. CASE LoopTest(w)
  <2>1. ~(now < EndTime)
    BY ConstantsAssumption DEF TypeInv, TypeOK, EndTime
  <2>2. pc[w] = "loop" /\ pc'[w] = "closing"
    BY <1>1, <2>1 DEF LoopTest, TypeInv, TypeOK
  <2> QED BY <2>2 DEF StepsLeft
<1>2. CASE ReadTotal(w)
  <2>1. pc[w] = "read" /\ pc'[w] \in {"batch", "churn", "loop"}
    BY <1>2 DEF ReadTotal, TypeInv, TypeOK
  <2>2. left'[w] \in Nat /\ left'[w] <= BatchSize
    BY <1>0
  <2>3. StepsLeft(w) = 4 * BatchSize + 5
    BY <2>1 DEF StepsLeft
  <2>4. CASE pc'[w] = "batch"
    <3>1. StepsLeft(w)' = 4 * left'[w] + 4
      BY <2>4 DEF StepsLeft
    <3> QED BY <1>0, <2>2, <2>3, <3>1
  <2>5. CASE pc'[w] \in {"churn", "loop"}
    <3>1. StepsLeft(w)' \in {5, 3}
      BY <2>5 DEF StepsLeft
    <3> QED
      <4>1. 5 < 4 * BatchSize + 5
        BY ConstantsAssumption
      <4> QED BY <1>0, <2>3, <3>1, <4>1
  <2> QED BY <2>1, <2>4, <2>5
<1>3. CASE BatchCheck(w)
  <2>1. /\ pc[w] = "batch"
        /\ \/ pc'[w] = "open" /\ left'[w] = left[w]
           \/ pc'[w] = "loop"
    BY <1>3 DEF BatchCheck, TypeInv, TypeOK
  <2> QED BY <1>0, <2>1 DEF StepsLeft
<1>4. CASE OpenPool(w)
  <2>1. /\ pc[w] = "open" /\ left'[w] = left[w]
        /\ pc'[w] \in {"handshake", "closing"}
    BY <1>4 DEF OpenPool, OpenSocket, TypeInv, TypeOK
  <2> QED BY <1>0, <2>1 DEF StepsLeft
<1>5. CASE OpenChurn(w)
  <2>1. pc[w] = "churn" /\ pc'[w] \in {"churnshake", "closing"}
    BY <1>5 DEF OpenChurn, OpenSocket, TypeInv, TypeOK
  <2> QED BY <2>1 DEF StepsLeft
<1>6. CASE HandshakeOk(w)
  <2>1. pc[w] = "handshake" /\ pc'[w] = "count" /\ left'[w] = left[w]
    BY <1>6 DEF HandshakeOk, TypeInv, TypeOK
  <2> QED BY <1>0, <2>1 DEF StepsLeft
<1>7. CASE HandshakeFail(w) \/ CountHeld(w)
  <2>1. pc[w] \in {"handshake", "count"} /\ pc'[w] = "batch" /\ left'[w] = left[w] - 1
    BY <1>7 DEF HandshakeFail, CountHeld, TypeInv, TypeOK
  <2> QED BY <1>0, <2>1 DEF StepsLeft
<1>8. CASE ChurnDone(w)
  <2>1. pc[w] = "churnshake" /\ pc'[w] = "loop"
    BY <1>8 DEF ChurnDone, TypeInv, TypeOK
  <2> QED BY <2>1 DEF StepsLeft
<1>9. CASE CloseHeld(w)
  <2>1. pc[w] = "closing" /\ pc'[w] = "release"
    BY <1>9 DEF CloseHeld, TypeInv, TypeOK
  <2> QED BY <2>1 DEF StepsLeft
<1>10. CASE ReleaseHeld(w)
  <2>1. pc[w] = "release" /\ pc'[w] = "done"
    BY <1>10 DEF ReleaseHeld, TypeInv, TypeOK
  <2> QED BY <2>1 DEF StepsLeft
<1> QED
  BY <1>1, <1>2, <1>3, <1>4, <1>5, <1>6, <1>7, <1>8, <1>9, <1>10 DEF Worker

(* connection_exhaustion.worker: once end_time has passed a worker makes   *)
(* at most 4 * BatchSize + 5 steps, at most BatchSize of them handshakes,  *)
(* and then it is done: what WindDown stands for in the orchestrator.      *)
THEOREM WindsDownWithinSteps == Spec => []StepsBounded /\ [][StepCounts]_vars
<1>1. TypeInv /\ TypeInv' /\ [Next]_vars => [StepCounts]_vars
  <2> SUFFICES ASSUME TypeInv, TypeInv', [Next]_vars, now >= EndTime, NEW w \in Workers
               PROVE  /\ StepsLeft(w)' <= StepsLeft(w)
                      /\ Worker(w) => StepsLeft(w)' < StepsLeft(w)
    BY DEF StepCounts
  <2>1. StepsLeft(w) \in Nat /\ StepsLeft(w)' \in Nat
    <3>1. StepsBounded
      BY StepsLeftBounded
    <3>2. StepsBounded'
      BY StepsLeftBounded, PTL
    <3>3. BatchSize \in Nat
      BY ConstantsAssumption
    <3> QED BY <3>1, <3>2, <3>3 DEF StepsBounded
  <2>2. ASSUME NEW v \in Workers, Worker(v)
        PROVE  StepsLeft(w)' <= StepsLeft(w)
    <3>1. CASE v = w
      BY <2>1, <2>2, <3>1, WorkerCounts
    <3>2. CASE v # w
      <4>1. pc'[w] = pc[w] /\ left'[w] = left[w]
        BY <2>2, <3>2, OthersStay
      <4> QED BY <2>1, <4>1 DEF StepsLeft
    <3> QED BY <3>1, <3>2
  <2>3. ASSUME \/ HandlerJoin \/ HandlerReturn \/ Tick \/ LambdaTimeout \/ Ended
               \/ UNCHANGED vars
        PROVE  StepsLeft(w)' <= StepsLeft(w)
    <3>1. pc' = pc /\ left' = left
      BY <2>3 DEF HandlerJoin, HandlerReturn, Tick, LambdaTimeout, Ended, vars, workerVars
    <3> QED BY <2>1, <3>1 DEF StepsLeft
  <2>4. Worker(w) => StepsLeft(w)' < StepsLeft(w)
    BY WorkerCounts
  <2>5. StepsLeft(w)' <= StepsLeft(w)
    BY <2>2, <2>3 DEF Next
  <2> QED BY <2>4, <2>5
<1> QED
  BY <1>1, StepsLeftBounded, TypeInvAlways, PTL DEF Spec

===============================================================================
