------------------------- MODULE ConnectionExhaustion -------------------------
(***************************************************************************)
(* One invocation of the Valkey connection-exhaustion Lambda               *)
(* (elasticache-stress-test/src/connection_exhaustion.py).                 *)
(*                                                                         *)
(* lambda_handler starts `threads' worker threads and joins them one by    *)
(* one, each with a timeout.  The workers share only the counter           *)
(* total_held, read and written under a lock; the lock is NOT held while a *)
(* socket is being opened, so a check of the counter is stale by the time  *)
(* the socket it allowed is counted.  Every block of code between two      *)
(* points where another thread can be observed is one action.              *)
(***************************************************************************)
EXTENDS Integers, FiniteSets

CONSTANTS
  Threads,      (* CONNECTION_THREADS: number of worker threads             *)
  Target,       (* CONNECTION_TARGET_TOTAL: size of the held pool           *)
  BatchSize,    (* CONNECTION_BATCH_SIZE: sockets per pass of the loop      *)
  RapidChurn,   (* CONNECTION_RAPID_CHURN                                   *)
  FdLimit,      (* file descriptors the Lambda sandbox gives to sockets     *)
  Duration,     (* seconds until end_time (the clock starts at 0)           *)
  JoinGrace,    (* the 60 of t.join(timeout=duration + 60)                  *)
  LambdaLimit   (* the Lambda's own timeout: the sandbox is killed then     *)

ASSUME ConstantsAssumption ==
  /\ Threads \in Nat \ {0}
  /\ Target \in Nat \ {0}
  /\ BatchSize \in Nat \ {0}
  /\ RapidChurn \in BOOLEAN
  /\ FdLimit \in Nat
  /\ Duration \in Nat
  /\ JoinGrace \in Nat
  /\ LambdaLimit \in Nat /\ LambdaLimit > Duration

Workers == 1..Threads
Fds == 1..FdLimit

(* A worker that has not reached its finally block. *)
RunningPC == {"loop", "read", "batch", "open", "handshake", "count",
              "churn", "churnshake"}
ExitPC == {"closing", "release", "done"}

VARIABLES
  now,          (* time.time(), 0 when end_time is computed                 *)
  total_held,   (* shared_state["total_held"]                               *)
  pc,           (* where each worker is                                     *)
  left,         (* iterations left of the worker's `for _ in range(batch)'  *)
  held,         (* the worker's list of handshaken sockets                  *)
  sock,         (* the socket the worker is opening (0: none)               *)
  openFds,      (* sockets the sandbox has open                             *)
  results,      (* workers whose results[idx] is set                        *)
  handler,      (* lambda_handler: "running", "returned" or "killed"        *)
  joining,      (* index of the thread the handler is joining               *)
  joinBy,       (* when that join gives up                                  *)
  response      (* workers whose numbers the response adds up               *)

workerVars == <<total_held, pc, left, held, sock, openFds, results>>
handlerVars == <<handler, joining, joinBy, response>>
vars == <<now, workerVars, handlerVars>>

EndTime == Duration

Init ==
  /\ now = 0
  /\ total_held = 0
  /\ pc = [w \in Workers |-> "loop"]
  /\ left = [w \in Workers |-> 0]
  /\ held = [w \in Workers |-> {}]
  /\ sock = [w \in Workers |-> 0]
  /\ openFds = {}
  /\ results = {}
  /\ handler = "running"
  /\ joining = 1
  /\ joinBy = Duration + JoinGrace
  /\ response = {}

-------------------------------------------------------------------------------
(* The worker thread. *)

Alive == handler # "killed"

MinOf(a, b) == IF a <= b THEN a ELSE b

(* Mutant: the loop does not look at the clock. *)
LoopTest_NoClock(w) ==
  /\ Alive /\ pc[w] = "loop"
  /\ pc' = [pc EXCEPT ![w] = "read"]
  /\ UNCHANGED <<now, total_held, left, held, sock, openFds, results, handlerVars>>

(* while time.time() < end_time *)
LoopTest(w) ==
  /\ Alive /\ pc[w] = "loop"
  /\ pc' = [pc EXCEPT ![w] = IF now < EndTime THEN "read" ELSE "closing"]
  /\ UNCHANGED <<now, total_held, left, held, sock, openFds, results, handlerVars>>

(* Reads total_held under the lock and chooses between filling the pool,   *)
(* churning and sleeping.                                                  *)
ReadTotal(w) ==
  /\ Alive /\ pc[w] = "read"
  /\ \/ /\ total_held < Target
        /\ left' = [left EXCEPT ![w] = MinOf(BatchSize, Target - total_held)]
        /\ pc' = [pc EXCEPT ![w] = "batch"]
     \/ /\ total_held >= Target
        /\ pc' = [pc EXCEPT ![w] = IF RapidChurn THEN "churn" ELSE "loop"]
        /\ UNCHANGED left
  /\ UNCHANGED <<now, total_held, held, sock, openFds, results, handlerVars>>

(* Mutants: the counter is not checked again for every socket; the range   *)
(* of the batch is one too long.                                           *)
BatchCheck_NoRecheck(w) ==
  /\ Alive /\ pc[w] = "batch"
  /\ pc' = [pc EXCEPT ![w] = IF left[w] > 0 THEN "open" ELSE "loop"]
  /\ UNCHANGED <<now, total_held, left, held, sock, openFds, results, handlerVars>>

BatchCheck_OneMore(w) ==
  /\ Alive /\ pc[w] = "batch"
  /\ pc' = [pc EXCEPT ![w] = IF left[w] >= 0 /\ total_held < Target
                             THEN "open" ELSE "loop"]
  /\ UNCHANGED <<now, total_held, left, held, sock, openFds, results, handlerVars>>

(* Head of the batch loop: the per-socket check under the lock.  The lock  *)
(* is released before the socket is opened.                                *)
BatchCheck(w) ==
  /\ Alive /\ pc[w] = "batch"
  /\ \/ /\ left[w] > 0 /\ total_held < Target
        /\ pc' = [pc EXCEPT ![w] = "open"]
        /\ UNCHANGED left
     \/ /\ left[w] = 0 \/ total_held >= Target
        /\ pc' = [pc EXCEPT ![w] = "loop"]
        /\ left' = [left EXCEPT ![w] = 0]
  /\ UNCHANGED <<now, total_held, held, sock, openFds, results, handlerVars>>

(* socket.socket(), outside open_and_handshake's try: the lowest free      *)
(* descriptor, or OSError, which ends the worker's loop.                   *)
OpenSocket(w, from, to) ==
  /\ Alive /\ pc[w] = from
  /\ \/ \E f \in Fds \ openFds :
          /\ \A g \in Fds \ openFds : f <= g
          /\ sock' = [sock EXCEPT ![w] = f]
          /\ openFds' = openFds \cup {f}
          /\ pc' = [pc EXCEPT ![w] = to]
     \/ /\ Fds \subseteq openFds
        /\ pc' = [pc EXCEPT ![w] = "closing"]
        /\ UNCHANGED <<sock, openFds>>
  /\ UNCHANGED <<now, total_held, left, held, results, handlerVars>>

OpenPool(w) == OpenSocket(w, "open", "handshake")
OpenChurn(w) == OpenSocket(w, "churn", "churnshake")

(* connect, PING, +PONG: the socket joins the worker's list. *)
HandshakeOk(w) ==
  /\ Alive /\ pc[w] = "handshake"
  /\ held' = [held EXCEPT ![w] = @ \cup {sock[w]}]
  /\ pc' = [pc EXCEPT ![w] = "count"]
  /\ UNCHANGED <<now, total_held, left, sock, openFds, results, handlerVars>>

(* Mutant: the socket is not closed when the answer is not +PONG. *)
HandshakeFail_NoClose(w) ==
  /\ Alive /\ pc[w] = "handshake"
  /\ sock' = [sock EXCEPT ![w] = 0]
  /\ left' = [left EXCEPT ![w] = @ - 1]
  /\ pc' = [pc EXCEPT ![w] = "batch"]
  /\ UNCHANGED <<now, total_held, held, openFds, results, handlerVars>>

(* Mutant: a handshake that fails raises, and the worker ends. *)
HandshakeFail_EndsWorker(w) ==
  /\ Alive /\ pc[w] = "handshake"
  /\ openFds' = openFds \ {sock[w]}
  /\ sock' = [sock EXCEPT ![w] = 0]
  /\ pc' = [pc EXCEPT ![w] = "closing"]
  /\ UNCHANGED <<now, total_held, left, held, results, handlerVars>>

(* Refused, timed out, or another answer than +PONG: closed, next one. *)
HandshakeFail(w) ==
  /\ Alive /\ pc[w] = "handshake"
  /\ openFds' = openFds \ {sock[w]}
  /\ sock' = [sock EXCEPT ![w] = 0]
  /\ left' = [left EXCEPT ![w] = @ - 1]
  /\ pc' = [pc EXCEPT ![w] = "batch"]
  /\ UNCHANGED <<now, total_held, held, results, handlerVars>>

(* with lock: total_held += 1 *)
CountHeld(w) ==
  /\ Alive /\ pc[w] = "count"
  /\ total_held' = total_held + 1
  /\ sock' = [sock EXCEPT ![w] = 0]
  /\ left' = [left EXCEPT ![w] = @ - 1]
  /\ pc' = [pc EXCEPT ![w] = "batch"]
  /\ UNCHANGED <<now, held, openFds, results, handlerVars>>

(* A churned socket is closed whatever its handshake answered. *)
ChurnDone(w) ==
  /\ Alive /\ pc[w] = "churnshake"
  /\ openFds' = openFds \ {sock[w]}
  /\ sock' = [sock EXCEPT ![w] = 0]
  /\ pc' = [pc EXCEPT ![w] = "loop"]
  /\ UNCHANGED <<now, total_held, left, held, results, handlerVars>>

(* Mutant: the result is stored before the sockets are closed. *)
CloseHeld_ResultFirst(w) ==
  /\ Alive /\ pc[w] = "closing"
  /\ openFds' = openFds \ held[w]
  /\ results' = results \cup {w}
  /\ pc' = [pc EXCEPT ![w] = "release"]
  /\ UNCHANGED <<now, total_held, left, held, sock, handlerVars>>

(* Mutant: the finally forgets the sockets. *)
CloseHeld_KeptOpen(w) ==
  /\ Alive /\ pc[w] = "closing"
  /\ pc' = [pc EXCEPT ![w] = "release"]
  /\ UNCHANGED <<now, total_held, left, held, sock, openFds, results, handlerVars>>

(* finally: the held sockets are closed, without the lock ... *)
CloseHeld(w) ==
  /\ Alive /\ pc[w] = "closing"
  /\ openFds' = openFds \ held[w]
  /\ pc' = [pc EXCEPT ![w] = "release"]
  /\ UNCHANGED <<now, total_held, left, held, sock, results, handlerVars>>

(* Mutants: the counter is not given back; it is given back only by a      *)
(* worker that runs to end_time.                                           *)
ReleaseHeld_NotSubtracted(w) ==
  /\ Alive /\ pc[w] = "release"
  /\ results' = results \cup {w}
  /\ held' = [held EXCEPT ![w] = {}]
  /\ pc' = [pc EXCEPT ![w] = "done"]
  /\ UNCHANGED <<now, total_held, left, sock, openFds, handlerVars>>

ReleaseHeld_NotOnError(w) ==
  /\ Alive /\ pc[w] = "release"
  /\ total_held' = IF now >= EndTime THEN total_held - Cardinality(held[w])
                                     ELSE total_held
  /\ results' = results \cup {w}
  /\ held' = [held EXCEPT ![w] = {}]
  /\ pc' = [pc EXCEPT ![w] = "done"]
  /\ UNCHANGED <<now, left, sock, openFds, handlerVars>>

(* ... then subtracted from the counter, the result is stored, and the     *)
(* list goes with the thread.                                              *)
ReleaseHeld(w) ==
  /\ Alive /\ pc[w] = "release"
  /\ total_held' = total_held - Cardinality(held[w])
  /\ results' = results \cup {w}
  /\ held' = [held EXCEPT ![w] = {}]
  /\ pc' = [pc EXCEPT ![w] = "done"]
  /\ UNCHANGED <<now, left, sock, openFds, handlerVars>>

Worker(w) ==
  \/ LoopTest(w) \/ ReadTotal(w) \/ BatchCheck(w)
  \/ OpenPool(w) \/ OpenChurn(w)
  \/ HandshakeOk(w) \/ HandshakeFail(w) \/ CountHeld(w) \/ ChurnDone(w)
  \/ CloseHeld(w) \/ ReleaseHeld(w)

-------------------------------------------------------------------------------
(* The handler, the clock and the sandbox. *)

(* t.join(timeout=duration + 60): returns when the thread has ended or the *)
(* timeout has passed; the next join has the whole timeout again.          *)
HandlerJoin ==
  /\ handler = "running" /\ joining <= Threads
  /\ pc[joining] = "done" \/ now >= joinBy
  /\ joining' = joining + 1
  /\ joinBy' = now + Duration + JoinGrace
  /\ UNCHANGED <<now, workerVars, handler, response>>

(* Adds up the results that are there and returns 200.  Threads are        *)
(* daemons: those still running are left behind.                           *)
HandlerReturn ==
  /\ handler = "running" /\ joining > Threads
  /\ response' = results
  /\ handler' = "returned"
  /\ UNCHANGED <<now, workerVars, joining, joinBy>>

Tick ==
  /\ handler = "running" /\ now < LambdaLimit
  /\ now' = now + 1
  /\ UNCHANGED <<workerVars, handlerVars>>

(* The function's timeout: the process dies and its sockets with it. *)
LambdaTimeout ==
  /\ handler = "running" /\ now = LambdaLimit
  /\ handler' = "killed"
  /\ openFds' = {}
  /\ UNCHANGED <<now, total_held, pc, left, held, sock, results,
                 joining, joinBy, response>>

(* Nothing is left to run. *)
Ended ==
  /\ \/ handler = "killed"
     \/ handler = "returned" /\ \A w \in Workers : pc[w] = "done"
  /\ UNCHANGED vars

Next ==
  \/ \E w \in Workers : Worker(w)
  \/ HandlerJoin \/ HandlerReturn \/ Tick \/ LambdaTimeout \/ Ended

Spec == Init /\ [][Next]_vars

(* While the invocation runs, every thread is scheduled and every          *)
(* handshake ends (settimeout bounds connect, sendall and recv); time      *)
(* reaches end_time.  Nothing is assumed of the clock after that, nor of   *)
(* the threads once the handler has returned: Lambda freezes the sandbox.  *)
Fairness ==
  /\ \A w \in Workers : WF_vars(handler = "running" /\ Worker(w))
  /\ WF_vars(now < EndTime /\ Tick)

FairSpec == Spec /\ Fairness

-------------------------------------------------------------------------------
(* Properties. *)

TypeOK ==
  /\ now \in 0..LambdaLimit
  /\ total_held \in Int
  /\ pc \in [Workers -> RunningPC \cup ExitPC]
  /\ left \in [Workers -> 0..BatchSize]
  /\ held \in [Workers -> SUBSET Fds]
  /\ sock \in [Workers -> 0..FdLimit]
  /\ openFds \in SUBSET Fds
  /\ results \in SUBSET Workers
  /\ handler \in {"running", "returned", "killed"}
  /\ joining \in 1..(Threads + 1)
  /\ joinBy \in Nat
  /\ response \in SUBSET Workers

(* Workers that passed the check of the counter and have not counted yet. *)
InFlight == {w \in Workers : pc[w] \in {"open", "handshake", "count"}}

(* The sockets the counter stands for, worker by worker: all that were     *)
(* handshaken, less the one still to be counted, until the worker's        *)
(* finally has subtracted its own.                                         *)
Counted == {p \in Workers \X Fds :
              /\ p[2] \in held[p[1]]
              /\ ~(pc[p[1]] = "count" /\ p[2] = sock[p[1]])}

(* The counter is exact at every moment: however the threads interleave,   *)
(* total_held is the number of sockets added and not yet given back.       *)
CounterExact == total_held = Cardinality(Counted)

(* The lock is not held during the handshake, so the pool overshoots the   *)
(* target, but by less than one socket per thread.                         *)
OvershootBound == total_held + Cardinality(InFlight) <= Target + Threads - 1

(* Most sockets the sandbox ever has open: the overshot pool, and one more *)
(* per thread when the threads churn.                                      *)
SocketPeak == Target + (Threads - 1) + (IF RapidChurn THEN Threads ELSE 0)

(* The invocation as the orchestrator sees it: a pool of connections that  *)
(* is over when the threads are, or when the sandbox is killed.            *)
Over == handler = "killed" \/ \A w \in Workers : pc[w] = "done"
Pool == INSTANCE HeldPool WITH
  Capacity <- SocketPeak, held <- Cardinality(openFds), ended <- Over

(* Every step of the threads, of the handler and of the sandbox is a step  *)
(* of HeldPool or none: connections come one by one up to the peak, and    *)
(* when the last thread is done none is left.                              *)
KeepsPoolPromise == Pool!Spec

(* The sockets a worker has open. *)
Owned(w) ==
  (IF pc[w] \in RunningPC \cup {"closing"} THEN held[w] ELSE {})
    \cup (IF pc[w] \in {"handshake", "churnshake"} THEN {sock[w]} ELSE {})

(* No socket is lost, whichever way a handshake or a worker ends: each     *)
(* open descriptor belongs to a thread that will close it.                 *)
NoSocketLost == Alive => openFds = UNION {Owned(w) : w \in Workers}

(* The pool is held until end_time: no worker leaves its loop, and drops   *)
(* the sockets it holds, before.                                           *)
PoolKeptUntilEnd == \A w \in Workers : pc[w] \in ExitPC => now >= EndTime

(* A response that counts every worker means that the test is over: the    *)
(* pool is closed and the counter is back to zero.                         *)
CompleteResponseMeansDrained ==
  handler = "returned" /\ response = Workers => openFds = {} /\ total_held = 0

(* Once end_time has passed a worker runs out of batch: it ends, unless    *)
(* the invocation ends before it.                                          *)
WorkersWindDown ==
  \A w \in Workers : now >= EndTime ~> (pc[w] = "done" \/ handler # "running")

===============================================================================
