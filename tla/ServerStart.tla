------------------------------ MODULE ServerStart -----------------------------
(***************************************************************************)
(* The start of a TcpServer: several threads call TcpServer::start(); the  *)
(* first one starts the EventLoopThreadPool, thread after thread           *)
(* (EventLoopThread::startLoop, Thread::start and the new thread's         *)
(* threadFunc), then has the acceptor listen, in the base loop.            *)
(*                                                                         *)
(* The main thread built the base loop and calls loop() on it after its    *)
(* own call of start(), as the programs in src/example do.                 *)
(***************************************************************************)
EXTENDS Integers

CONSTANTS
  Callers,    \* the threads that call start(), each once
  Main,       \* the one of them that runs the base loop
  MaxThreads  \* bound: setThreadNum was given no more before the start

ASSUME ServerStartAssumption ==
  /\ Main \in Callers
  /\ MaxThreads \in Nat

VARIABLES
  numThreads_, \* the pool's
  threadInitCallback_,  \* TcpServer's is set
  at,          \* where each caller is
  started_,    \* TcpServer's
  thread,      \* how far each thread of the pool has come
  initialised, \* how often threadInitCallback_ was called with the base loop
  pending,     \* the base loop's queue: so many calls of Acceptor::listen
  looping,     \* the main thread is inside loop()
  listens      \* how often Acceptor::listen ran

settings == <<numThreads_, threadInitCallback_>>
vars == <<settings, at, started_, thread, initialised, pending, looping,
          listens>>

\* The threads of the pool.
Pool == 1 .. numThreads_

TypeOK ==
  /\ numThreads_ \in 0 .. MaxThreads
  /\ threadInitCallback_ \in BOOLEAN
  /\ at \in [Callers -> {"idle", "pool", "starting", "waiting", "listen",
                         "done"}]
  /\ started_ \in Nat
  /\ thread \in [Pool -> {"none", "created", "hasTid", "posted",
                          "initialised", "looping"}]
  /\ initialised \in Nat
  /\ pending \in 0 .. 1
  /\ looping \in BOOLEAN
  /\ listens \in Nat

\* The constructor, setThreadNum and setThreadInitCallback.
Init ==
  /\ numThreads_ \in 0 .. MaxThreads
  /\ threadInitCallback_ \in BOOLEAN
  /\ at = [c \in Callers |-> "idle"]
  /\ started_ = 0
  /\ thread = [i \in Pool |-> "none"]
  /\ initialised = 0
  /\ pending = 0
  /\ looping = FALSE
  /\ listens = 0

Goes(c, from, to) ==
  /\ at[c] = from
  /\ at' = [at EXCEPT ![c] = to]

-----------------------------------------------------------------------------
(* The callers.                                                            *)

\* TcpServer::start: started_ is atomic, so the test and the increment are
\* one step.
\* Mutant: the test is missing.
everyCall == TRUE
firstCall == started_ = 0

start(c) ==
  /\ Goes(c, "idle", IF firstCall THEN "pool" ELSE "done")
  /\ started_' = started_ + 1
  /\ UNCHANGED <<settings, thread, initialised, pending, looping, listens>>

\* EventLoopThreadPool::start: the next thread, as far as Thread::start
\* creates it,
createThread(c) ==
  /\ Goes(c, "pool", "starting")
  /\ \E i \in Pool :
       /\ thread[i] = "none"
       /\ \A j \in 1 .. i - 1 : thread[j] # "none"
       /\ thread' = [thread EXCEPT ![i] = "created"]
  /\ UNCHANGED <<settings, started_, initialised, pending, looping, listens>>

\* or, without threads, the callback for the base loop, if there is one.
initCallback ==
  initialised' = IF threadInitCallback_ THEN initialised + 1 ELSE initialised

noThreads(c) ==
  /\ numThreads_ = 0
  /\ Goes(c, "pool", "listen")
  /\ initCallback
  /\ UNCHANGED <<settings, started_, thread, pending, looping, listens>>

\* Thread::start returns when the new thread has posted the semaphore.
\* Mutant: it does not wait.
doesNotWait(i) == thread[i] # "none"
semPosted(i) == thread[i] \in {"posted", "initialised", "looping"}

\* Then startLoop waits on cond_ while its own variable "loop" is nullptr.
\* Nothing assigns that variable before the wait is over, a notification or
\* not, so no step leaves "waiting".
semWait(c) ==
  /\ Goes(c, "starting", "waiting")
  /\ \E i \in Pool : semPosted(i)
  /\ UNCHANGED <<settings, started_, thread, initialised, pending, looping,
                 listens>>

\* runInLoop of Acceptor::listen: at once in the main thread, else queued.
\* Mutant: another thread's call is not queued.
forgetListen == UNCHANGED pending
queueListen == pending' = pending + 1

runListen(c) ==
  /\ Goes(c, "listen", "done")
  /\ IF c = Main
     THEN listens' = listens + 1 /\ UNCHANGED pending
     ELSE queueListen /\ UNCHANGED listens
  /\ UNCHANGED <<settings, started_, thread, initialised, looping>>

-----------------------------------------------------------------------------
(* A thread of the pool: the lambda of Thread::start, then threadFunc.     *)

Advances(i, from, to) ==
  /\ thread[i] = from
  /\ thread' = [thread EXCEPT ![i] = to]
  /\ UNCHANGED <<settings, at, started_, initialised, pending, looping,
                 listens>>

setTid(i) == Advances(i, "created", "hasTid")
post(i) == Advances(i, "hasTid", "posted")
\* callback_, if it is set.
callback(i) == Advances(i, "posted", "initialised")
\* loop_ = &loop, notify_one, loop.loop().
publish(i) == Advances(i, "initialised", "looping")

-----------------------------------------------------------------------------
(* The base loop.                                                          *)

loop ==
  /\ at[Main] = "done"
  /\ ~looping
  /\ looping' = TRUE
  /\ UNCHANGED <<settings, at, started_, thread, initialised, pending, listens>>

\* An iteration that finds functors: poll has returned, by its timeout.
doPendingFunctors ==
  /\ looping
  /\ pending > 0
  /\ listens' = listens + pending
  /\ pending' = 0
  /\ UNCHANGED <<settings, at, started_, thread, initialised, looping>>

-----------------------------------------------------------------------------
CallerStep(c) ==
  \/ createThread(c)
  \/ noThreads(c)
  \/ semWait(c)
  \/ runListen(c)

PoolStep(i) ==
  \/ setTid(i)
  \/ post(i)
  \/ callback(i)
  \/ publish(i)

BaseLoop == loop \/ doPendingFunctors

Next ==
  \/ \E c \in Callers : start(c) \/ CallerStep(c)
  \/ \E i \in Pool : PoolStep(i)
  \/ BaseLoop

Spec == Init /\ [][Next]_vars

\* Every thread goes on with what it has begun; the main thread does call
\* start() and then loop(), whose epoll_wait times out.
FairSpec ==
  /\ Spec
  /\ WF_vars(start(Main))
  /\ \A c \in Callers : WF_vars(CallerStep(c))
  /\ \A i \in 1 .. MaxThreads : WF_vars(i \in Pool /\ PoolStep(i))
  /\ WF_vars(BaseLoop)

-----------------------------------------------------------------------------
(* Properties.                                                             *)

\* How often threadInitCallback_ is called for the base loop.
Calls == IF threadInitCallback_ THEN 1 ELSE 0

\* Whoever calls start(), and however often, the acceptor is made to listen
\* once, and the base loop has been given to threadInitCallback_, once, by
\* then, if there is such a callback (tcpserver.cc:53-57,
\* eventloopthreadpool.cc:35-38).
ListenOnce ==
  /\ listens + pending <= 1
  /\ listens + pending > 0 => initialised = Calls

\* Once Thread::start has returned, tid_ of the new thread is set
\* (thread.cc:33-39).
TidKnown ==
  \A c \in Callers :
    at[c] = "waiting" => \A i \in Pool : thread[i] # "created"

\* A server without pool threads that was started, by whichever thread, ends
\* up listening (tcpserver.cc:51-59, eventloop.cc:93-103).
AloneListens == started_ > 0 /\ numThreads_ = 0 ~> listens > 0

\* "the main loop mainly runs the acceptor" (tcpserver.h:47, 52): a server
\* that was started ends up listening.
StartListens == started_ > 0 ~> listens > 0
-----------------------------------------------------------------------------
(* What makes the safety properties inductive.                             *)

\* A caller between the test of started_ and the end of start().
Starting(c) == at[c] \in {"pool", "starting", "waiting", "listen"}

\* No two callers get past the test, and none after the first.
OneStarter ==
  /\ \A c, d \in Callers : Starting(c) /\ Starting(d) => c = d
  /\ started_ = 0 => \A c \in Callers : at[c] = "idle"

\* What the one that did has done so far.
Progress ==
  /\ listens + pending <= 1
  /\ listens + pending > 0 =>
       /\ initialised = Calls /\ numThreads_ = 0
       /\ started_ > 0 /\ \A c \in Callers : ~Starting(c)
  /\ \A c \in Callers : at[c] = "listen" =>
       initialised = Calls /\ numThreads_ = 0
  /\ \A c \in Callers : at[c] = "pool" /\ numThreads_ = 0 => initialised = 0
  /\ started_ = 0 => initialised = 0

\* He stays with the first thread of the pool, whose semaphore he has waited
\* for.
OneThread ==
  /\ \A i \in Pool : thread[i] # "none" =>
       i = 1 /\ \E c \in Callers : at[c] \in {"starting", "waiting"}
  /\ TidKnown

\* However calls of start() interleave, one caller at a time is past the test,
\* what he has done so far is done once and in order, and he knows the id of
\* the thread he started (tcpserver.cc:51-59, eventloopthreadpool.cc:23-39,
\* thread.cc:28-41).
StartInv == TypeOK /\ OneStarter /\ Progress /\ OneThread
=============================================================================
