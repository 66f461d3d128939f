-------------------------- MODULE ServerStartProofs --------------------------
(***************************************************************************)
(* Proofs about ServerStart, for any set of callers and any number of      *)
(* threads.                                                                *)
(***************************************************************************)
EXTENDS ServerStart, TLAPS

\* The invariant holds when nobody has called start() yet.
LEMMA InitEstablishes == Init => StartInv
<1> SUFFICES ASSUME Init
             PROVE  StartInv
  OBVIOUS
<1>1. TypeOK
  <2>1. thread \in [Pool -> {"none", "created", "hasTid", "posted",
                            "initialised", "looping"}]
    BY DEF Init
  <2>2. at \in [Callers -> {"idle", "pool", "starting", "waiting", "listen",
                            "done"}]
    BY DEF Init
  <2>3. started_ \in Nat /\ initialised \in Nat /\ listens \in Nat
        /\ pending \in 0 .. 1 /\ numThreads_ \in 0 .. MaxThreads
    BY DEF Init
  <2>4. looping \in BOOLEAN /\ threadInitCallback_ \in BOOLEAN
    BY Zenon DEF Init
  <2> QED
    BY <2>1, <2>2, <2>3, <2>4 DEF TypeOK
<1>2. OneStarter /\ Progress /\ OneThread
  BY DEF Init, Calls, OneStarter, Progress, Starting, OneThread, TidKnown
<1> QED
  BY <1>1, <1>2 DEF StartInv

\* Every step of a caller, of a thread of the pool and of the base loop keeps
\* the invariant.
LEMMA StepPreserves == StartInv /\ [Next]_vars => StartInv'
<1> SUFFICES ASSUME StartInv, [Next]_vars
             PROVE  StartInv'
  OBVIOUS
<1> USE ServerStartAssumption DEF StartInv, TypeOK, OneStarter, Progress,
        OneThread, TidKnown, Starting, Goes, Pool, settings, Calls
<1>1. ASSUME NEW c \in Callers, start(c)
      PROVE  StartInv'
  BY <1>1 DEF start, firstCall
<1>2. ASSUME NEW c \in Callers, createThread(c)
      PROVE  StartInv'
  BY <1>2 DEF createThread
<1>3. ASSUME NEW c \in Callers, noThreads(c)
      PROVE  StartInv'
  BY <1>3 DEF noThreads, initCallback
<1>4. ASSUME NEW c \in Callers, semWait(c)
      PROVE  StartInv'
  <2>1. /\ at' = [at EXCEPT ![c] = "waiting"] /\ at[c] = "starting"
        /\ UNCHANGED <<settings, started_, thread, initialised, pending,
                       looping, listens>>
    BY <1>4 DEF semWait
  <2>2. TypeOK' /\ OneStarter' /\ Progress'
    BY <2>1
  <2>3. \A i \in Pool : thread[i] # "none" => semPosted(i)
    BY <1>4 DEF semWait, semPosted
  <2>4. OneThread'
    BY <2>1, <2>3 DEF semPosted
  <2> QED
    BY <2>2, <2>4
<1>5. ASSUME NEW c \in Callers, runListen(c)
      PROVE  StartInv'
  <2>1. CASE c = Main
    BY <1>5, <2>1 DEF runListen
  <2>2. CASE c # Main
    BY <1>5, <2>2 DEF runListen, queueListen
  <2> QED
    BY <2>1, <2>2
<1>6. ASSUME NEW i \in Pool, PoolStep(i)
      PROVE  StartInv'
  BY <1>6 DEF PoolStep, setTid, post, callback, publish, Advances
<1>7. CASE loop
  BY <1>7 DEF loop
<1>8. CASE doPendingFunctors
  BY <1>8 DEF doPendingFunctors
<1>9. CASE UNCHANGED vars
  BY <1>9 DEF vars
<1> QED
  BY <1>1, <1>2, <1>3, <1>4, <1>5, <1>6, <1>7, <1>8, <1>9
     DEF Next, CallerStep, BaseLoop

\* The inductive invariant: one caller at a time is past the test of started_,
\* and the counts of callbacks and listens follow where it is.
THEOREM Invariance == Spec => []StartInv
<1>1. Init => StartInv
  BY InitEstablishes
<1>2. StartInv /\ [Next]_vars => StartInv'
  BY StepPreserves
<1> QED
  BY <1>1, <1>2, PTL DEF Spec

\* The variables of ServerStart keep their types.
THEOREM TypeCorrect == Spec => []TypeOK
<1>1. StartInv => TypeOK
  BY DEF StartInv
<1> QED
  BY <1>1, Invariance, PTL

\* However many threads call TcpServer::start(), the acceptor is made to
\* listen at most once, after the base loop went through threadInitCallback_.
THEOREM ListensOnce == Spec => []ListenOnce
<1>1. StartInv => ListenOnce
  BY DEF StartInv, Progress, ListenOnce
<1> QED
  BY <1>1, Invariance, PTL

\* Once Thread::start has returned to the caller, the new thread's id is known.
THEOREM IdKnown == Spec => []TidKnown
<1>1. StartInv => TidKnown
  BY DEF StartInv, OneThread
<1> QED
  BY <1>1, Invariance, PTL
=============================================================================
