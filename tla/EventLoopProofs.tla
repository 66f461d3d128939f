--------------------------- MODULE EventLoopProofs ---------------------------
(***************************************************************************)
(* Proofs about EventLoop for every set of threads, functors and channels: *)
(* its invariants, and that it implements CallbackQueue.                   *)
(***************************************************************************)
EXTENDS EventLoop, Functions, SequenceTheorems, TLAPS

-----------------------------------------------------------------------------
(* Queues kept as sequences: what pushing, taking and concatenating do to  *)
(* the contents.                                                           *)

\* Pushing onto the second of two queues read one after the other pushes onto
\* their concatenation.
LEMMA PushOnConcat ==
  ASSUME NEW S, NEW s \in Seq(S), NEW t \in Seq(S), NEW e \in S
  PROVE  s \o Append(t, e) = Append(s \o t, e)
<1>1. Append(t, e) = t \o <<e>> /\ Append(s \o t, e) = (s \o t) \o <<e>>
  BY AppendIsConcat, ConcatProperties
<1>2. <<e>> \in Seq(S)
  OBVIOUS
<1> QED
  BY <1>1, <1>2, ConcatAssociative

\* The head and the tail of two queues read one after the other.
LEMMA HeadTailOfConcat ==
  ASSUME NEW S, NEW s \in Seq(S), NEW t \in Seq(S), s # <<>>
  PROVE  /\ s \o t # <<>>
         /\ Head(s \o t) = Head(s)
         /\ Tail(s \o t) = Tail(s) \o t
<1>1. s \o t \in Seq(S) /\ Len(s \o t) = Len(s) + Len(t)
  BY ConcatProperties
<1>2. Len(s) \in Nat \ {0} /\ Len(t) \in Nat
  BY EmptySeq, LenProperties
<1>3. s \o t # <<>>
  BY <1>1, <1>2, EmptySeq
<1>4. Head(s \o t) = Head(s)
  <2>1. (s \o t)[1] = s[1]
    BY <1>1, <1>2, ConcatProperties
  <2> QED
    BY <2>1
<1>5. Tail(s) \in Seq(S) /\ Len(Tail(s)) = Len(s) - 1
  BY HeadTailProperties
<1>6. Tail(s \o t) \in Seq(S) /\ Len(Tail(s \o t)) = Len(s \o t) - 1
  BY <1>1, <1>3, HeadTailProperties
<1>7. Tail(s) \o t \in Seq(S) /\ Len(Tail(s) \o t) = Len(Tail(s \o t))
  BY <1>1, <1>2, <1>5, <1>6, ConcatProperties
<1>8. ASSUME NEW i \in 1 .. Len(Tail(s \o t))
      PROVE  Tail(s \o t)[i] = (Tail(s) \o t)[i]
  <2>1. Tail(s \o t)[i] = (s \o t)[i + 1]
    BY <1>1, <1>3, <1>8, HeadTailProperties
  <2>2. (s \o t)[i + 1] = IF i + 1 <= Len(s) THEN s[i + 1]
                          ELSE t[i + 1 - Len(s)]
    BY <1>1, <1>2, <1>6, <1>8, ConcatProperties
  <2>3. (Tail(s) \o t)[i] = IF i <= Len(Tail(s)) THEN Tail(s)[i]
                            ELSE t[i - Len(Tail(s))]
    BY <1>1, <1>2, <1>5, <1>6, <1>8, ConcatProperties
  <2>4. i <= Len(Tail(s)) => Tail(s)[i] = s[i + 1]
    BY <1>2, <1>5, <1>8, HeadTailProperties
  <2> QED
    BY <1>2, <1>5, <1>6, <1>8, <2>1, <2>2, <2>3, <2>4
<1> QED
  BY <1>3, <1>4, <1>6, <1>7, <1>8, SeqEqual

-----------------------------------------------------------------------------
(* The inductive invariant.                                                *)

\* The constructor leaves the loop in a state of the invariant.
LEMMA InitEstablishes == Init => LoopInv
<1> SUFFICES ASSUME Init
             PROVE  LoopInv
  OBVIOUS
<1>1. TypeOK
  <2>1. <<>> \in Seq(Functors)
    BY EmptySeq
  <2>2. inCall \in [Callers -> {"none", "queueInLoop", "quit"}]
    BY DEF Init
  <2> QED
    BY <2>1, <2>2 DEF Init, TypeOK, Positions, Looping, UserCode
<1>2. Phases
  BY DEF Init, Phases
<1>3. Accounting
  BY ConcatEmptySeq, EmptySeq DEF Init, Accounting, Backlog
<1> QED
  BY <1>1, <1>2, <1>3 DEF LoopInv

\* queueInLoop, in whichever thread, lengthens the backlog by its functor and
\* the history of what was submitted with it.
LEMMA BacklogGrows ==
  ASSUME TypeOK, NEW f \in Functors
  PROVE  ran \o (functors \o Append(pendingFunctor_, f))
           = Append(ran \o (functors \o pendingFunctor_), f)
<1> USE DEF TypeOK
<1>1. functors \o pendingFunctor_ \in Seq(Functors)
  BY ConcatProperties
<1>2. functors \o Append(pendingFunctor_, f)
        = Append(functors \o pendingFunctor_, f)
  BY PushOnConcat
<1>3. ran \o Append(functors \o pendingFunctor_, f)
        = Append(ran \o (functors \o pendingFunctor_), f)
  BY <1>1, PushOnConcat
<1> QED
  BY <1>2, <1>3

\* Every step of the loop and of the other threads keeps the invariant.
LEMMA StepPreserves == LoopInv /\ [Next]_vars => LoopInv'
<1> SUFFICES ASSUME LoopInv, [Next]_vars
             PROVE  LoopInv'
  OBVIOUS
<1> USE EventLoopAssumption
        DEF LoopInv, TypeOK, Phases, Accounting, Backlog, Positions, Looping,
            UserCode, CanCall, isInLoopThread, callVars, loopVars
<1>1. ASSUME NEW t \in Callers, NEW f \in Functors, queueInLoop(t, f)
     PROVE  LoopInv'
  <2>1. /\ pendingFunctor_' = Append(pendingFunctor_, f)
        /\ posted' = Append(posted, f)
        /\ UNCHANGED <<functors, ran, dropped, at>>
        /\ dropped = <<>>
    BY <1>1 DEF queueInLoop, Pushed
  <2>2. TypeOK'
    <3>1. inCall' \in [Callers -> {"none", "queueInLoop", "quit"}]
      BY <1>1 DEF queueInLoop
    <3> QED
      BY <1>1, <2>1, <3>1, AppendProperties DEF queueInLoop
  <2>3. Phases'
    BY <1>1, <2>1 DEF queueInLoop
  <2>4. Accounting'
    <3>1. ran \o (functors \o pendingFunctor_) \in Seq(Functors)
      BY ConcatProperties
    <3>2. posted = ran \o (functors \o pendingFunctor_)
      BY <2>1, <3>1, ConcatEmptySeq
    <3>3. ran \o (functors \o Append(pendingFunctor_, f))
            = Append(ran \o (functors \o pendingFunctor_), f)
      BY <1>1, BacklogGrows
    <3>4. posted' = ran' \o (functors' \o pendingFunctor_')
      BY <2>1, <3>2, <3>3
    <3>5. posted' \in Seq(Functors) /\ posted' \o dropped' = posted'
      BY <2>1, AppendProperties, ConcatEmptySeq
    <3> QED
      BY <3>4, <3>5
  <2> QED
    BY <2>2, <2>3, <2>4
<1>2. ASSUME NEW f \in Functors, runInLoop(f)
     PROVE  LoopInv'
  BY <1>2 DEF runInLoop
<1>3. ASSUME NEW t \in Callers, quit(t)
     PROVE  LoopInv'
  BY <1>3 DEF quit
<1>4. ASSUME NEW t \in Callers, wakeup(t)
     PROVE  LoopInv'
  BY <1>4 DEF wakeup, readWakeupFd
<1>5. CASE TestQuit
  BY <1>5 DEF TestQuit, loopEnds
<1>6. ASSUME NEW ready \in SUBSET Channels, PollEvents(ready)
     PROVE  LoopInv'
  BY <1>6 DEF PollEvents, Signalled
<1>7. CASE PollTimeout
  BY <1>7 DEF PollTimeout, timesOut
<1>8. ASSUME NEW c \in Channels \cup {WakeupChannel}, HandleEvent(c)
     PROVE  LoopInv'
  BY <1>8 DEF HandleEvent, readWakeupFd
<1>9. CASE HandlerReturns
  BY <1>9 DEF HandlerReturns
<1>10. CASE SwapPending
  BY <1>10 DEF SwapPending, swappedOut
<1>11. CASE RunFunctor
  BY <1>11 DEF RunFunctor
<1>12. CASE FunctorReturns
  BY <1>12 DEF FunctorReturns
<1>13. CASE BatchDone
  BY <1>13 DEF BatchDone, allRun, endsCalling
<1>14. CASE StartLoop
  BY <1>14 DEF StartLoop
<1>15. CASE Destroy
  BY <1>15 DEF Destroy
<1>16. CASE UNCHANGED vars
  BY <1>16 DEF vars
<1> QED
  BY <1>1, <1>2, <1>3, <1>4, <1>5, <1>6, <1>7, <1>8, <1>9, <1>10, <1>11, <1>12,
     <1>13, <1>14, <1>15, <1>16 DEF Next, Call, LoopStep

-----------------------------------------------------------------------------
(* What follows for every behaviour.                                       *)

\* LoopInv holds in every reachable state, for any threads, functors and
\* channels (eventloop.cc:57-167).
THEOREM Invariance == Spec => []LoopInv
<1>1. Init => LoopInv
  BY InitEstablishes
<1>2. LoopInv /\ [Next]_vars => LoopInv'
  BY StepPreserves
<1> QED
  BY <1>1, <1>2, PTL DEF Spec

\* Every variable of the loop keeps its type, whatever the threads do.
THEOREM TypeCorrect == Spec => []TypeOK
<1>1. LoopInv => TypeOK
  BY DEF LoopInv
<1> QED
  BY <1>1, Invariance, PTL

\* No functor pushed by queueInLoop is lost, repeated or reordered by the
\* swap of doPendingFunctors.
THEOREM NothingLost == Spec => []Accounting
<1>1. LoopInv => Accounting
  BY DEF LoopInv
<1> QED
  BY <1>1, Invariance, PTL

\* loop() returns only between two iterations.
THEOREM ExitIsClean == Spec => []ExitsBetweenIterations
<1>1. LoopInv => ExitsBetweenIterations
  BY DEF LoopInv, Phases, ExitsBetweenIterations, Looping
<1> QED
  BY <1>1, Invariance, PTL

\* A running batch never takes in functors queued after its swap.
THEOREM BatchIsFixed == Spec => BatchNeverGrows
<1>1. LoopInv /\ [Next]_vars => BatchOnlyShrinks
  <2> SUFFICES ASSUME LoopInv, [Next]_vars, at \in {"run", "functor"},
                      functors' # functors
               PROVE  functors # <<>> /\ functors' = Tail(functors)
    BY DEF BatchOnlyShrinks
  <2>1. ~ SwapPending
    BY DEF SwapPending
  <2>2. CASE RunFunctor
    BY <2>2 DEF RunFunctor
  <2> QED
    BY <2>1, <2>2
       DEF Next, Call, LoopStep, queueInLoop, runInLoop, quit, wakeup,
           TestQuit, PollEvents, PollTimeout, HandleEvent, HandlerReturns,
           FunctorReturns, BatchDone, StartLoop, Destroy, vars, callVars,
           loopVars
<1> QED
  BY <1>1, Invariance, PTL DEF Spec, BatchNeverGrows

-----------------------------------------------------------------------------
(* Refinement.                                                             *)

\* The queue starts empty.
LEMMA QueueInit == Init => Queue!Init
<1> SUFFICES ASSUME Init
             PROVE  Queue!Init
  OBVIOUS
<1>1. functors \o pendingFunctor_ = <<>>
  BY ConcatEmptySeq, EmptySeq DEF Init
<1> QED
  BY <1>1 DEF Init, Queue!Init, Backlog

\* A step of the loop or of a caller is a step of the queue, or changes
\* nothing the queue shows: queueInLoop submits, a functor that is run is
\* taken, the destructor disposes.
LEMMA QueueStep == LoopInv /\ [Next]_vars => [Queue!Next]_(Queue!qvars)
<1> SUFFICES ASSUME LoopInv, [Next]_vars
             PROVE  Queue!Next
                    \/ UNCHANGED <<posted, Backlog, ran, at = "destroyed">>
  BY DEF Queue!qvars
<1> USE DEF LoopInv, TypeOK
<1>1. ASSUME NEW t \in Callers, NEW f \in Functors, queueInLoop(t, f)
      PROVE  Queue!Submit(f)
  <2>1. Backlog' = Append(Backlog, f)
    BY <1>1, PushOnConcat
       DEF queueInLoop, Pushed, loopVars, Backlog
  <2>2. ~(at = "destroyed") /\ (at = "destroyed")' = (at = "destroyed")
    BY <1>1 DEF queueInLoop, CanCall, loopVars
  <2> QED
    <3>1. /\ f \notin Queue!Range(posted)
          /\ posted' = Append(posted, f)
          /\ ran' = ran
      BY <1>1 DEF queueInLoop, Fresh, loopVars, Range, Queue!Range
    <3> QED
      BY <2>1, <2>2, <3>1, Zenon DEF Queue!Submit
<1>2. CASE RunFunctor
  <2>1. Backlog # <<>> /\ Head(Backlog) = Head(functors)
          /\ Tail(Backlog) = Tail(functors) \o pendingFunctor_
    BY <1>2, HeadTailOfConcat DEF RunFunctor, Backlog
  <2>2. Backlog' = Tail(Backlog)
    BY <1>2, <2>1 DEF RunFunctor, callVars, Backlog
  <2>3. ~(at = "destroyed") /\ (at = "destroyed")' = (at = "destroyed")
    BY <1>2 DEF RunFunctor
  <2> QED
    <3>1. ran' = Append(ran, Head(Backlog)) /\ posted' = posted
      BY <1>2, <2>1 DEF RunFunctor, callVars
    <3> QED
      BY <2>1, <2>2, <2>3, <3>1, Zenon DEF Queue!Take, Queue!Next
<1>3. CASE Destroy
  <2>1. Backlog' = <<>>
    BY <1>3, ConcatEmptySeq, EmptySeq
       DEF Destroy, Phases, Backlog
  <2>2. ~(at = "destroyed") /\ (at = "destroyed")' = TRUE
    BY <1>3 DEF Destroy
  <2> QED
    <3>1. posted' = posted /\ ran' = ran
      BY <1>3 DEF Destroy
    <3> QED
      BY <2>1, <2>2, <3>1, Zenon DEF Queue!Dispose, Queue!Next
<1>4. CASE SwapPending
  <2>1. Backlog' = pendingFunctor_ /\ Backlog = pendingFunctor_
    BY <1>4, ConcatEmptySeq
       DEF SwapPending, swappedOut, Phases, Backlog
  <2> QED
    BY <1>4, <2>1 DEF SwapPending
<1>5. CASE \/ \E f \in Functors : runInLoop(f)
           \/ \E t \in Callers : quit(t) \/ wakeup(t)
           \/ TestQuit
           \/ \E ready \in SUBSET Channels : PollEvents(ready)
           \/ PollTimeout
           \/ \E c \in Channels \cup {WakeupChannel} : HandleEvent(c)
           \/ HandlerReturns \/ FunctorReturns \/ BatchDone \/ StartLoop
           \/ UNCHANGED vars
  <2>1. UNCHANGED <<posted, functors, pendingFunctor_, ran>>
    BY <1>5
       DEF runInLoop, quit, wakeup, TestQuit, PollEvents, PollTimeout,
           HandleEvent, HandlerReturns, FunctorReturns, BatchDone, StartLoop,
           vars, callVars, loopVars
  <2>2. (at = "destroyed")' = (at = "destroyed")
    BY <1>5
       DEF runInLoop, quit, wakeup, TestQuit, PollEvents, PollTimeout,
           HandleEvent, HandlerReturns, FunctorReturns, BatchDone, StartLoop,
           vars, callVars, loopVars
  <2> QED
    BY <2>1, <2>2 DEF Backlog
<1> QED
  BY <1>1, <1>2, <1>3, <1>4, <1>5 DEF Next, Call, LoopStep, Queue!Next

\* EventLoop implements CallbackQueue.
THEOREM ImplementsQueue == Spec => QueueSpec
<1> QED
  BY QueueInit, QueueStep, Invariance, PTL DEF Spec, QueueSpec, Queue!Spec

-----------------------------------------------------------------------------
(* What the refinement says of the functors themselves.                    *)

\* A queue that holds the end of a sequence still does when both get one more.
LEMMA AppendToBoth ==
  ASSUME NEW S, NEW s \in Seq(S), NEW q \in Seq(S), NEW n \in Nat, NEW e \in S,
         Len(q) = Len(s) - n, \A i \in 1 .. Len(q) : q[i] = s[n + i]
  PROVE  /\ Len(Append(q, e)) = Len(Append(s, e)) - n
         /\ \A i \in 1 .. Len(Append(q, e)) :
              Append(q, e)[i] = Append(s, e)[n + i]
<1>1. /\ Len(q) \in Nat /\ Len(s) \in Nat
      /\ Len(Append(q, e)) = Len(q) + 1 /\ Len(Append(s, e)) = Len(s) + 1
  OBVIOUS
<1>2. ASSUME NEW i \in 1 .. Len(q) + 1
      PROVE  Append(q, e)[i] = Append(s, e)[n + i]
  <2>1. CASE i <= Len(q)
    BY <1>2, <2>1
  <2>2. CASE i = Len(q) + 1
    BY <1>2, <2>2
  <2> QED
    BY <1>1, <1>2, <2>1, <2>2
<1>3. Len(Append(s, e)) - n = Len(q) + 1
  BY <1>1
<1> QED
  BY <1>1, <1>2, <1>3, Zenon

\* The queue's own invariant, step by step.
LEMMA AbstractInit == Queue!Init => Queue!QueueInv
<1> SUFFICES ASSUME Queue!Init
             PROVE  Queue!QueueInv
  OBVIOUS
<1>1. /\ <<>> \in Seq(Functors) /\ Len(<<>>) = 0
      /\ posted = <<>> /\ Backlog = <<>> /\ ran = <<>>
  BY EmptySeq DEF Queue!Init
<1> QED
  BY <1>1 DEF Queue!QueueInv, Queue!InOrder

LEMMA AbstractStep ==
  Queue!QueueInv /\ [Queue!Next]_(Queue!qvars) => Queue!QueueInv'
<1> SUFFICES ASSUME Queue!QueueInv, [Queue!Next]_(Queue!qvars)
             PROVE  Queue!QueueInv'
  OBVIOUS
<1> USE DEF Queue!QueueInv, Queue!InOrder
<1>1. ASSUME NEW f \in Functors, Queue!Submit(f)
      PROVE  Queue!QueueInv'
  <2>1. /\ posted \in Seq(Functors) /\ Backlog \in Seq(Functors)
        /\ posted' = Append(posted, f) /\ Backlog' = Append(Backlog, f)
        /\ ran' = ran
        /\ ~(at = "destroyed") /\ ~(at = "destroyed")'
    BY <1>1 DEF Queue!Submit
  <2>2. \A i \in 1 .. Len(posted) : posted[i] # f
    <3>1. f \notin Queue!Range(posted)
      BY <1>1 DEF Queue!Submit
    <3>2. DOMAIN posted = 1 .. Len(posted)
      BY <2>1
    <3> QED
      BY <3>1, <3>2, Zenon DEF Queue!Range
  <2>3. /\ {posted', Backlog', ran'} \subseteq Seq(Functors)
        /\ Len(posted') = Len(posted) + 1 /\ Len(Backlog') = Len(Backlog) + 1
        /\ \A i \in 1 .. Len(posted') :
             posted'[i] = IF i <= Len(posted) THEN posted[i] ELSE f
        /\ \A i \in 1 .. Len(Backlog') :
             Backlog'[i] = IF i <= Len(Backlog) THEN Backlog[i] ELSE f
    BY <2>1
  <2>4. \A i, j \in 1 .. Len(posted') : posted'[i] = posted'[j] => i = j
    BY <2>1, <2>2, <2>3
  <2>5. Queue!InOrder'
    BY <2>1, <2>3
  <2>6. /\ Len(Backlog') = Len(posted') - Len(ran')
        /\ \A i \in 1 .. Len(Backlog') :
             Backlog'[i] = posted'[Len(ran') + i]
    <3>1. /\ Len(ran) \in Nat /\ Len(Backlog) = Len(posted) - Len(ran)
          /\ \A i \in 1 .. Len(Backlog) : Backlog[i] = posted[Len(ran) + i]
      BY <2>1
    <3>2. /\ Len(Append(Backlog, f)) = Len(Append(posted, f)) - Len(ran)
          /\ \A i \in 1 .. Len(Append(Backlog, f)) :
               Append(Backlog, f)[i] = Append(posted, f)[Len(ran) + i]
      <4> HIDE DEF Queue!QueueInv, Queue!InOrder
      <4> DEFINE s == posted  q == Backlog  n == Len(ran)
      <4>1. /\ s \in Seq(Functors) /\ q \in Seq(Functors) /\ n \in Nat
            /\ Len(q) = Len(s) - n
            /\ \A i \in 1 .. Len(q) : q[i] = s[n + i]
        BY <2>1, <3>1
      <4> HIDE DEF s, q, n
      <4>2. /\ Len(Append(q, f)) = Len(Append(s, f)) - n
            /\ \A i \in 1 .. Len(Append(q, f)) :
                 Append(q, f)[i] = Append(s, f)[n + i]
        BY <4>1, AppendToBoth
      <4> QED
        BY <4>2, Zenon DEF s, q, n
    <3> QED
      BY <2>1, <3>2, Zenon
  <2> QED
    BY <2>3, <2>4, <2>5, <2>6
<1>2. CASE Queue!Take
  BY <1>2 DEF Queue!Take
<1>3. CASE Queue!Dispose
  BY <1>3 DEF Queue!Dispose
<1>4. CASE UNCHANGED Queue!qvars
  BY <1>4 DEF Queue!qvars
<1> QED
  BY <1>1, <1>2, <1>3, <1>4 DEF Queue!Next

\* Functors run in the order of their submission, none is passed over and none
\* runs twice.
THEOREM RunsInOrder == Spec => []RunInOrder
<1>1. Queue!QueueInv => RunInOrder
  BY DEF RunInOrder, Queue!QueueInv, Queue!InOrder, Queue!NoneTwice
<1>2. Queue!Spec => []Queue!QueueInv
  BY AbstractInit, AbstractStep, PTL DEF Queue!Spec
<1> QED
  BY <1>1, <1>2, ImplementsQueue, PTL DEF QueueSpec

\* No thread's wakeup() ever gets the loop out of its wait.
THEOREM WakeupIsInert == Spec => []NeverWoken
<1>1. Init => NeverWoken
  BY DEF Init, NeverWoken
<1>2. NeverWoken /\ [Next]_vars => NeverWoken'
  BY EventLoopAssumption
     DEF NeverWoken, Next, Call, LoopStep, queueInLoop, runInLoop, quit,
         wakeup, readWakeupFd, TestQuit, PollEvents, Signalled, PollTimeout,
         HandleEvent, HandlerReturns, SwapPending, RunFunctor, FunctorReturns,
         BatchDone, StartLoop, Destroy, vars, callVars, loopVars
<1> QED
  BY <1>1, <1>2, PTL DEF Spec
==============================================================================
