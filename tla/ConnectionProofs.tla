--------------------------- MODULE ConnectionProofs ---------------------------
(***************************************************************************)
(* Proofs about Connection, for any number of other threads.               *)
(***************************************************************************)
EXTENDS Connection, SequenceTheorems, TLAPS

-----------------------------------------------------------------------------
(* The queues of functors.                                                 *)

\* What queueInLoop does to the sequence.
LEMMA Grows ==
  ASSUME ConnectionInv, NEW kind \in Holding \cup Raw, queueInLoop(kind)
  PROVE  /\ pendingFunctor_' \in Seq(Functor)
         /\ Len(pendingFunctor_') = Len(pendingFunctor_) + 1
         /\ \A i \in 1 .. Len(pendingFunctor_) :
              pendingFunctor_'[i] = pendingFunctor_[i]
         /\ pendingFunctor_'[Len(pendingFunctor_) + 1] = functor(kind)
<1>1. pendingFunctor_ \in Seq(Functor) /\ functor(kind) \in Functor
  BY DEF ConnectionInv, TypeOK, functor, Functor
<1>2. pendingFunctor_' = Append(pendingFunctor_, functor(kind))
  BY DEF queueInLoop
<1> QED
  BY <1>1, <1>2, AppendProperties

\* The functors in the queues, and the next one.
LEMMA QueueTypes ==
  ASSUME ConnectionInv
  PROVE  /\ Len(pendingFunctor_) \in Nat /\ Len(batch) \in Nat
         /\ done \in 0 .. Len(batch)
         /\ \A i \in 1 .. Len(pendingFunctor_) : pendingFunctor_[i] \in Functor
         /\ \A i \in 1 .. Len(batch) : batch[i] \in Functor
         /\ Len(<<>>) = 0
         /\ {"callback", "connectDestroyed", "sendInLoop", "shutdownInLoop"} =
              Holding \cup Raw
BY DEF ConnectionInv, TypeOK, Holding, Raw

\* Queueing one more functor behind the others.
LEMMA GrowFacts ==
  ASSUME ConnectionInv, NEW kind \in Holding \cup Raw, queueInLoop(kind)
  PROVE  /\ DestroyQueued' <=> DestroyQueued \/ kind = "connectDestroyed"
         /\ ~closing /\ kind # "connectDestroyed" =>
              \A i \in 1 .. Len(pendingFunctor_') :
                ~OfClose(pendingFunctor_'[i])
         /\ closing /\ looping =>
              \A i \in 1 .. Len(pendingFunctor_') :
                Early(pendingFunctor_'[i]) =>
                \E j \in i + 1 .. Len(pendingFunctor_') :
                  IsDestroy(pendingFunctor_'[j])
<1> DEFINE n == Len(pendingFunctor_)
<1> USE QueueTypes, Grows
<1>1. /\ n \in Nat /\ Len(pendingFunctor_') = n + 1
      /\ pendingFunctor_'[n + 1] = functor(kind)
      /\ \A i \in 1 .. n : pendingFunctor_'[i] = pendingFunctor_[i]
  OBVIOUS
<1>2. \A i \in 1 .. Len(pendingFunctor_') : i \in 1 .. n \/ i = n + 1
  BY <1>1
<1>3. /\ n + 1 \in 1 .. Len(pendingFunctor_')
      /\ 1 .. n \subseteq 1 .. Len(pendingFunctor_')
  BY <1>1
<1> HIDE DEF n
<1>4. DestroyQueued <=> \E i \in 1 .. n : IsDestroy(pendingFunctor_[i])
  BY DEF DestroyQueued, n
<1>5. DestroyQueued' <=> DestroyQueued \/ kind = "connectDestroyed"
  BY <1>1, <1>2, <1>3, <1>4 DEF DestroyQueued, IsDestroy, functor
<1>6. ASSUME ~closing, kind # "connectDestroyed",
             NEW i \in 1 .. Len(pendingFunctor_')
      PROVE  ~OfClose(pendingFunctor_'[i])
  <2>1. CASE i \in 1 .. n
    BY <1>1, <1>6, <2>1 DEF ConnectionInv, QueuedAfterClose, n
  <2>2. CASE i = n + 1
    BY <1>1, <1>6, <2>2 DEF OfClose, IsDestroy, functor
  <2> QED
    BY <1>2, <2>1, <2>2
<1>7. ASSUME closing, looping, NEW i \in 1 .. Len(pendingFunctor_'),
             Early(pendingFunctor_'[i])
      PROVE  \E j \in i + 1 .. Len(pendingFunctor_') :
               IsDestroy(pendingFunctor_'[j])
  <2>1. i \in 1 .. n
    BY <1>1, <1>2, <1>7 DEF Early, functor
  <2>2. PICK j \in i + 1 .. n : IsDestroy(pendingFunctor_[j])
    BY <1>1, <1>7, <2>1 DEF ConnectionInv, EarlyBeforeDestroy, n
  <2>3. j \in i + 1 .. Len(pendingFunctor_') /\ j \in 1 .. n
    BY <1>1, <2>1, <2>2
  <2> QED
    BY <1>1, <2>2, <2>3
<1> QED
  BY <1>5, <1>6, <1>7

LEMMA QueuedFacts ==
  ASSUME ConnectionInv
  PROVE  /\ DestroyQueued \/ DestroyAhead(done) => closing
         /\ batch = <<>> => ~DestroyAhead(done)
BY QueueTypes
   DEF ConnectionInv, QueuedAfterClose, OfClose, DestroyQueued, DestroyAhead

\* Running a functor other than connectDestroyed.
LEMMA RunFacts ==
  ASSUME ConnectionInv, NEW kind \in Raw \cup {"callback"}, RunNext(kind)
  PROVE  /\ at = "functors" /\ (~DestroyQueued \/ lateSend)
         /\ DestroyAhead(done) <=> DestroyAhead(done')
         /\ batch[done + 1] \in Functor /\ batch[done + 1].kind = kind
         /\ done + 1 \in done + 1 .. Len(batch)
         /\ done' = done + 1 /\ batch' = batch
<1> USE QueueTypes
<1>1. /\ at = "functors" /\ done < Len(batch) /\ done' = done + 1
      /\ batch[done + 1].kind = kind
  BY DEF RunNext, NextFunctor
<1>2. ~IsDestroy(batch[done + 1])
  BY <1>1 DEF IsDestroy, Raw
<1>3. \A j \in done + 1 .. Len(batch) :
        j = done + 1 \/ j \in done' + 1 .. Len(batch)
  BY <1>1
<1>4. done' + 1 .. Len(batch) \subseteq done + 1 .. Len(batch)
  BY <1>1
<1>5. DestroyAhead(done) <=> DestroyAhead(done')
  BY <1>2, <1>3, <1>4 DEF DestroyAhead
<1>6. ~DestroyQueued \/ lateSend
  BY <1>1 DEF ConnectionInv, ClosedForGood
<1>7. done + 1 \in 1 .. Len(batch) /\ done + 1 \in done + 1 .. Len(batch)
  BY <1>1
<1>8. batch' = batch
  BY DEF RunNext
<1> QED
  BY <1>1, <1>5, <1>6, <1>7, <1>8

\* connectDestroyed is queued after the connection went down.
LEMMA DestroyedIsDown ==
  ASSUME ConnectionInv, RunNext("connectDestroyed")
  PROVE  closing /\ ~stillConnected
<1>1. done + 1 \in 1 .. Len(batch) /\ IsDestroy(batch[done + 1])
  BY QueueTypes DEF RunNext, NextFunctor, IsDestroy
<1>2. closing
  BY <1>1 DEF ConnectionInv, QueuedAfterClose, OfClose
<1> QED
  BY <1>2 DEF ConnectionInv, Stages, stillConnected

-----------------------------------------------------------------------------
(* The invariant, action by action.                                        *)


\* The types.
LEMMA TypeOKKept == ConnectionInv /\ [Next]_vars => TypeOK'
<1> SUFFICES ASSUME ConnectionInv, [Next]_vars
             PROVE  TypeOK'
  OBVIOUS
<1> USE QueueTypes DEF channelVars, queueVars, eventVars, histVars, loopSide,
        MayCall, setEvents, disableAll, removeChannel, sendInLoop,
        shutdownInLoop, UserStep, handleClose, erase, RunNext, stillConnected,
        goesDown, dropBatch, Returns, UserCode
<1>1. CASE connectEstablished
  BY <1>1 DEF connectEstablished, ConnectionInv, TypeOK
<1>2. CASE Returns("up", "events")
  BY <1>2 DEF ConnectionInv, TypeOK
<1>3. CASE Returns("message", "dispatch")
  BY <1>3 DEF ConnectionInv, TypeOK
<1>4. CASE Returns("completed", "functors")
  BY <1>4 DEF ConnectionInv, TypeOK
<1>5. CASE revents = {} /\ Returns("dispatch", "events")
  BY <1>5 DEF ConnectionInv, TypeOK
<1>6. ASSUME NEW ready \in SUBSET {"hup", "in", "out"},
             poll(ready)
      PROVE  TypeOK'
  BY <1>6 DEF poll, ConnectionInv, TypeOK
<1>7. CASE handleEvent
  BY <1>7 DEF handleEvent, ConnectionInv, TypeOK
<1>8. CASE handleHup
  <2>1. {reading', writing', added', mapped', output', inMap', active',
         looping', closing', lateSend'} \subseteq BOOLEAN
    BY <1>8 DEF handleHup, ConnectionInv, TypeOK
  <2>2. downs' \in Nat /\ revents' \subseteq {"hup", "in", "out"}
    BY <1>8 DEF handleHup, ConnectionInv, TypeOK
  <2> QED
    BY <1>8, <2>1, <2>2 DEF handleHup, ConnectionInv, TypeOK
<1>9. CASE handleRead
  BY <1>9 DEF handleRead, ConnectionInv, TypeOK
<1>10. CASE handleReadEof
  <2>1. {reading', writing', added', mapped', output', inMap', active',
         looping', closing', lateSend'} \subseteq BOOLEAN
    BY <1>10 DEF handleReadEof, ConnectionInv, TypeOK
  <2>2. downs' \in Nat /\ revents' \subseteq {"hup", "in", "out"}
    BY <1>10 DEF handleReadEof, ConnectionInv, TypeOK
  <2> QED
    BY <1>10, <2>1, <2>2 DEF handleReadEof, ConnectionInv, TypeOK
<1>11. CASE handleWrite
  BY <1>11, Grows DEF handleWrite, ConnectionInv, TypeOK
<1>12. CASE removeConnection
  BY <1>12, Grows DEF removeConnection, ConnectionInv, TypeOK, queueDestroyed
<1>13. CASE SwapPending
  BY <1>13 DEF SwapPending, ConnectionInv, TypeOK
<1>14. ASSUME NEW kind \in Raw, runOnDestroyed(kind)
       PROVE  TypeOK'
  BY <1>14 DEF runOnDestroyed, ConnectionInv, TypeOK
<1>15. CASE runSendInLoop
  <2>1. lateSend' \in BOOLEAN
    BY <1>15 DEF runSendInLoop, ConnectionInv, TypeOK, NextFunctor, Functor
  <2>2. pendingFunctor_' \in Seq(Functor)
    BY <1>15, Grows DEF runSendInLoop, ConnectionInv, TypeOK
  <2>3. done' \in 0 .. Len(batch')
    BY <1>15 DEF runSendInLoop
  <2>4. {reading', writing', added', mapped', output'} \subseteq BOOLEAN
    BY <1>15 DEF runSendInLoop, ConnectionInv, TypeOK
  <2> QED
    BY <1>15, <2>1, <2>2, <2>3, <2>4 DEF runSendInLoop, ConnectionInv, TypeOK
<1>16. CASE runShutdownInLoop
  BY <1>16 DEF runShutdownInLoop, ConnectionInv, TypeOK
<1>17. CASE runCallback
  BY <1>17 DEF runCallback, ConnectionInv, TypeOK
<1>18. CASE runConnectDestroyed
  <2>1. /\ removeChannel /\ done < Len(batch) /\ done' = done + 1
        /\ UNCHANGED <<state_, downs, at, output, pendingFunctor_, closing,
                       lateSend, inMap, holders, batch, eventVars, looping,
                       inCall>>
    BY <1>18, DestroyedIsDown DEF runConnectDestroyed
  <2>2. done' \in 0 .. Len(batch)
    BY <2>1
  <2> QED
    BY <2>1, <2>2 DEF ConnectionInv, TypeOK
<1>19. CASE BatchDone
  BY <1>19 DEF BatchDone, ConnectionInv, TypeOK
<1>20. CASE destroyServer
  <2>1. {reading', writing', added', mapped'} \subseteq BOOLEAN
    BY <1>20 DEF destroyServer, ConnectionInv, TypeOK
  <2>2. downs' \in Nat
    BY <1>20 DEF destroyServer, ConnectionInv, TypeOK
  <2> QED
    BY <1>20, <2>1, <2>2 DEF destroyServer, ConnectionInv, TypeOK
<1>21. CASE connectDestroyed
  BY <1>21 DEF connectDestroyed, ConnectionInv, TypeOK
<1>22. CASE userSends
  BY <1>22, Grows DEF userSends, ConnectionInv, TypeOK
<1>23. CASE userShutsDown
  BY <1>23 DEF userShutsDown, ConnectionInv, TypeOK
<1>24. ASSUME NEW h \in Threads \cup {Loop}, userKeeps(h)
       PROVE  TypeOK'
  BY <1>24 DEF userKeeps, ConnectionInv, TypeOK
<1>25. CASE userDrops
  BY <1>25 DEF userDrops, ConnectionInv, TypeOK
<1>26. ASSUME NEW t \in Threads, threadQueuesSend(t)
       PROVE  TypeOK'
  BY <1>26, Grows DEF threadQueuesSend, ConnectionInv, TypeOK
<1>27. ASSUME NEW t \in Threads, threadSetsState(t)
       PROVE  TypeOK'
  BY <1>27 DEF threadSetsState, ConnectionInv, TypeOK
<1>28. ASSUME NEW t \in Threads, threadQueuesShutdown(t)
       PROVE  TypeOK'
  BY <1>28, Grows DEF threadQueuesShutdown, ConnectionInv, TypeOK
<1>29. ASSUME NEW t \in Threads, threadSend(t)
       PROVE  TypeOK'
  BY <1>29 DEF threadSend, ConnectionInv, TypeOK
<1>30. ASSUME NEW t \in Threads, threadShutdown(t)
       PROVE  TypeOK'
  BY <1>30 DEF threadShutdown, ConnectionInv, TypeOK
<1>31. ASSUME NEW t \in Threads, threadDrops(t)
       PROVE  TypeOK'
  BY <1>31 DEF threadDrops, ConnectionInv, TypeOK
<1>32. CASE UNCHANGED vars
  BY <1>32 DEF vars, ConnectionInv, TypeOK
<1> QED
  BY <1>1, <1>2, <1>3, <1>4, <1>5, <1>6, <1>7, <1>8, <1>9, <1>10, <1>11, <1>12,
     <1>13, <1>14, <1>15, <1>16, <1>17, <1>18, <1>19, <1>20, <1>21, <1>22,
     <1>23, <1>24, <1>25, <1>26, <1>27, <1>28, <1>29, <1>30, <1>31, <1>32
     DEF Next, LoopStep, handlerReturns, UserCall, ThreadStep, CallContinues

\* The positions of the loop thread.
LEMMA StagesKept == ConnectionInv /\ [Next]_vars => Stages'
<1> SUFFICES ASSUME ConnectionInv, [Next]_vars
             PROVE  Stages'
  OBVIOUS
<1> USE QueueTypes DEF channelVars, queueVars, eventVars, histVars, loopSide,
        MayCall, setEvents, disableAll, removeChannel, sendInLoop,
        shutdownInLoop, UserStep, handleClose, erase, RunNext, stillConnected,
        goesDown, dropBatch, Returns, UserCode
<1>1. CASE connectEstablished
  BY <1>1 DEF connectEstablished, ConnectionInv, Stages, TypeOK
<1>2. CASE Returns("up", "events")
  BY <1>2 DEF ConnectionInv, Stages, TypeOK
<1>3. CASE Returns("message", "dispatch")
  BY <1>3 DEF ConnectionInv, Stages, TypeOK
<1>4. CASE Returns("completed", "functors")
  BY <1>4 DEF ConnectionInv, Stages, TypeOK
<1>5. CASE revents = {} /\ Returns("dispatch", "events")
  BY <1>5 DEF ConnectionInv, Stages, TypeOK
<1>6. ASSUME NEW ready \in SUBSET {"hup", "in", "out"},
             poll(ready)
      PROVE  Stages'
  BY <1>6 DEF poll, ConnectionInv, Stages, TypeOK
<1>7. CASE handleEvent
  BY <1>7 DEF handleEvent, ConnectionInv, Stages, TypeOK
<1>8. CASE handleHup
  BY <1>8 DEF handleHup, ConnectionInv, Stages, TypeOK
<1>9. CASE handleRead
  BY <1>9 DEF handleRead, ConnectionInv, Stages, TypeOK
<1>10. CASE handleReadEof
  BY <1>10 DEF handleReadEof, ConnectionInv, Stages, TypeOK
<1>11. CASE handleWrite
  BY <1>11, Grows DEF handleWrite, ConnectionInv, Stages, TypeOK
<1>12. CASE removeConnection
  BY <1>12, Grows
     DEF removeConnection, ConnectionInv, Stages, TypeOK, queueDestroyed
<1>13. CASE SwapPending
  BY <1>13 DEF SwapPending, ConnectionInv, Stages, TypeOK
<1>14. ASSUME NEW kind \in Raw, runOnDestroyed(kind)
       PROVE  Stages'
  BY <1>14 DEF runOnDestroyed, ConnectionInv, Stages, TypeOK
<1>15. CASE runSendInLoop
  BY <1>15, Grows DEF runSendInLoop, ConnectionInv, Stages, TypeOK
<1>16. CASE runShutdownInLoop
  BY <1>16 DEF runShutdownInLoop, ConnectionInv, Stages, TypeOK
<1>17. CASE runCallback
  BY <1>17 DEF runCallback, ConnectionInv, Stages, TypeOK
<1>18. CASE runConnectDestroyed
  BY <1>18, DestroyedIsDown
     DEF runConnectDestroyed, ConnectionInv, Stages, TypeOK
<1>19. CASE BatchDone
  BY <1>19 DEF BatchDone, ConnectionInv, Stages, TypeOK
<1>20. CASE destroyServer
  BY <1>20 DEF destroyServer, ConnectionInv, Stages, TypeOK
<1>21. CASE connectDestroyed
  BY <1>21 DEF connectDestroyed, ConnectionInv, Stages, TypeOK
<1>22. CASE userSends
  BY <1>22, Grows DEF userSends, ConnectionInv, Stages, TypeOK
<1>23. CASE userShutsDown
  BY <1>23 DEF userShutsDown, ConnectionInv, Stages, TypeOK
<1>24. ASSUME NEW h \in Threads \cup {Loop}, userKeeps(h)
       PROVE  Stages'
  BY <1>24 DEF userKeeps, ConnectionInv, Stages, TypeOK
<1>25. CASE userDrops
  BY <1>25 DEF userDrops, ConnectionInv, Stages, TypeOK
<1>26. ASSUME NEW t \in Threads, threadQueuesSend(t)
       PROVE  Stages'
  BY <1>26, Grows DEF threadQueuesSend, ConnectionInv, Stages, TypeOK
<1>27. ASSUME NEW t \in Threads, threadSetsState(t)
       PROVE  Stages'
  BY <1>27 DEF threadSetsState, ConnectionInv, Stages, TypeOK
<1>28. ASSUME NEW t \in Threads, threadQueuesShutdown(t)
       PROVE  Stages'
  BY <1>28, Grows DEF threadQueuesShutdown, ConnectionInv, Stages, TypeOK
<1>29. ASSUME NEW t \in Threads, threadSend(t)
       PROVE  Stages'
  BY <1>29 DEF threadSend, ConnectionInv, Stages, TypeOK
<1>30. ASSUME NEW t \in Threads, threadShutdown(t)
       PROVE  Stages'
  BY <1>30 DEF threadShutdown, ConnectionInv, Stages, TypeOK
<1>31. ASSUME NEW t \in Threads, threadDrops(t)
       PROVE  Stages'
  BY <1>31 DEF threadDrops, ConnectionInv, Stages, TypeOK
<1>32. CASE UNCHANGED vars
  BY <1>32 DEF vars, ConnectionInv, Stages, TypeOK
<1> QED
  BY <1>1, <1>2, <1>3, <1>4, <1>5, <1>6, <1>7, <1>8, <1>9, <1>10, <1>11, <1>12,
     <1>13, <1>14, <1>15, <1>16, <1>17, <1>18, <1>19, <1>20, <1>21, <1>22,
     <1>23, <1>24, <1>25, <1>26, <1>27, <1>28, <1>29, <1>30, <1>31, <1>32
     DEF Next, LoopStep, handlerReturns, UserCall, ThreadStep, CallContinues

\* What the functors in the queue say of the close.
LEMMA QueuedAfterCloseKept == ConnectionInv /\ [Next]_vars => QueuedAfterClose'
<1> SUFFICES ASSUME ConnectionInv, [Next]_vars
             PROVE  QueuedAfterClose'
  OBVIOUS
<1> USE QueueTypes DEF channelVars, queueVars, eventVars, histVars, loopSide,
        MayCall, setEvents, disableAll, removeChannel, sendInLoop,
        shutdownInLoop, UserStep, handleClose, erase, RunNext, stillConnected,
        goesDown, dropBatch, Returns, UserCode
<1>1. CASE connectEstablished
  BY <1>1
     DEF connectEstablished, ConnectionInv, QueuedAfterClose, IsDestroy,
         OfClose, Stages
<1>2. CASE Returns("up", "events")
  BY <1>2 DEF ConnectionInv, QueuedAfterClose, IsDestroy, OfClose, Stages
<1>3. CASE Returns("message", "dispatch")
  BY <1>3 DEF ConnectionInv, QueuedAfterClose, IsDestroy, OfClose, Stages
<1>4. CASE Returns("completed", "functors")
  BY <1>4 DEF ConnectionInv, QueuedAfterClose, IsDestroy, OfClose, Stages
<1>5. CASE revents = {} /\ Returns("dispatch", "events")
  BY <1>5 DEF ConnectionInv, QueuedAfterClose, IsDestroy, OfClose, Stages
<1>6. ASSUME NEW ready \in SUBSET {"hup", "in", "out"},
             poll(ready)
      PROVE  QueuedAfterClose'
  BY <1>6 DEF poll, ConnectionInv, QueuedAfterClose, IsDestroy, OfClose, Stages
<1>7. CASE handleEvent
  BY <1>7
     DEF handleEvent, ConnectionInv, QueuedAfterClose, IsDestroy, OfClose,
         Stages
<1>8. CASE handleHup
  BY <1>8
     DEF handleHup, ConnectionInv, QueuedAfterClose, IsDestroy, OfClose, Stages
<1>9. CASE handleRead
  BY <1>9
     DEF handleRead, ConnectionInv, QueuedAfterClose, IsDestroy, OfClose,
         Stages
<1>10. CASE handleReadEof
  BY <1>10
     DEF handleReadEof, ConnectionInv, QueuedAfterClose, IsDestroy, OfClose,
         Stages
<1>11. CASE handleWrite
  BY <1>11, GrowFacts
     DEF handleWrite, ConnectionInv, QueuedAfterClose, IsDestroy, OfClose,
         Stages
<1>12. CASE removeConnection
  BY <1>12, GrowFacts
     DEF removeConnection, ConnectionInv, QueuedAfterClose, IsDestroy, OfClose,
         Stages, queueDestroyed
<1>13. CASE SwapPending
  BY <1>13
     DEF SwapPending, ConnectionInv, QueuedAfterClose, IsDestroy, OfClose,
         Stages
<1>14. ASSUME NEW kind \in Raw, runOnDestroyed(kind)
       PROVE  QueuedAfterClose'
  BY <1>14
     DEF runOnDestroyed, ConnectionInv, QueuedAfterClose, IsDestroy, OfClose,
         Stages
<1>15. CASE runSendInLoop
  BY <1>15, GrowFacts
     DEF runSendInLoop, ConnectionInv, QueuedAfterClose, IsDestroy, OfClose,
         Stages
<1>16. CASE runShutdownInLoop
  BY <1>16
     DEF runShutdownInLoop, ConnectionInv, QueuedAfterClose, IsDestroy,
         OfClose, Stages
<1>17. CASE runCallback
  BY <1>17
     DEF runCallback, ConnectionInv, QueuedAfterClose, IsDestroy, OfClose,
         Stages
<1>18. CASE runConnectDestroyed
  BY <1>18, DestroyedIsDown
     DEF runConnectDestroyed, ConnectionInv, QueuedAfterClose, IsDestroy,
         OfClose, Stages
<1>19. CASE BatchDone
  BY <1>19
     DEF BatchDone, ConnectionInv, QueuedAfterClose, IsDestroy, OfClose, Stages
<1>20. CASE destroyServer
  BY <1>20
     DEF destroyServer, ConnectionInv, QueuedAfterClose, IsDestroy, OfClose,
         Stages
<1>21. CASE connectDestroyed
  BY <1>21
     DEF connectDestroyed, ConnectionInv, QueuedAfterClose, IsDestroy, OfClose,
         Stages
<1>22. CASE userSends
  BY <1>22, GrowFacts
     DEF userSends, ConnectionInv, QueuedAfterClose, IsDestroy, OfClose, Stages
<1>23. CASE userShutsDown
  BY <1>23
     DEF userShutsDown, ConnectionInv, QueuedAfterClose, IsDestroy, OfClose,
         Stages
<1>24. ASSUME NEW h \in Threads \cup {Loop}, userKeeps(h)
       PROVE  QueuedAfterClose'
  BY <1>24
     DEF userKeeps, ConnectionInv, QueuedAfterClose, IsDestroy, OfClose, Stages
<1>25. CASE userDrops
  BY <1>25
     DEF userDrops, ConnectionInv, QueuedAfterClose, IsDestroy, OfClose, Stages
<1>26. ASSUME NEW t \in Threads, threadQueuesSend(t)
       PROVE  QueuedAfterClose'
  BY <1>26, GrowFacts
     DEF threadQueuesSend, ConnectionInv, QueuedAfterClose, IsDestroy, OfClose,
         Stages
<1>27. ASSUME NEW t \in Threads, threadSetsState(t)
       PROVE  QueuedAfterClose'
  BY <1>27
     DEF threadSetsState, ConnectionInv, QueuedAfterClose, IsDestroy, OfClose,
         Stages
<1>28. ASSUME NEW t \in Threads, threadQueuesShutdown(t)
       PROVE  QueuedAfterClose'
  BY <1>28, GrowFacts
     DEF threadQueuesShutdown, ConnectionInv, QueuedAfterClose, IsDestroy,
         OfClose, Stages
<1>29. ASSUME NEW t \in Threads, threadSend(t)
       PROVE  QueuedAfterClose'
  BY <1>29
     DEF threadSend, ConnectionInv, QueuedAfterClose, IsDestroy, OfClose,
         Stages
<1>30. ASSUME NEW t \in Threads, threadShutdown(t)
       PROVE  QueuedAfterClose'
  BY <1>30
     DEF threadShutdown, ConnectionInv, QueuedAfterClose, IsDestroy, OfClose,
         Stages
<1>31. ASSUME NEW t \in Threads, threadDrops(t)
       PROVE  QueuedAfterClose'
  BY <1>31
     DEF threadDrops, ConnectionInv, QueuedAfterClose, IsDestroy, OfClose,
         Stages
<1>32. CASE UNCHANGED vars
  BY <1>32
     DEF vars, ConnectionInv, QueuedAfterClose, IsDestroy, OfClose, Stages
<1> QED
  BY <1>1, <1>2, <1>3, <1>4, <1>5, <1>6, <1>7, <1>8, <1>9, <1>10, <1>11, <1>12,
     <1>13, <1>14, <1>15, <1>16, <1>17, <1>18, <1>19, <1>20, <1>21, <1>22,
     <1>23, <1>24, <1>25, <1>26, <1>27, <1>28, <1>29, <1>30, <1>31, <1>32
     DEF Next, LoopStep, handlerReturns, UserCall, ThreadStep, CallContinues

\* What stands in front of connectDestroyed.
LEMMA EarlyBeforeDestroyKept ==
  ConnectionInv /\ [Next]_vars => EarlyBeforeDestroy'
<1> SUFFICES ASSUME ConnectionInv, [Next]_vars
             PROVE  EarlyBeforeDestroy'
  OBVIOUS
<1> USE QueueTypes DEF channelVars, queueVars, eventVars, histVars, loopSide,
        MayCall, setEvents, disableAll, removeChannel, sendInLoop,
        shutdownInLoop, UserStep, handleClose, erase, RunNext, stillConnected,
        goesDown, dropBatch, Returns, UserCode
<1>1. CASE connectEstablished
  BY <1>1
     DEF connectEstablished, ConnectionInv, EarlyBeforeDestroy, Early,
         IsDestroy, DestroyQueued, DestroyAhead, Stages, QueuedAfterClose,
         OfClose
<1>2. CASE Returns("up", "events")
  BY <1>2
     DEF ConnectionInv, EarlyBeforeDestroy, Early, IsDestroy, DestroyQueued,
         DestroyAhead, Stages, QueuedAfterClose, OfClose
<1>3. CASE Returns("message", "dispatch")
  BY <1>3
     DEF ConnectionInv, EarlyBeforeDestroy, Early, IsDestroy, DestroyQueued,
         DestroyAhead, Stages, QueuedAfterClose, OfClose
<1>4. CASE Returns("completed", "functors")
  BY <1>4
     DEF ConnectionInv, EarlyBeforeDestroy, Early, IsDestroy, DestroyQueued,
         DestroyAhead, Stages, QueuedAfterClose, OfClose
<1>5. CASE revents = {} /\ Returns("dispatch", "events")
  BY <1>5
     DEF ConnectionInv, EarlyBeforeDestroy, Early, IsDestroy, DestroyQueued,
         DestroyAhead, Stages, QueuedAfterClose, OfClose
<1>6. ASSUME NEW ready \in SUBSET {"hup", "in", "out"},
             poll(ready)
      PROVE  EarlyBeforeDestroy'
  BY <1>6
     DEF poll, ConnectionInv, EarlyBeforeDestroy, Early, IsDestroy,
         DestroyQueued, DestroyAhead, Stages, QueuedAfterClose, OfClose
<1>7. CASE handleEvent
  BY <1>7
     DEF handleEvent, ConnectionInv, EarlyBeforeDestroy, Early, IsDestroy,
         DestroyQueued, DestroyAhead, Stages, QueuedAfterClose, OfClose
<1>8. CASE handleHup
  BY <1>8
     DEF handleHup, ConnectionInv, EarlyBeforeDestroy, Early, IsDestroy,
         DestroyQueued, DestroyAhead, Stages, QueuedAfterClose, OfClose
<1>9. CASE handleRead
  BY <1>9
     DEF handleRead, ConnectionInv, EarlyBeforeDestroy, Early, IsDestroy,
         DestroyQueued, DestroyAhead, Stages, QueuedAfterClose, OfClose
<1>10. CASE handleReadEof
  BY <1>10
     DEF handleReadEof, ConnectionInv, EarlyBeforeDestroy, Early, IsDestroy,
         DestroyQueued, DestroyAhead, Stages, QueuedAfterClose, OfClose
<1>11. CASE handleWrite
  BY <1>11, GrowFacts
     DEF handleWrite, ConnectionInv, EarlyBeforeDestroy, Early, IsDestroy,
         DestroyQueued, DestroyAhead, Stages, QueuedAfterClose, OfClose
<1>12. CASE removeConnection
  <2>1. queueInLoop("connectDestroyed")
        /\ "connectDestroyed" \in Holding \cup Raw
    BY <1>12 DEF removeConnection, queueDestroyed
  <2>2. /\ Len(pendingFunctor_') = Len(pendingFunctor_) + 1
        /\ pendingFunctor_'[Len(pendingFunctor_) + 1].kind = "connectDestroyed"
    <3>1. pendingFunctor_'[Len(pendingFunctor_) + 1] =
            functor("connectDestroyed")
      BY <2>1, Grows
    <3>2. functor("connectDestroyed").kind = "connectDestroyed"
      BY DEF functor
    <3> QED
      BY <2>1, <3>1, <3>2, Grows
  <2>3. done' = done /\ Len(batch') = 0
    <3>1. batch' = <<>> /\ done' = done
      BY <1>12 DEF removeConnection, ConnectionInv, Stages
    <3> QED
      BY <3>1
  <2>4. ASSUME NEW i \in 1 .. Len(pendingFunctor_'), Early(pendingFunctor_'[i])
        PROVE  \E j \in i + 1 .. Len(pendingFunctor_') :
                 IsDestroy(pendingFunctor_'[j])
    <3>1. i # Len(pendingFunctor_) + 1
      BY <2>2, <2>4 DEF Early, Raw
    <3>2. Len(pendingFunctor_) + 1 \in i + 1 .. Len(pendingFunctor_')
      BY <2>2, <3>1
    <3> QED
      BY <2>2, <3>2 DEF IsDestroy
  <2>5. \A i \in done + 1 .. 0 : FALSE
    OBVIOUS
  <2>6. \A i \in done' + 1 .. Len(batch') : FALSE
    BY <2>3, <2>5
  <2> QED
    BY <2>4, <2>6 DEF EarlyBeforeDestroy
<1>13. CASE SwapPending
  BY <1>13
     DEF SwapPending, ConnectionInv, EarlyBeforeDestroy, Early, IsDestroy,
         DestroyQueued, DestroyAhead, Stages, QueuedAfterClose, OfClose
<1>14. ASSUME NEW kind \in Raw, runOnDestroyed(kind)
       PROVE  EarlyBeforeDestroy'
  BY <1>14
     DEF runOnDestroyed, ConnectionInv, EarlyBeforeDestroy, Early, IsDestroy,
         DestroyQueued, DestroyAhead, Stages, QueuedAfterClose, OfClose
<1>15. CASE runSendInLoop
  <2>1. /\ done' = done + 1 /\ done < Len(batch)
        /\ UNCHANGED <<batch, closing, looping>>
        /\ pendingFunctor_' = pendingFunctor_ \/ queueInLoop("callback")
    BY <1>15 DEF runSendInLoop
  <2>2. DestroyQueued' <=> DestroyQueued
    BY <2>1, GrowFacts DEF DestroyQueued
  <2>3. closing /\ looping =>
          \A i \in 1 .. Len(pendingFunctor_') : Early(pendingFunctor_'[i]) =>
            \E j \in i + 1 .. Len(pendingFunctor_') :
              IsDestroy(pendingFunctor_'[j])
    BY <2>1, GrowFacts DEF ConnectionInv, EarlyBeforeDestroy
  <2>4. closing /\ looping =>
          \A i \in done + 2 .. Len(batch) : Early(batch[i]) =>
            DestroyAhead(i) \/ DestroyQueued
    BY <2>1 DEF ConnectionInv, EarlyBeforeDestroy
  <2>5. \A i \in done' + 1 .. Len(batch') :
          Early(batch[i]) /\ closing /\ looping =>
            DestroyAhead(i) \/ DestroyQueued
    <3>1. done' + 1 .. Len(batch') = done + 2 .. Len(batch)
      BY <2>1
    <3> QED
      BY <2>4, <3>1
  <2>6. batch' = batch /\ closing' = closing /\ looping' = looping
    BY <2>1
  <2> QED
    BY <2>2, <2>3, <2>5, <2>6 DEF EarlyBeforeDestroy, DestroyAhead
<1>16. CASE runShutdownInLoop
  BY <1>16
     DEF runShutdownInLoop, ConnectionInv, EarlyBeforeDestroy, Early,
         IsDestroy, DestroyQueued, DestroyAhead, Stages, QueuedAfterClose,
         OfClose
<1>17. CASE runCallback
  BY <1>17
     DEF runCallback, ConnectionInv, EarlyBeforeDestroy, Early, IsDestroy,
         DestroyQueued, DestroyAhead, Stages, QueuedAfterClose, OfClose
<1>18. CASE runConnectDestroyed
  BY <1>18, DestroyedIsDown
     DEF runConnectDestroyed, ConnectionInv, EarlyBeforeDestroy, Early,
         IsDestroy, DestroyQueued, DestroyAhead, Stages, QueuedAfterClose,
         OfClose
<1>19. CASE BatchDone
  BY <1>19
     DEF BatchDone, ConnectionInv, EarlyBeforeDestroy, Early, IsDestroy,
         DestroyQueued, DestroyAhead, Stages, QueuedAfterClose, OfClose
<1>20. CASE destroyServer
  BY <1>20
     DEF destroyServer, ConnectionInv, EarlyBeforeDestroy, Early, IsDestroy,
         DestroyQueued, DestroyAhead, Stages, QueuedAfterClose, OfClose
<1>21. CASE connectDestroyed
  BY <1>21
     DEF connectDestroyed, ConnectionInv, EarlyBeforeDestroy, Early, IsDestroy,
         DestroyQueued, DestroyAhead, Stages, QueuedAfterClose, OfClose
<1>22. CASE userSends
  BY <1>22, GrowFacts
     DEF userSends, ConnectionInv, EarlyBeforeDestroy, Early, IsDestroy,
         DestroyQueued, DestroyAhead, Stages, QueuedAfterClose, OfClose
<1>23. CASE userShutsDown
  BY <1>23
     DEF userShutsDown, ConnectionInv, EarlyBeforeDestroy, Early, IsDestroy,
         DestroyQueued, DestroyAhead, Stages, QueuedAfterClose, OfClose
<1>24. ASSUME NEW h \in Threads \cup {Loop}, userKeeps(h)
       PROVE  EarlyBeforeDestroy'
  BY <1>24
     DEF userKeeps, ConnectionInv, EarlyBeforeDestroy, Early, IsDestroy,
         DestroyQueued, DestroyAhead, Stages, QueuedAfterClose, OfClose
<1>25. CASE userDrops
  BY <1>25
     DEF userDrops, ConnectionInv, EarlyBeforeDestroy, Early, IsDestroy,
         DestroyQueued, DestroyAhead, Stages, QueuedAfterClose, OfClose
<1>26. ASSUME NEW t \in Threads, threadQueuesSend(t)
       PROVE  EarlyBeforeDestroy'
  BY <1>26, GrowFacts
     DEF threadQueuesSend, ConnectionInv, EarlyBeforeDestroy, Early, IsDestroy,
         DestroyQueued, DestroyAhead, Stages, QueuedAfterClose, OfClose
<1>27. ASSUME NEW t \in Threads, threadSetsState(t)
       PROVE  EarlyBeforeDestroy'
  BY <1>27
     DEF threadSetsState, ConnectionInv, EarlyBeforeDestroy, Early, IsDestroy,
         DestroyQueued, DestroyAhead, Stages, QueuedAfterClose, OfClose
<1>28. ASSUME NEW t \in Threads, threadQueuesShutdown(t)
       PROVE  EarlyBeforeDestroy'
  BY <1>28, GrowFacts
     DEF threadQueuesShutdown, ConnectionInv, EarlyBeforeDestroy, Early,
         IsDestroy, DestroyQueued, DestroyAhead, Stages, QueuedAfterClose,
         OfClose
<1>29. ASSUME NEW t \in Threads, threadSend(t)
       PROVE  EarlyBeforeDestroy'
  BY <1>29
     DEF threadSend, ConnectionInv, EarlyBeforeDestroy, Early, IsDestroy,
         DestroyQueued, DestroyAhead, Stages, QueuedAfterClose, OfClose
<1>30. ASSUME NEW t \in Threads, threadShutdown(t)
       PROVE  EarlyBeforeDestroy'
  BY <1>30
     DEF threadShutdown, ConnectionInv, EarlyBeforeDestroy, Early, IsDestroy,
         DestroyQueued, DestroyAhead, Stages, QueuedAfterClose, OfClose
<1>31. ASSUME NEW t \in Threads, threadDrops(t)
       PROVE  EarlyBeforeDestroy'
  BY <1>31
     DEF threadDrops, ConnectionInv, EarlyBeforeDestroy, Early, IsDestroy,
         DestroyQueued, DestroyAhead, Stages, QueuedAfterClose, OfClose
<1>32. CASE UNCHANGED vars
  BY <1>32
     DEF vars, ConnectionInv, EarlyBeforeDestroy, Early, IsDestroy,
         DestroyQueued, DestroyAhead, Stages, QueuedAfterClose, OfClose
<1> QED
  BY <1>1, <1>2, <1>3, <1>4, <1>5, <1>6, <1>7, <1>8, <1>9, <1>10, <1>11, <1>12,
     <1>13, <1>14, <1>15, <1>16, <1>17, <1>18, <1>19, <1>20, <1>21, <1>22,
     <1>23, <1>24, <1>25, <1>26, <1>27, <1>28, <1>29, <1>30, <1>31, <1>32
     DEF Next, LoopStep, handlerReturns, UserCall, ThreadStep, CallContinues

\* The registration of a closed connection.
LEMMA ClosedForGoodKept == ConnectionInv /\ [Next]_vars => ClosedForGood'
<1> SUFFICES ASSUME ConnectionInv, [Next]_vars
             PROVE  ClosedForGood'
  OBVIOUS
<1> USE QueueTypes, QueuedFacts DEF channelVars, queueVars, eventVars,
        histVars, loopSide, MayCall, setEvents, disableAll, removeChannel,
        sendInLoop, shutdownInLoop, UserStep, handleClose, erase, RunNext,
        stillConnected, goesDown, dropBatch, Returns, UserCode
<1>1. CASE connectEstablished
  BY <1>1
     DEF connectEstablished, ConnectionInv, ClosedForGood, Stages,
         DestroyQueued, DestroyAhead, IsDestroy
<1>2. CASE Returns("up", "events")
  BY <1>2
     DEF ConnectionInv, ClosedForGood, Stages, DestroyQueued, DestroyAhead,
         IsDestroy
<1>3. CASE Returns("message", "dispatch")
  BY <1>3
     DEF ConnectionInv, ClosedForGood, Stages, DestroyQueued, DestroyAhead,
         IsDestroy
<1>4. CASE Returns("completed", "functors")
  BY <1>4
     DEF ConnectionInv, ClosedForGood, Stages, DestroyQueued, DestroyAhead,
         IsDestroy
<1>5. CASE revents = {} /\ Returns("dispatch", "events")
  BY <1>5
     DEF ConnectionInv, ClosedForGood, Stages, DestroyQueued, DestroyAhead,
         IsDestroy
<1>6. ASSUME NEW ready \in SUBSET {"hup", "in", "out"},
             poll(ready)
      PROVE  ClosedForGood'
  <2>1. /\ at = "poll" /\ at' = "events" /\ Reports(ready)
        /\ active' = (ready # {})
        /\ UNCHANGED <<channelVars, queueVars, closing, lateSend>>
    BY <1>6 DEF poll
  <2>2. ~DestroyAhead(done)
    BY <2>1 DEF ConnectionInv, Stages, DestroyAhead
  <2>3. ~lateSend /\ closing => ~mapped /\ ~added /\ ready = {}
    BY <2>1, <2>2 DEF ConnectionInv, ClosedForGood, Reports
  <2>4. ~lateSend => ~DestroyQueued
    BY <2>1 DEF ConnectionInv, ClosedForGood
  <2>5. DestroyQueued' <=> DestroyQueued
    BY <2>1 DEF DestroyQueued
  <2> QED
    BY <2>1, <2>3, <2>4, <2>5 DEF ClosedForGood
<1>7. CASE handleEvent
  BY <1>7
     DEF handleEvent, ConnectionInv, ClosedForGood, Stages, DestroyQueued,
         DestroyAhead, IsDestroy
<1>8. CASE handleHup
  BY <1>8
     DEF handleHup, ConnectionInv, ClosedForGood, Stages, DestroyQueued,
         DestroyAhead, IsDestroy
<1>9. CASE handleRead
  BY <1>9
     DEF handleRead, ConnectionInv, ClosedForGood, Stages, DestroyQueued,
         DestroyAhead, IsDestroy
<1>10. CASE handleReadEof
  BY <1>10
     DEF handleReadEof, ConnectionInv, ClosedForGood, Stages, DestroyQueued,
         DestroyAhead, IsDestroy
<1>11. CASE handleWrite
  <2>1. /\ at = "dispatch" /\ at' = "dispatch"
        /\ revents = {"out"} /\ revents' = {}
        /\ UNCHANGED <<batch, done, active, closing, lateSend>>
        /\ pendingFunctor_' = pendingFunctor_ \/ queueInLoop("callback")
    BY <1>11 DEF handleWrite
  <2>2. DestroyQueued' <=> DestroyQueued
    BY <2>1, GrowFacts DEF DestroyQueued
  <2> QED
    BY <2>1, <2>2 DEF ConnectionInv, ClosedForGood
<1>12. CASE removeConnection
  BY <1>12, GrowFacts
     DEF removeConnection, ConnectionInv, ClosedForGood, Stages, DestroyAhead,
         queueDestroyed
<1>13. CASE SwapPending
  BY <1>13
     DEF SwapPending, ConnectionInv, ClosedForGood, Stages, DestroyQueued,
         DestroyAhead, IsDestroy
<1>14. ASSUME NEW kind \in Raw, runOnDestroyed(kind)
       PROVE  ClosedForGood'
  <2>1. RunNext(kind) /\ kind \in Raw \cup {"callback"}
    BY <1>14 DEF runOnDestroyed, Raw
  <2> QED
    BY <1>14, <2>1, RunFacts
       DEF runOnDestroyed, ConnectionInv, ClosedForGood, Stages, DestroyQueued,
           DestroyAhead
<1>15. CASE runSendInLoop
  <2> SUFFICES ASSUME ~(lateSend')
               PROVE  ClosedForGood'
    BY DEF ClosedForGood
  <2>1. RunNext("sendInLoop") /\ "sendInLoop" \in Raw \cup {"callback"}
    BY <1>15 DEF runSendInLoop, Raw
  <2>2. ~lateSend /\ Early(batch[done + 1])
    BY <1>15, <2>1, RunFacts DEF runSendInLoop, NextFunctor, Early, Raw
  <2>3. closing => DestroyAhead(done + 1)
    <3>1. at = "functors" /\ ~DestroyQueued
      BY <2>1, <2>2, RunFacts
    <3>2. DestroyAhead(done + 1) \/ ~closing
      BY <2>1, <2>2, <3>1, RunFacts
         DEF ConnectionInv, EarlyBeforeDestroy, Stages
    <3> QED
      BY <3>2
  <2>4. closing => DestroyAhead(done)'
    BY <2>1, <2>3, RunFacts DEF DestroyAhead
  <2>5. ~(DestroyQueued')
    <3>1. ~DestroyQueued
      BY <2>1, <2>2, RunFacts
    <3>2. pendingFunctor_' = pendingFunctor_ \/ queueInLoop("callback")
      BY <1>15 DEF runSendInLoop
    <3> QED
      BY <3>1, <3>2, GrowFacts DEF DestroyQueued
  <2>6. at' = "functors" /\ closing' = closing /\ active' = active
    BY <1>15, <2>1, RunFacts, <2>2 DEF runSendInLoop
  <2>7. ~active
    BY <1>15, <2>1, <2>2, RunFacts DEF ConnectionInv, Stages
  <2> QED
    BY <2>4, <2>5, <2>6, <2>7 DEF ClosedForGood
<1>16. CASE runShutdownInLoop
  <2>1. RunNext("shutdownInLoop") /\ "shutdownInLoop" \in Raw \cup {"callback"}
    BY <1>16 DEF runShutdownInLoop, Raw
  <2> QED
    BY <1>16, <2>1, RunFacts
       DEF runShutdownInLoop, ConnectionInv, ClosedForGood, Stages,
           DestroyQueued, DestroyAhead
<1>17. CASE runCallback
  <2>1. RunNext("callback")
    BY <1>17 DEF runCallback, Raw
  <2> QED
    BY <1>17, <2>1, RunFacts
       DEF runCallback, ConnectionInv, ClosedForGood, Stages, DestroyQueued,
           DestroyAhead
<1>18. CASE runConnectDestroyed
  BY <1>18, DestroyedIsDown
     DEF runConnectDestroyed, ConnectionInv, ClosedForGood, Stages,
         DestroyQueued, DestroyAhead, IsDestroy
<1>19. CASE BatchDone
  BY <1>19
     DEF BatchDone, ConnectionInv, ClosedForGood, Stages, DestroyQueued,
         DestroyAhead, IsDestroy
<1>20. CASE destroyServer
  BY <1>20
     DEF destroyServer, ConnectionInv, ClosedForGood, Stages, DestroyQueued,
         DestroyAhead, IsDestroy
<1>21. CASE connectDestroyed
  BY <1>21
     DEF connectDestroyed, ConnectionInv, ClosedForGood, Stages, DestroyQueued,
         DestroyAhead, IsDestroy
<1>22. CASE userSends
  <2>1. ~closing /\ closing' = closing /\ lateSend' = lateSend
    BY <1>22 DEF userSends, ConnectionInv, Stages
  <2>2. pendingFunctor_' = pendingFunctor_ \/ queueInLoop("callback")
    BY <1>22 DEF userSends
  <2>3. ~(DestroyQueued')
    BY <2>1, <2>2, GrowFacts DEF DestroyQueued
  <2> QED
    BY <2>1, <2>3 DEF ClosedForGood
<1>23. CASE userShutsDown
  BY <1>23
     DEF userShutsDown, ConnectionInv, ClosedForGood, Stages, DestroyQueued,
         DestroyAhead, IsDestroy
<1>24. ASSUME NEW h \in Threads \cup {Loop}, userKeeps(h)
       PROVE  ClosedForGood'
  BY <1>24
     DEF userKeeps, ConnectionInv, ClosedForGood, Stages, DestroyQueued,
         DestroyAhead, IsDestroy
<1>25. CASE userDrops
  BY <1>25
     DEF userDrops, ConnectionInv, ClosedForGood, Stages, DestroyQueued,
         DestroyAhead, IsDestroy
<1>26. ASSUME NEW t \in Threads, threadQueuesSend(t)
       PROVE  ClosedForGood'
  BY <1>26, GrowFacts
     DEF threadQueuesSend, ConnectionInv, ClosedForGood, Stages, DestroyAhead
<1>27. ASSUME NEW t \in Threads, threadSetsState(t)
       PROVE  ClosedForGood'
  BY <1>27
     DEF threadSetsState, ConnectionInv, ClosedForGood, Stages, DestroyQueued,
         DestroyAhead, IsDestroy
<1>28. ASSUME NEW t \in Threads, threadQueuesShutdown(t)
       PROVE  ClosedForGood'
  BY <1>28, GrowFacts
     DEF threadQueuesShutdown, ConnectionInv, ClosedForGood, Stages,
         DestroyAhead
<1>29. ASSUME NEW t \in Threads, threadSend(t)
       PROVE  ClosedForGood'
  BY <1>29
     DEF threadSend, ConnectionInv, ClosedForGood, Stages, DestroyQueued,
         DestroyAhead, IsDestroy
<1>30. ASSUME NEW t \in Threads, threadShutdown(t)
       PROVE  ClosedForGood'
  BY <1>30
     DEF threadShutdown, ConnectionInv, ClosedForGood, Stages, DestroyQueued,
         DestroyAhead, IsDestroy
<1>31. ASSUME NEW t \in Threads, threadDrops(t)
       PROVE  ClosedForGood'
  BY <1>31
     DEF threadDrops, ConnectionInv, ClosedForGood, Stages, DestroyQueued,
         DestroyAhead, IsDestroy
<1>32. CASE UNCHANGED vars
  BY <1>32
     DEF vars, ConnectionInv, ClosedForGood, Stages, DestroyQueued,
         DestroyAhead
<1> QED
  BY <1>1, <1>2, <1>3, <1>4, <1>5, <1>6, <1>7, <1>8, <1>9, <1>10, <1>11, <1>12,
     <1>13, <1>14, <1>15, <1>16, <1>17, <1>18, <1>19, <1>20, <1>21, <1>22,
     <1>23, <1>24, <1>25, <1>26, <1>27, <1>28, <1>29, <1>30, <1>31, <1>32
     DEF Next, LoopStep, handlerReturns, UserCall, ThreadStep, CallContinues
\* What is registered, whatever comes late: only the loop thread changes it, a
\* connection that is open is read from, and one that has gone down is not.
LEMMA RegistrationKept == ConnectionInv /\ [Next]_vars => Registration'
<1> SUFFICES ASSUME ConnectionInv, [Next]_vars
             PROVE  Registration'
  OBVIOUS
<1> USE DEF channelVars, queueVars, eventVars, histVars, loopSide, setEvents,
        disableAll, removeChannel, UserCode, ConnectionInv, Registration
<1>0. /\ reading \in BOOLEAN /\ writing \in BOOLEAN /\ added \in BOOLEAN
      /\ output \in BOOLEAN /\ active \in BOOLEAN /\ closing \in BOOLEAN
      /\ looping \in BOOLEAN /\ downs \in Nat
  BY DEF TypeOK
<1>1. CASE connectEstablished
  BY <1>1 DEF connectEstablished, Stages
<1>2. CASE handlerReturns
  <2>1. CASE Returns("up", "events")
    BY <2>1 DEF Returns, Stages
  <2>2. CASE Returns("message", "dispatch")
    BY <1>0, <2>2 DEF Returns, Stages
  <2>3. CASE Returns("completed", "functors")
    BY <2>3 DEF Returns, Stages
  <2>4. CASE revents = {} /\ Returns("dispatch", "events")
    BY <2>4 DEF Returns, Stages
  <2> QED
    BY <1>2, <2>1, <2>2, <2>3, <2>4 DEF handlerReturns
<1>3. ASSUME NEW ready \in SUBSET {"hup", "in", "out"}, poll(ready)
      PROVE  Registration'
  <2>1. /\ at = "poll" /\ at' = "events"
        /\ Reports(ready) /\ revents' = ready /\ active' = (ready # {})
        /\ UNCHANGED <<reading, writing, added, output, closing, downs>>
    BY <1>3 DEF poll
  <2>2. ready # {} => added /\ ("in" \in ready => reading)
    BY <2>1 DEF Reports
  <2>3. "in" \in ready => downs = 0
    BY <1>0, <2>1, <2>2
  <2>4. active' \/ at' = "dispatch" =>
          /\ "in" \in revents' => downs' = 0
          /\ "hup" \in revents' \/ "in" \in revents' \/ writing' => added'
    <3>1. CASE ready = {}
      BY <2>1, <3>1
    <3>2. CASE ready # {}
      BY <2>1, <2>2, <2>3, <3>2
    <3> QED
      BY <3>1, <3>2
  <2> QED
    BY <1>0, <2>1, <2>4
<1>4. CASE handleEvent
  BY <1>4 DEF handleEvent, Stages
<1>5. CASE handleHup
  <2>1. /\ at = "dispatch" /\ at' = "closing" /\ added
        /\ revents' \subseteq revents /\ "in" \notin revents'
        /\ ~(reading') /\ ~(writing') /\ added' = ~added
        /\ downs' = downs + 1 /\ UNCHANGED <<output, active, closing>>
    BY <1>5 DEF handleHup, handleClose
  <2> QED
    BY <1>0, <2>1 DEF Stages
<1>6. CASE handleRead
  <2>1. /\ at = "dispatch" /\ at' \in {"message", "dispatch"}
        /\ "in" \in revents /\ revents' = revents \ {"hup", "in"}
        /\ UNCHANGED <<reading, writing, added, output, active, closing, downs>>
    BY <1>6 DEF handleRead
  <2>2. revents' \subseteq {"out"}
    BY <2>1 DEF TypeOK
  <2> QED
    BY <1>0, <2>1, <2>2 DEF Stages
<1>7. CASE handleReadEof
  <2>1. /\ at = "dispatch" /\ at' = "closing" /\ added
        /\ revents' \subseteq revents /\ "in" \notin revents'
        /\ ~(reading') /\ ~(writing') /\ added' = ~added
        /\ downs' = downs + 1 /\ UNCHANGED <<output, active, closing>>
    BY <1>7 DEF handleReadEof, handleClose
  <2> QED
    BY <1>0, <2>1 DEF Stages
<1>8. CASE handleWrite
  <2>1. /\ at = "dispatch" /\ at' = "dispatch" /\ revents' = {}
        /\ UNCHANGED <<reading, active, closing, downs>>
        /\ \/ UNCHANGED <<writing, added, output>>
           \/ writing /\ added' = (~added \/ reading) /\ ~(writing')
    BY <1>0, <1>8 DEF handleWrite
  <2>2. writing => added
    BY <2>1
  <2>3. added' => reading' \/ writing'
    BY <1>0, <2>1, <2>2
  <2> QED
    BY <1>0, <2>1, <2>2, <2>3 DEF Stages
<1>9. CASE removeConnection
  BY <1>9 DEF removeConnection, queueDestroyed, Stages
<1>10. CASE SwapPending
  BY <1>10 DEF SwapPending, Stages
<1>11. ASSUME NEW kind \in Raw, runOnDestroyed(kind)
       PROVE  Registration'
  BY <1>11 DEF runOnDestroyed, RunNext, Stages
<1>12. CASE runSendInLoop
  <2>1. \/ UNCHANGED <<reading, writing, added, output>>
        \/ UNCHANGED <<reading, writing, added>> /\ writing /\ output'
        \/ UNCHANGED reading /\ writing' /\ added' /\ output'
    BY <1>0, <1>12 DEF runSendInLoop, sendInLoop
  <2>2. /\ at = "functors" /\ at' = "functors"
        /\ UNCHANGED <<revents, active, closing, downs>>
    BY <1>12 DEF runSendInLoop, RunNext
  <2> QED
    BY <1>0, <2>1, <2>2 DEF Stages
<1>13. CASE runShutdownInLoop
  BY <1>13 DEF runShutdownInLoop, RunNext, shutdownInLoop, Stages
<1>14. CASE runCallback
  BY <1>14 DEF runCallback, RunNext, Stages
<1>15. CASE runConnectDestroyed
  BY <1>15, DestroyedIsDown DEF runConnectDestroyed, RunNext, stillConnected,
     Stages
<1>16. CASE BatchDone
  BY <1>16 DEF BatchDone, Stages
<1>17. CASE destroyServer
  <2>1. /\ at = "out" /\ at' \in {"destroying", "end"} /\ closing'
        /\ UNCHANGED <<output, revents, active>>
    BY <1>17 DEF destroyServer, goesDown
  <2>2. CASE inMap /\ state_ = "kConnected"
    <3>1. /\ reading' = FALSE /\ writing' = FALSE /\ added' = ~added
          /\ downs' = downs + 1
      BY <1>17, <2>2 DEF destroyServer, goesDown, stillConnected
    <3>2. added
      BY <1>0, <2>1, <2>2 DEF Stages
    <3> QED
      BY <1>0, <2>1, <3>1, <3>2 DEF Stages
  <2>3. CASE ~(inMap /\ state_ = "kConnected")
    <3>1. /\ UNCHANGED <<reading, writing, downs>>
          /\ added' = FALSE \/ added' = added
      BY <1>17, <2>3 DEF destroyServer, stillConnected
    <3> QED
      BY <1>0, <2>1, <3>1 DEF Stages
  <2> QED
    BY <2>2, <2>3
<1>18. CASE connectDestroyed
  BY <1>18 DEF connectDestroyed, Stages
<1>19. CASE userSends
  <2>1. \/ UNCHANGED <<reading, writing, added, output>>
        \/ UNCHANGED <<reading, writing, added>> /\ writing /\ output'
        \/ UNCHANGED reading /\ writing' /\ added' /\ output'
    BY <1>0, <1>19 DEF userSends, sendInLoop
  <2>2. /\ state_ = "kConnected" /\ at' = at
        /\ UNCHANGED <<revents, active, closing, downs>>
    BY <1>19 DEF userSends, UserStep
  <2> QED
    BY <1>0, <2>1, <2>2 DEF Stages
<1>20. CASE userShutsDown
  BY <1>20 DEF userShutsDown, UserStep, shutdownInLoop, Stages
<1>21. ASSUME NEW h \in Threads \cup {Loop}, userKeeps(h)
       PROVE  Registration'
  BY <1>21 DEF userKeeps, UserStep, Stages
<1>22. CASE userDrops
  BY <1>22 DEF userDrops, UserStep, Stages
<1>23. ASSUME NEW t \in Threads, ThreadStep(t)
       PROVE  Registration'
  BY <1>23
     DEF ThreadStep, CallContinues, threadSend, threadShutdown,
         threadQueuesSend, threadSetsState, threadQueuesShutdown, threadDrops
<1>24. CASE UNCHANGED vars
  BY <1>24 DEF vars
<1> QED
  BY <1>1, <1>2, <1>3, <1>4, <1>5, <1>6, <1>7, <1>8, <1>9, <1>10, <1>11, <1>12,
     <1>13, <1>14, <1>15, <1>16, <1>17, <1>18, <1>19, <1>20, <1>21, <1>22,
     <1>23, <1>24 DEF Next, LoopStep, UserCall

-----------------------------------------------------------------------------
(* The theorems.                                                           *)

LEMMA InitEstablishes == Init => ConnectionInv
<1> SUFFICES ASSUME Init
             PROVE  ConnectionInv
  OBVIOUS
<1>1. <<>> \in Seq(Functor) /\ Len(<<>>) = 0
  OBVIOUS
<1>2. TypeOK
  <2>1. /\ {reading, writing, added, mapped, output, inMap} \subseteq BOOLEAN
        /\ {active, looping, closing, lateSend} \subseteq BOOLEAN
    BY DEF Init
  <2>2. done \in 0 .. Len(batch)
    BY <1>1 DEF Init
  <2>3. at \in UserCode \cup {"accept"}
    BY DEF Init
  <2> QED
    BY <1>1, <2>1, <2>2, <2>3 DEF Init, TypeOK
<1>3. Stages
  BY DEF Init, Stages
<1>4. QueuedAfterClose /\ EarlyBeforeDestroy
  BY <1>1 DEF Init, QueuedAfterClose, EarlyBeforeDestroy
<1>5. ClosedForGood
  BY <1>1 DEF Init, ClosedForGood, DestroyQueued
<1>6. Registration
  BY DEF Init, Registration
<1> QED
  BY <1>2, <1>3, <1>4, <1>5, <1>6 DEF ConnectionInv

LEMMA StepPreserves == ConnectionInv /\ [Next]_vars => ConnectionInv'
BY TypeOKKept, StagesKept, QueuedAfterCloseKept, EarlyBeforeDestroyKept,
   ClosedForGoodKept, RegistrationKept DEF ConnectionInv

\* The stage of the connection, the map, the queue and the poller agree in
\* every reachable state, for any number of other threads
\* (tcpconnection.cc:141-256, tcpserver.cc:61-106).
THEOREM Invariance == Spec => []ConnectionInv
<1> QED
  BY InitEstablishes, StepPreserves, PTL DEF Spec

\* Every variable has its type.
THEOREM TypeCorrect == Spec => []TypeOK
<1>1. ConnectionInv => TypeOK
  BY DEF ConnectionInv
<1> QED
  BY <1>1, Invariance, PTL

\* What keeps the object, in terms of the queues.
LEMMA KeptAlive ==
  ASSUME ConnectionInv
  PROVE  /\ DestroyQueued \/ DestroyAhead(done) => alive
         /\ ~closing => alive
<1> USE QueueTypes
<1>1. ASSUME NEW q \in {pendingFunctor_, batch}, NEW i \in 1 .. Len(q),
             IsDestroy(q[i])
      PROVE  alive
  <2>1. q[i] \in Range(q)
    BY DEF ConnectionInv, TypeOK, Range
  <2>2. q[i].kind \in Holding
    BY <1>1 DEF IsDestroy, Holding
  <2> QED
    BY <2>1, <2>2 DEF alive, HeldByFunctor
<1>2. DestroyQueued => alive
  BY <1>1 DEF DestroyQueued
<1>3. DestroyAhead(done) => alive
  <2>1. done + 1 .. Len(batch) \subseteq 1 .. Len(batch)
    OBVIOUS
  <2> QED
    BY <1>1, <2>1 DEF DestroyAhead
<1>4. ~closing => alive
  BY DEF ConnectionInv, Stages, alive
<1> QED
  BY <1>2, <1>3, <1>4

\* Functors queued with a raw pointer before the close find the object.
LEMMA EarlyAlive == ConnectionInv => EarlyFunctorsFindObject
<1> SUFFICES ASSUME ConnectionInv, looping,
                    NEW f \in Range(pendingFunctor_
                                   \o SubSeq(batch, done + 1, Len(batch))),
                    Early(f)
             PROVE  alive
  BY DEF EarlyFunctorsFindObject, Early
<1> USE QueueTypes
<1>1. CASE ~closing
  BY <1>1, KeptAlive
<1>2. CASE closing
  <2>1. \/ \E i \in 1 .. Len(pendingFunctor_) : f = pendingFunctor_[i]
        \/ \E i \in done + 1 .. Len(batch) : f = batch[i]
    <3> DEFINE r == SubSeq(batch, done + 1, Len(batch))
    <3>1. /\ pendingFunctor_ \in Seq(Functor) /\ batch \in Seq(Functor)
      BY DEF ConnectionInv, TypeOK
    <3>2. /\ r \in Seq(Functor) /\ Len(r) = Len(batch) - done
          /\ \A i \in 1 .. Len(r) : r[i] = batch[done + i]
      BY <3>1, SubSeqProperties
    <3> HIDE DEF r
    <3>3. /\ DOMAIN (pendingFunctor_ \o r) =
            1 .. Len(pendingFunctor_) + Len(r)
          /\ \A i \in 1 .. Len(pendingFunctor_) + Len(r) :
               (pendingFunctor_ \o r)[i] =
                 IF i <= Len(pendingFunctor_) THEN pendingFunctor_[i]
                 ELSE r[i - Len(pendingFunctor_)]
      <4>1. /\ pendingFunctor_ \o r \in Seq(Functor)
            /\ Len(pendingFunctor_ \o r) = Len(pendingFunctor_) + Len(r)
        BY <3>1, <3>2, ConcatProperties
      <4>2. DOMAIN (pendingFunctor_ \o r) = 1 .. Len(pendingFunctor_) + Len(r)
        BY <4>1
      <4> QED
        BY <3>1, <3>2, <4>2, ConcatProperties
    <3>4. PICK i \in 1 .. Len(pendingFunctor_) + Len(r) :
                 f = (pendingFunctor_ \o r)[i]
      BY <3>3 DEF Range, r
    <3>5. CASE i <= Len(pendingFunctor_)
      BY <3>3, <3>4, <3>5
    <3>6. CASE i > Len(pendingFunctor_)
      <4>1. i - Len(pendingFunctor_) \in 1 .. Len(r)
        BY <3>2, <3>4, <3>6
      <4>2. f = batch[done + (i - Len(pendingFunctor_))]
        BY <3>2, <3>3, <3>4, <3>6, <4>1
      <4>3. done + (i - Len(pendingFunctor_)) \in done + 1 .. Len(batch)
        BY <3>2, <4>1
      <4> QED
        BY <4>2, <4>3
    <3> QED
      BY <3>4, <3>5, <3>6, <3>2
  <2>2. ASSUME NEW i \in 1 .. Len(pendingFunctor_), f = pendingFunctor_[i]
        PROVE  DestroyQueued
    <3>1. PICK j \in i + 1 .. Len(pendingFunctor_) :
                 IsDestroy(pendingFunctor_[j])
      BY <1>2, <2>2 DEF ConnectionInv, EarlyBeforeDestroy
    <3>2. j \in 1 .. Len(pendingFunctor_)
      BY <3>1
    <3> QED
      BY <3>1, <3>2 DEF DestroyQueued
  <2>3. ASSUME NEW i \in done + 1 .. Len(batch), f = batch[i]
        PROVE  DestroyQueued \/ DestroyAhead(done)
    <3>1. DestroyAhead(i) \/ DestroyQueued
      BY <1>2, <2>3 DEF ConnectionInv, EarlyBeforeDestroy
    <3>2. i + 1 .. Len(batch) \subseteq done + 1 .. Len(batch)
      BY <2>3
    <3> QED
      BY <3>1, <3>2 DEF DestroyAhead
  <2> QED
    BY <2>1, <2>2, <2>3, KeptAlive
<1> QED
  BY <1>1, <1>2

\* So they do in every behaviour.
THEOREM EarlyFind == Spec => []EarlyFunctorsFindObject
<1> QED
  BY EarlyAlive, Invariance, PTL

\* Before a late send, what points to the channel points to an object that
\* exists.
LEMMA PointedAlive == ConnectionInv => RegisteredAlive
BY KeptAlive DEF RegisteredAlive, ConnectionInv, ClosedForGood, alive, OnStack

\* A connection that has gone down is not read from and gets no message again,
\* in every behaviour, those with late sends among them; what is registered of
\* it when the loop polls is the output of a late send
\* (tcpconnection.cc:113-122, 198-211, 233).
THEOREM DownStaysQuiet == Spec => []DownOnlyWrites
<1>1. ConnectionInv => DownOnlyWrites
  <2> SUFFICES ASSUME ConnectionInv, downs > 0
               PROVE  /\ ~reading /\ at \notin {"up", "message"}
                      /\ at = "poll" /\ added =>
                           lateSend /\ writing /\ output
    BY DEF DownOnlyWrites
  <2>1. ~reading /\ at \notin {"up", "message"}
    BY DEF ConnectionInv, Registration
  <2>2. ASSUME at = "poll", added
        PROVE  lateSend /\ writing /\ output
    <3>1. writing /\ output
      BY <2>1, <2>2 DEF ConnectionInv, Registration
    <3>2. lateSend
      BY <2>2, QueuedFacts DEF ConnectionInv, ClosedForGood, Stages
    <3> QED
      BY <3>1, <3>2
  <2> QED
    BY <2>1, <2>2
<1> QED
  BY <1>1, Invariance, PTL

-----------------------------------------------------------------------------
(* Use after destruction.                                                  *)

\* Two steps may find the object gone; after that the loop thread is still.
LEMMA CrashesBy ==
  ASSUME ConnectionInv, [Next]_vars, at' = "crashed"
  PROVE  \/ /\ at = "crashed"
            /\ UNCHANGED <<batch, done, revents, lateSend>>
         \/ handleEvent /\ ~alive
         \/ \E kind \in Raw : runOnDestroyed(kind)
<1> USE DEF loopSide, histVars, queueVars, eventVars, UserStep, UserCode,
        RunNext, Returns
<1>1. CASE LoopStep
  BY <1>1
     DEF LoopStep, connectEstablished, handlerReturns, poll, handleEvent,
         handleHup, handleReadEof, handleClose, handleRead, handleWrite,
         removeConnection, SwapPending, runOnDestroyed, runSendInLoop,
         runShutdownInLoop, runCallback, runConnectDestroyed, goesDown,
         BatchDone, destroyServer, connectDestroyed
<1>2. CASE UserCall
  BY <1>2 DEF UserCall, userSends, userShutsDown, userKeeps, userDrops
<1>3. ASSUME NEW t \in Threads, ThreadStep(t)
      PROVE  at = "crashed" /\ UNCHANGED <<batch, done, revents, lateSend>>
  BY <1>3
     DEF ThreadStep, CallContinues, threadSend, threadShutdown,
         threadQueuesSend, threadSetsState, threadQueuesShutdown, threadDrops
<1>4. CASE UNCHANGED vars
  BY <1>4 DEF vars
<1> QED
  BY <1>1, <1>2, <1>3, <1>4 DEF Next

\* The functor that is next is among those to come.
LEMMA NextIsQueued ==
  ASSUME NEW p \in Seq(Functor), NEW b \in Seq(Functor),
         NEW n \in 0 .. Len(b), n < Len(b)
  PROVE  b[n + 1] \in Range(p \o SubSeq(b, n + 1, Len(b)))
<1> DEFINE r == SubSeq(b, n + 1, Len(b))
<1>1. Len(b) \in Nat /\ n \in Nat /\ Len(p) \in Nat
  BY LenProperties
<1>2. /\ r \in Seq(Functor) /\ Len(r) = Len(b) - n
      /\ \A i \in 1 .. Len(r) : r[i] = b[n + i]
  BY <1>1, SubSeqProperties
<1> HIDE DEF r
<1>3. 1 \in 1 .. Len(r) /\ r[1] = b[n + 1]
  BY <1>1, <1>2
<1>4. /\ p \o r \in Seq(Functor) /\ Len(p \o r) = Len(p) + Len(r)
      /\ \A i \in 1 .. Len(p) + Len(r) : (p \o r)[i] =
           IF i <= Len(p) THEN p[i] ELSE r[i - Len(p)]
  BY <1>2, ConcatProperties
<1>5. /\ Len(p) + 1 \in 1 .. Len(p) + Len(r)
      /\ ~(Len(p) + 1 <= Len(p)) /\ Len(p) + 1 - Len(p) = 1
  BY <1>1, <1>2
<1>6. (p \o r)[Len(p) + 1] = b[n + 1]
  BY <1>3, <1>4, <1>5
<1>7. DOMAIN (p \o r) = 1 .. Len(p) + Len(r)
  BY <1>4
<1> QED
  BY <1>5, <1>6, <1>7 DEF Range, r

\* The object is found gone by a functor bound to "this" after the close, or by
\* an event of a channel that a late send has registered for writing, and by
\* nothing else (tcpconnection.cc:141-156, 198-211, eventloop.cc:72-78).
THEOREM CrashesLate == Spec => []OnlyLateCrash
<1>1. Init => OnlyLateCrash
  BY DEF Init, OnlyLateCrash
<1>2. ConnectionInv /\ OnlyLateCrash /\ [Next]_vars => OnlyLateCrash'
  <2> SUFFICES ASSUME ConnectionInv, OnlyLateCrash, [Next]_vars,
                      at' = "crashed"
               PROVE  OnlyLateCrash'
    BY DEF OnlyLateCrash
  <2>1. CASE at = "crashed" /\ UNCHANGED <<batch, done, revents, lateSend>>
    BY <2>1 DEF OnlyLateCrash
  <2>2. CASE handleEvent /\ ~alive
    <3>1. /\ active /\ at = "events"
          /\ UNCHANGED <<batch, done, revents, lateSend>>
      BY <2>2 DEF handleEvent, queueVars
    <3>2. lateSend
      BY <2>2, <3>1, PointedAlive DEF RegisteredAlive
    <3>3. done = 0
      BY <3>1, QueueTypes DEF ConnectionInv, Stages
    <3>4. revents # {}
      BY <3>1 DEF ConnectionInv, Registration
    <3>5. "in" \notin revents
      <4>1. closing
        BY <2>2 DEF ConnectionInv, Stages, alive
      <4>2. downs > 0
        BY <3>1, <4>1 DEF ConnectionInv, Stages
      <4> QED
        BY <3>1, <4>2 DEF ConnectionInv, Registration
    <3> QED
      BY <3>1, <3>2, <3>3, <3>4, <3>5 DEF OnlyLateCrash
  <2>3. ASSUME NEW kind \in Raw, runOnDestroyed(kind)
        PROVE  OnlyLateCrash'
    <3>1. /\ done' = done + 1 /\ batch' = batch /\ done < Len(batch)
          /\ batch[done + 1].kind \in Raw /\ ~alive /\ looping
      BY <2>3 DEF runOnDestroyed, RunNext, NextFunctor, ConnectionInv, Stages
    <3>2. /\ pendingFunctor_ \in Seq(Functor) /\ batch \in Seq(Functor)
          /\ done \in 0 .. Len(batch) /\ Len(batch) \in Nat
      BY LenProperties DEF ConnectionInv, TypeOK
    <3>3. batch[done + 1] \in
            Range(pendingFunctor_ \o SubSeq(batch, done + 1, Len(batch)))
      BY <3>1, <3>2, NextIsQueued
    <3>4. batch[done + 1].late
      BY <3>1, <3>3, EarlyAlive DEF EarlyFunctorsFindObject
    <3>5. done' > 0
      BY <3>1, <3>2
    <3>6. batch'[done'] = batch[done + 1]
      BY <3>1
    <3> QED
      BY <3>1, <3>4, <3>5, <3>6 DEF OnlyLateCrash
  <2> QED
    BY <2>1, <2>2, <2>3, CrashesBy
<1> QED
  BY <1>1, <1>2, Invariance, PTL DEF Spec

-----------------------------------------------------------------------------
(* The refinement of ConnectionLife.                                       *)

\* Who is gone stays gone.
LEMMA HeldGrows ==
  ASSUME ConnectionInv, NEW kind \in Raw, queueInLoop(kind), batch' = batch
  PROVE  HeldByFunctor' => HeldByFunctor
<1> SUFFICES ASSUME NEW q \in {pendingFunctor_', batch'}, NEW f \in Range(q),
                    f.kind \in Holding
             PROVE  HeldByFunctor
  BY DEF HeldByFunctor
<1> USE QueueTypes, Grows
<1>1. CASE q = batch
  BY <1>1 DEF HeldByFunctor
<1>2. CASE q = pendingFunctor_'
  <2>1. PICK i \in 1 .. Len(pendingFunctor_) + 1 : f = pendingFunctor_'[i]
    BY <1>2 DEF Range
  <2>2. CASE i = Len(pendingFunctor_) + 1
    <3>1. functor(kind).kind = kind /\ kind \notin Holding
      BY DEF functor, Raw, Holding
    <3> QED
      BY <2>1, <2>2, <3>1
  <2>3. CASE i \in 1 .. Len(pendingFunctor_)
    <3>1. f = pendingFunctor_[i]
      BY <2>1, <2>3
    <3>2. pendingFunctor_ \in Seq(Functor)
      BY DEF ConnectionInv, TypeOK
    <3>3. f \in Range(pendingFunctor_)
      BY <2>3, <3>1, <3>2 DEF Range
    <3> QED
      BY <3>3 DEF HeldByFunctor
  <2> QED
    BY <2>1, <2>2, <2>3
<1> QED
  BY <1>1, <1>2

LEMMA GoneForGood ==
  ConnectionInv /\ [Next]_vars /\ ~alive => ~(alive')
<1> SUFFICES ASSUME ConnectionInv, [Next]_vars, ~alive
             PROVE  ~(alive')
  OBVIOUS
<1> USE QueueTypes DEF channelVars, queueVars, eventVars, histVars, loopSide,
        MayCall, setEvents, disableAll, removeChannel, sendInLoop,
        shutdownInLoop, UserStep, handleClose, erase, RunNext, stillConnected,
        goesDown, dropBatch, Returns, UserCode
<1>1. CASE connectEstablished
  BY <1>1 DEF connectEstablished, alive, OnStack, HasConnection
<1>2. CASE Returns("up", "events")
  BY <1>2 DEF alive, OnStack, HeldByFunctor
<1>3. CASE Returns("message", "dispatch")
  BY <1>3 DEF alive, OnStack, HeldByFunctor
<1>4. CASE Returns("completed", "functors")
  BY <1>4 DEF alive, OnStack, HeldByFunctor
<1>5. CASE revents = {} /\ Returns("dispatch", "events")
  BY <1>5 DEF alive, OnStack, HeldByFunctor
<1>6. ASSUME NEW ready \in SUBSET {"hup", "in", "out"},
             poll(ready)
      PROVE  ~(alive')
  BY <1>6 DEF poll, alive, OnStack, HeldByFunctor
<1>7. CASE handleEvent
  BY <1>7 DEF handleEvent, alive, OnStack, HeldByFunctor
<1>8. CASE handleHup
  BY <1>8 DEF handleHup, alive, OnStack, HasConnection
<1>9. CASE handleRead
  BY <1>9 DEF handleRead, alive, OnStack, HasConnection
<1>10. CASE handleReadEof
  BY <1>10 DEF handleReadEof, alive, OnStack, HasConnection
<1>11. CASE handleWrite
  BY <1>11 DEF handleWrite, alive, OnStack, HasConnection
<1>12. CASE removeConnection
  BY <1>12 DEF removeConnection, alive, OnStack, HasConnection
<1>13. CASE SwapPending
  <2>1. HeldByFunctor' => HeldByFunctor
    BY <1>13 DEF SwapPending, HeldByFunctor, Range
  <2> QED
    BY <1>13, <2>1 DEF SwapPending, alive, OnStack
<1>14. ASSUME NEW kind \in Raw, runOnDestroyed(kind)
       PROVE  ~(alive')
  BY <1>14 DEF runOnDestroyed, alive, OnStack, HeldByFunctor
<1>15. CASE runSendInLoop
  BY <1>15 DEF runSendInLoop, alive, OnStack, HasConnection
<1>16. CASE runShutdownInLoop
  BY <1>16 DEF runShutdownInLoop, alive, OnStack, HasConnection
<1>17. CASE runCallback
  BY <1>17 DEF runCallback, alive, OnStack, HeldByFunctor
<1>18. CASE runConnectDestroyed
  BY <1>18, DestroyedIsDown
     DEF runConnectDestroyed, alive, OnStack, HeldByFunctor
<1>19. CASE BatchDone
  <2>1. HeldByFunctor' => HeldByFunctor
    BY <1>19 DEF BatchDone, HeldByFunctor, Range
  <2> QED
    BY <1>19, <2>1 DEF BatchDone, alive, OnStack
<1>20. CASE destroyServer
  BY <1>20 DEF destroyServer, alive, OnStack, HeldByFunctor
<1>21. CASE connectDestroyed
  BY <1>21 DEF connectDestroyed, alive, OnStack, HasConnection
<1>22. CASE userSends
  BY <1>22 DEF userSends, alive, OnStack, HasConnection
<1>23. CASE userShutsDown
  BY <1>23 DEF userShutsDown, alive, OnStack, HasConnection
<1>24. ASSUME NEW h \in Threads \cup {Loop}, userKeeps(h)
       PROVE  ~(alive')
  BY <1>24 DEF userKeeps, alive, OnStack, HasConnection
<1>25. CASE userDrops
  BY <1>25 DEF userDrops, alive, OnStack, HasConnection
<1>26. ASSUME NEW t \in Threads, threadQueuesSend(t)
       PROVE  ~(alive')
  <2>1. HeldByFunctor' => HeldByFunctor
    BY <1>26, HeldGrows DEF threadQueuesSend, Raw
  <2> QED
    BY <1>26, <2>1 DEF threadQueuesSend, alive, OnStack
<1>27. ASSUME NEW t \in Threads, threadSetsState(t)
       PROVE  ~(alive')
  BY <1>27 DEF threadSetsState, alive, OnStack, HeldByFunctor
<1>28. ASSUME NEW t \in Threads, threadQueuesShutdown(t)
       PROVE  ~(alive')
  <2>1. HeldByFunctor' => HeldByFunctor
    BY <1>28, HeldGrows DEF threadQueuesShutdown, Raw
  <2> QED
    BY <1>28, <2>1 DEF threadQueuesShutdown, alive, OnStack
<1>29. ASSUME NEW t \in Threads, threadSend(t)
       PROVE  ~(alive')
  BY <1>29 DEF threadSend, alive, OnStack, HeldByFunctor
<1>30. ASSUME NEW t \in Threads, threadShutdown(t)
       PROVE  ~(alive')
  BY <1>30 DEF threadShutdown, alive, OnStack, HeldByFunctor
<1>31. ASSUME NEW t \in Threads, threadDrops(t)
       PROVE  ~(alive')
  BY <1>31 DEF threadDrops, alive, OnStack, HeldByFunctor
<1>32. CASE UNCHANGED vars
  BY <1>32 DEF vars, alive, OnStack, HeldByFunctor
<1> QED
  BY <1>1, <1>2, <1>3, <1>4, <1>5, <1>6, <1>7, <1>8, <1>9, <1>10, <1>11, <1>12,
     <1>13, <1>14, <1>15, <1>16, <1>17, <1>18, <1>19, <1>20, <1>21, <1>22,
     <1>23, <1>24, <1>25, <1>26, <1>27, <1>28, <1>29, <1>30, <1>31, <1>32
     DEF Next, LoopStep, handlerReturns, UserCall, ThreadStep, CallContinues

\* A connection that nobody holds any more has gone down, or was half-closed
\* when its server went.
LEMMA MayGo ==
  ASSUME ConnectionInv, ~lateSend, closing, at # "crashed", at # "up"
  PROVE  \/ downs > 0
         \/ /\ state_ = "kDisconnecting"
            /\ at \notin {"accept", "up", "message", "closing", "destroying"}
<1> SUFFICES ASSUME ~(downs > 0)
             PROVE  /\ state_ = "kDisconnecting"
                    /\ at \notin {"accept", "up", "message", "closing",
                                  "destroying"}
  OBVIOUS
<1>1. ~looping /\ at \in {"out", "destroying", "end"}
  BY DEF ConnectionInv, Stages
<1> QED
  BY <1>1 DEF ConnectionInv, Stages, TypeOK

\* What a step does to a connection that lives on.
LEMMA LiveStep ==
  ASSUME ConnectionInv, [Next]_vars, alive, alive', ~lateSend, ~(lateSend'),
         at # "crashed", at' # "crashed"
  PROVE  Life!Next \/ (lifeStage' = lifeStage /\ lifeCallback' = lifeCallback)

<1> DEFINE Goal ==
      Life!Next \/ (lifeStage' = lifeStage /\ lifeCallback' = lifeCallback)
<1> USE QueueTypes DEF channelVars, queueVars, eventVars, histVars, loopSide,
        MayCall, setEvents, disableAll, removeChannel, sendInLoop,
        shutdownInLoop, UserStep, handleClose, erase, RunNext, stillConnected,
        goesDown, dropBatch, Returns, UserCode
<1>1. CASE connectEstablished
  BY <1>1
     DEF connectEstablished, ConnectionInv, Stages, ClosedForGood, TypeOK,
         lifeStage, lifeCallback, Life!Next, Life!Up, Life!HalfClose,
         Life!Message, Life!Down, Life!Return
<1>2. CASE Returns("up", "events")
  BY <1>2
     DEF ConnectionInv, Stages, ClosedForGood, TypeOK, lifeStage, lifeCallback,
         Life!Next, Life!Up, Life!HalfClose, Life!Message, Life!Down,
         Life!Return
<1>3. CASE Returns("message", "dispatch")
  BY <1>3
     DEF ConnectionInv, Stages, ClosedForGood, TypeOK, lifeStage, lifeCallback,
         Life!Next, Life!Up, Life!HalfClose, Life!Message, Life!Down,
         Life!Return
<1>4. CASE Returns("completed", "functors")
  BY <1>4
     DEF ConnectionInv, Stages, ClosedForGood, TypeOK, lifeStage, lifeCallback,
         Life!Next, Life!Up, Life!HalfClose, Life!Message, Life!Down,
         Life!Return
<1>5. CASE revents = {} /\ Returns("dispatch", "events")
  BY <1>5
     DEF ConnectionInv, Stages, ClosedForGood, TypeOK, lifeStage, lifeCallback,
         Life!Next, Life!Up, Life!HalfClose, Life!Message, Life!Down,
         Life!Return
<1>6. ASSUME NEW ready \in SUBSET {"hup", "in", "out"},
             poll(ready)
      PROVE  Goal
  BY <1>6
     DEF poll, ConnectionInv, Stages, ClosedForGood, TypeOK, lifeStage,
         lifeCallback, Life!Next, Life!Up, Life!HalfClose, Life!Message,
         Life!Down, Life!Return
<1>7. CASE handleEvent
  BY <1>7
     DEF handleEvent, ConnectionInv, Stages, ClosedForGood, TypeOK, lifeStage,
         lifeCallback, Life!Next, Life!Up, Life!HalfClose, Life!Message,
         Life!Down, Life!Return
<1>8. CASE handleHup
  BY <1>8
     DEF handleHup, ConnectionInv, Stages, ClosedForGood, TypeOK, lifeStage,
         lifeCallback, Life!Next, Life!Up, Life!HalfClose, Life!Message,
         Life!Down, Life!Return
<1>9. CASE handleRead
  BY <1>9
     DEF handleRead, ConnectionInv, Stages, ClosedForGood, TypeOK, lifeStage,
         lifeCallback, Life!Next, Life!Up, Life!HalfClose, Life!Message,
         Life!Down, Life!Return
<1>10. CASE handleReadEof
  BY <1>10
     DEF handleReadEof, ConnectionInv, Stages, ClosedForGood, TypeOK,
         lifeStage, lifeCallback, Life!Next, Life!Up, Life!HalfClose,
         Life!Message, Life!Down, Life!Return
<1>11. CASE handleWrite
  BY <1>11
     DEF handleWrite, ConnectionInv, Stages, ClosedForGood, TypeOK, lifeStage,
         lifeCallback, Life!Next, Life!Up, Life!HalfClose, Life!Message,
         Life!Down, Life!Return
<1>12. CASE removeConnection
  BY <1>12
     DEF removeConnection, ConnectionInv, Stages, ClosedForGood, TypeOK,
         lifeStage, lifeCallback, Life!Next, Life!Up, Life!HalfClose,
         Life!Message, Life!Down, Life!Return
<1>13. CASE SwapPending
  BY <1>13
     DEF SwapPending, ConnectionInv, Stages, ClosedForGood, TypeOK, lifeStage,
         lifeCallback, Life!Next, Life!Up, Life!HalfClose, Life!Message,
         Life!Down, Life!Return
<1>14. ASSUME NEW kind \in Raw, runOnDestroyed(kind)
       PROVE  Goal
  BY <1>14
     DEF runOnDestroyed, ConnectionInv, Stages, ClosedForGood, TypeOK,
         lifeStage, lifeCallback, Life!Next, Life!Up, Life!HalfClose,
         Life!Message, Life!Down, Life!Return
<1>15. CASE runSendInLoop
  BY <1>15
     DEF runSendInLoop, ConnectionInv, Stages, ClosedForGood, TypeOK,
         lifeStage, lifeCallback, Life!Next, Life!Up, Life!HalfClose,
         Life!Message, Life!Down, Life!Return
<1>16. CASE runShutdownInLoop
  BY <1>16
     DEF runShutdownInLoop, ConnectionInv, Stages, ClosedForGood, TypeOK,
         lifeStage, lifeCallback, Life!Next, Life!Up, Life!HalfClose,
         Life!Message, Life!Down, Life!Return
<1>17. CASE runCallback
  BY <1>17
     DEF runCallback, ConnectionInv, Stages, ClosedForGood, TypeOK, lifeStage,
         lifeCallback, Life!Next, Life!Up, Life!HalfClose, Life!Message,
         Life!Down, Life!Return
<1>18. CASE runConnectDestroyed
  BY <1>18
     DEF runConnectDestroyed, ConnectionInv, Stages, ClosedForGood, TypeOK,
         lifeStage, lifeCallback, Life!Next, Life!Up, Life!HalfClose,
         Life!Message, Life!Down, Life!Return
<1>19. CASE BatchDone
  BY <1>19
     DEF BatchDone, ConnectionInv, Stages, ClosedForGood, TypeOK, lifeStage,
         lifeCallback, Life!Next, Life!Up, Life!HalfClose, Life!Message,
         Life!Down, Life!Return
<1>20. CASE destroyServer
  BY <1>20
     DEF destroyServer, ConnectionInv, Stages, ClosedForGood, TypeOK,
         lifeStage, lifeCallback, Life!Next, Life!Up, Life!HalfClose,
         Life!Message, Life!Down, Life!Return
<1>21. CASE connectDestroyed
  BY <1>21
     DEF connectDestroyed, ConnectionInv, Stages, ClosedForGood, TypeOK,
         lifeStage, lifeCallback, Life!Next, Life!Up, Life!HalfClose,
         Life!Message, Life!Down, Life!Return
<1>22. CASE userSends
  BY <1>22
     DEF userSends, ConnectionInv, Stages, ClosedForGood, TypeOK, lifeStage,
         lifeCallback, Life!Next, Life!Up, Life!HalfClose, Life!Message,
         Life!Down, Life!Return
<1>23. CASE userShutsDown
  BY <1>23
     DEF userShutsDown, ConnectionInv, Stages, ClosedForGood, TypeOK,
         lifeStage, lifeCallback, Life!Next, Life!Up, Life!HalfClose,
         Life!Message, Life!Down, Life!Return
<1>24. ASSUME NEW h \in Threads \cup {Loop}, userKeeps(h)
       PROVE  Goal
  BY <1>24
     DEF userKeeps, ConnectionInv, Stages, ClosedForGood, TypeOK, lifeStage,
         lifeCallback, Life!Next, Life!Up, Life!HalfClose, Life!Message,
         Life!Down, Life!Return
<1>25. CASE userDrops
  BY <1>25
     DEF userDrops, ConnectionInv, Stages, ClosedForGood, TypeOK, lifeStage,
         lifeCallback, Life!Next, Life!Up, Life!HalfClose, Life!Message,
         Life!Down, Life!Return
<1>26. ASSUME NEW t \in Threads, threadQueuesSend(t)
       PROVE  Goal
  BY <1>26
     DEF threadQueuesSend, ConnectionInv, Stages, ClosedForGood, TypeOK,
         lifeStage, lifeCallback, Life!Next, Life!Up, Life!HalfClose,
         Life!Message, Life!Down, Life!Return
<1>27. ASSUME NEW t \in Threads, threadSetsState(t)
       PROVE  Goal
  BY <1>27
     DEF threadSetsState, ConnectionInv, Stages, ClosedForGood, TypeOK,
         lifeStage, lifeCallback, Life!Next, Life!Up, Life!HalfClose,
         Life!Message, Life!Down, Life!Return
<1>28. ASSUME NEW t \in Threads, threadQueuesShutdown(t)
       PROVE  Goal
  BY <1>28
     DEF threadQueuesShutdown, ConnectionInv, Stages, ClosedForGood, TypeOK,
         lifeStage, lifeCallback, Life!Next, Life!Up, Life!HalfClose,
         Life!Message, Life!Down, Life!Return
<1>29. ASSUME NEW t \in Threads, threadSend(t)
       PROVE  Goal
  BY <1>29
     DEF threadSend, ConnectionInv, Stages, ClosedForGood, TypeOK, lifeStage,
         lifeCallback, Life!Next, Life!Up, Life!HalfClose, Life!Message,
         Life!Down, Life!Return
<1>30. ASSUME NEW t \in Threads, threadShutdown(t)
       PROVE  Goal
  BY <1>30
     DEF threadShutdown, ConnectionInv, Stages, ClosedForGood, TypeOK,
         lifeStage, lifeCallback, Life!Next, Life!Up, Life!HalfClose,
         Life!Message, Life!Down, Life!Return
<1>31. ASSUME NEW t \in Threads, threadDrops(t)
       PROVE  Goal
  BY <1>31
     DEF threadDrops, ConnectionInv, Stages, ClosedForGood, TypeOK, lifeStage,
         lifeCallback, Life!Next, Life!Up, Life!HalfClose, Life!Message,
         Life!Down, Life!Return
<1>32. CASE UNCHANGED vars
  BY <1>32 DEF vars, lifeStage, lifeCallback
<1> QED
  BY <1>1, <1>2, <1>3, <1>4, <1>5, <1>6, <1>7, <1>8, <1>9, <1>10, <1>11, <1>12,
     <1>13, <1>14, <1>15, <1>16, <1>17, <1>18, <1>19, <1>20, <1>21, <1>22,
     <1>23, <1>24, <1>25, <1>26, <1>27, <1>28, <1>29, <1>30, <1>31, <1>32
     DEF Next, LoopStep, handlerReturns, UserCall, ThreadStep, CallContinues
\* What nothing is promised of stays so.
LEMMA Undefined ==
  ASSUME ConnectionInv, [Next]_vars
  PROVE  /\ lateSend => lateSend'
         /\ at = "crashed" => at' = "crashed"
         /\ at' = "crashed" => at = "crashed" \/ ~alive
         /\ lateSend' =>
              lateSend \/ (alive /\ downs > 0 /\ at = "functors" /\ at' = at)

<1> DEFINE Goal ==
      /\ lateSend => lateSend'
      /\ at = "crashed" => at' = "crashed"
      /\ at' = "crashed" => at = "crashed" \/ ~alive
      /\ lateSend' =>
           lateSend \/ (alive /\ downs > 0 /\ at = "functors" /\ at' = at)
<1> USE QueueTypes DEF channelVars, queueVars, eventVars, histVars, loopSide,
        MayCall, setEvents, disableAll, removeChannel, sendInLoop,
        shutdownInLoop, UserStep, handleClose, erase, RunNext, stillConnected,
        goesDown, dropBatch, Returns, UserCode
<1>1. CASE connectEstablished
  BY <1>1 DEF connectEstablished, ConnectionInv
<1>2. CASE Returns("up", "events")
  BY <1>2 DEF ConnectionInv
<1>3. CASE Returns("message", "dispatch")
  BY <1>3 DEF ConnectionInv
<1>4. CASE Returns("completed", "functors")
  BY <1>4 DEF ConnectionInv
<1>5. CASE revents = {} /\ Returns("dispatch", "events")
  BY <1>5 DEF ConnectionInv
<1>6. ASSUME NEW ready \in SUBSET {"hup", "in", "out"},
             poll(ready)
      PROVE  Goal
  BY <1>6 DEF poll, ConnectionInv
<1>7. CASE handleEvent
  BY <1>7 DEF handleEvent, ConnectionInv
<1>8. CASE handleHup
  BY <1>8 DEF handleHup, ConnectionInv
<1>9. CASE handleRead
  BY <1>9 DEF handleRead, ConnectionInv
<1>10. CASE handleReadEof
  BY <1>10 DEF handleReadEof, ConnectionInv
<1>11. CASE handleWrite
  BY <1>11 DEF handleWrite, ConnectionInv
<1>12. CASE removeConnection
  BY <1>12 DEF removeConnection, ConnectionInv
<1>13. CASE SwapPending
  BY <1>13 DEF SwapPending, ConnectionInv
<1>14. ASSUME NEW kind \in Raw, runOnDestroyed(kind)
       PROVE  Goal
  BY <1>14 DEF runOnDestroyed, ConnectionInv
<1>15. CASE runSendInLoop
  <2>1. /\ lateSend' = (lateSend \/ batch[done + 1].late) /\ alive
        /\ at = "functors" /\ at' = at
    BY <1>15 DEF runSendInLoop, NextFunctor
  <2>2. batch[done + 1].late => closing
    <3>1. done + 1 \in 1 .. Len(batch)
      BY <1>15 DEF runSendInLoop
    <3> QED
      BY <3>1 DEF ConnectionInv, QueuedAfterClose, OfClose
  <2>3. closing => downs > 0
    BY <2>1 DEF ConnectionInv, Stages
  <2> QED
    BY <2>1, <2>2, <2>3
<1>16. CASE runShutdownInLoop
  BY <1>16 DEF runShutdownInLoop, ConnectionInv
<1>17. CASE runCallback
  BY <1>17 DEF runCallback, ConnectionInv
<1>18. CASE runConnectDestroyed
  BY <1>18, DestroyedIsDown DEF runConnectDestroyed, ConnectionInv
<1>19. CASE BatchDone
  BY <1>19 DEF BatchDone, ConnectionInv
<1>20. CASE destroyServer
  BY <1>20 DEF destroyServer, ConnectionInv
<1>21. CASE connectDestroyed
  BY <1>21 DEF connectDestroyed, ConnectionInv
<1>22. CASE userSends
  BY <1>22 DEF userSends, ConnectionInv
<1>23. CASE userShutsDown
  BY <1>23 DEF userShutsDown, ConnectionInv
<1>24. ASSUME NEW h \in Threads \cup {Loop}, userKeeps(h)
       PROVE  Goal
  BY <1>24 DEF userKeeps, ConnectionInv
<1>25. CASE userDrops
  BY <1>25 DEF userDrops, ConnectionInv
<1>26. ASSUME NEW t \in Threads, threadQueuesSend(t)
       PROVE  Goal
  BY <1>26 DEF threadQueuesSend, ConnectionInv
<1>27. ASSUME NEW t \in Threads, threadSetsState(t)
       PROVE  Goal
  BY <1>27 DEF threadSetsState, ConnectionInv
<1>28. ASSUME NEW t \in Threads, threadQueuesShutdown(t)
       PROVE  Goal
  BY <1>28 DEF threadQueuesShutdown, ConnectionInv
<1>29. ASSUME NEW t \in Threads, threadSend(t)
       PROVE  Goal
  BY <1>29 DEF threadSend, ConnectionInv
<1>30. ASSUME NEW t \in Threads, threadShutdown(t)
       PROVE  Goal
  BY <1>30 DEF threadShutdown, ConnectionInv
<1>31. ASSUME NEW t \in Threads, threadDrops(t)
       PROVE  Goal
  BY <1>31 DEF threadDrops, ConnectionInv
<1>32. CASE UNCHANGED vars
  BY <1>32 DEF vars
<1> QED
  BY <1>1, <1>2, <1>3, <1>4, <1>5, <1>6, <1>7, <1>8, <1>9, <1>10, <1>11, <1>12,
     <1>13, <1>14, <1>15, <1>16, <1>17, <1>18, <1>19, <1>20, <1>21, <1>22,
     <1>23, <1>24, <1>25, <1>26, <1>27, <1>28, <1>29, <1>30, <1>31, <1>32
     DEF Next, LoopStep, handlerReturns, UserCall, ThreadStep, CallContinues
\* Two steps close a connection for good.
LEMMA ClosesBy ==
  [Next]_vars /\ ~closing /\ closing' => removeConnection \/ destroyServer
<1> SUFFICES ASSUME [Next]_vars, ~closing, closing'
             PROVE  removeConnection \/ destroyServer
  OBVIOUS
<1> USE QueueTypes DEF channelVars, queueVars, eventVars, histVars, loopSide,
        MayCall, setEvents, disableAll, removeChannel, sendInLoop,
        shutdownInLoop, UserStep, handleClose, erase, RunNext, stillConnected,
        goesDown, dropBatch, Returns, UserCode
<1>1. CASE connectEstablished
  BY <1>1 DEF connectEstablished, ConnectionInv
<1>2. CASE Returns("up", "events")
  BY <1>2 DEF ConnectionInv
<1>3. CASE Returns("message", "dispatch")
  BY <1>3 DEF ConnectionInv
<1>4. CASE Returns("completed", "functors")
  BY <1>4 DEF ConnectionInv
<1>5. CASE revents = {} /\ Returns("dispatch", "events")
  BY <1>5 DEF ConnectionInv
<1>6. ASSUME NEW ready \in SUBSET {"hup", "in", "out"},
             poll(ready)
      PROVE  removeConnection \/ destroyServer
  BY <1>6 DEF poll, ConnectionInv
<1>7. CASE handleEvent
  BY <1>7 DEF handleEvent, ConnectionInv
<1>8. CASE handleHup
  BY <1>8 DEF handleHup, ConnectionInv
<1>9. CASE handleRead
  BY <1>9 DEF handleRead, ConnectionInv
<1>10. CASE handleReadEof
  BY <1>10 DEF handleReadEof, ConnectionInv
<1>11. CASE handleWrite
  BY <1>11 DEF handleWrite, ConnectionInv
<1>12. CASE removeConnection
  BY <1>12 DEF removeConnection, ConnectionInv
<1>13. CASE SwapPending
  BY <1>13 DEF SwapPending, ConnectionInv
<1>14. ASSUME NEW kind \in Raw, runOnDestroyed(kind)
       PROVE  removeConnection \/ destroyServer
  BY <1>14 DEF runOnDestroyed, ConnectionInv
<1>15. CASE runSendInLoop
  BY <1>15 DEF runSendInLoop, ConnectionInv
<1>16. CASE runShutdownInLoop
  BY <1>16 DEF runShutdownInLoop, ConnectionInv
<1>17. CASE runCallback
  BY <1>17 DEF runCallback, ConnectionInv
<1>18. CASE runConnectDestroyed
  BY <1>18 DEF runConnectDestroyed, ConnectionInv
<1>19. CASE BatchDone
  BY <1>19 DEF BatchDone, ConnectionInv
<1>20. CASE destroyServer
  BY <1>20 DEF destroyServer, ConnectionInv
<1>21. CASE connectDestroyed
  BY <1>21 DEF connectDestroyed, ConnectionInv
<1>22. CASE userSends
  BY <1>22 DEF userSends, ConnectionInv
<1>23. CASE userShutsDown
  BY <1>23 DEF userShutsDown, ConnectionInv
<1>24. ASSUME NEW h \in Threads \cup {Loop}, userKeeps(h)
       PROVE  removeConnection \/ destroyServer
  BY <1>24 DEF userKeeps, ConnectionInv
<1>25. CASE userDrops
  BY <1>25 DEF userDrops, ConnectionInv
<1>26. ASSUME NEW t \in Threads, threadQueuesSend(t)
       PROVE  removeConnection \/ destroyServer
  BY <1>26 DEF threadQueuesSend, ConnectionInv
<1>27. ASSUME NEW t \in Threads, threadSetsState(t)
       PROVE  removeConnection \/ destroyServer
  BY <1>27 DEF threadSetsState, ConnectionInv
<1>28. ASSUME NEW t \in Threads, threadQueuesShutdown(t)
       PROVE  removeConnection \/ destroyServer
  BY <1>28 DEF threadQueuesShutdown, ConnectionInv
<1>29. ASSUME NEW t \in Threads, threadSend(t)
       PROVE  removeConnection \/ destroyServer
  BY <1>29 DEF threadSend, ConnectionInv
<1>30. ASSUME NEW t \in Threads, threadShutdown(t)
       PROVE  removeConnection \/ destroyServer
  BY <1>30 DEF threadShutdown, ConnectionInv
<1>31. ASSUME NEW t \in Threads, threadDrops(t)
       PROVE  removeConnection \/ destroyServer
  BY <1>31 DEF threadDrops, ConnectionInv
<1>32. CASE UNCHANGED vars
  BY <1>32 DEF vars
<1> QED
  BY <1>1, <1>2, <1>3, <1>4, <1>5, <1>6, <1>7, <1>8, <1>9, <1>10, <1>11, <1>12,
     <1>13, <1>14, <1>15, <1>16, <1>17, <1>18, <1>19, <1>20, <1>21, <1>22,
     <1>23, <1>24, <1>25, <1>26, <1>27, <1>28, <1>29, <1>30, <1>31, <1>32
     DEF Next, LoopStep, handlerReturns, UserCall, ThreadStep, CallContinues

\* Every step of a connection is one of ConnectionLife, or none there.
LEMMA LifeStep == ConnectionInv /\ [Next]_vars => [Life!Next]_(Life!vars)
<1> SUFFICES ASSUME ConnectionInv, [Next]_vars
             PROVE  \/ Life!Next
                    \/ lifeStage' = lifeStage /\ lifeCallback' = lifeCallback
  BY DEF Life!vars
<1>1. ~(closing') => alive'
  <2>1. ConnectionInv'
    BY StepPreserves
  <2> QED
    BY <2>1 DEF ConnectionInv, Stages, alive
<1>2. CASE lateSend \/ at = "crashed"
  BY <1>2, Undefined DEF lifeStage, lifeCallback
<1>3. CASE ~lateSend /\ at # "crashed" /\ lateSend'
  BY <1>3, Undefined DEF lifeStage, lifeCallback, Life!Next, Life!SentLate,
                         ConnectionInv, Stages
<1>4. CASE ~lateSend /\ ~(lateSend') /\ at # "crashed" /\ at' = "crashed"
  BY <1>4, Undefined DEF lifeStage, lifeCallback, Life!Next, Life!SentLate
<1>5. CASE ~lateSend /\ ~(lateSend') /\ at # "crashed" /\ at' # "crashed"
  <2>1. CASE ~alive
    <3>1. ~(alive') /\ at \notin {"up", "message", "closing", "destroying"}
          /\ at' \notin {"up", "message", "closing", "destroying"}
      BY <2>1, GoneForGood DEF alive, OnStack
    <3> QED
      BY <1>5, <2>1, <3>1 DEF lifeStage, lifeCallback
  <2>2. CASE alive /\ alive'
    BY <1>5, <2>2, LiveStep
  <2>3. CASE alive /\ ~(alive')
    <3>1. /\ closing'
          /\ at' \notin {"accept", "up", "dispatch", "message", "closing",
                         "destroying"}
      BY <1>1, <2>3 DEF alive, OnStack
    <3>2. lifeStage' = "freed" /\ lifeCallback' = "none"
      BY <1>5, <2>3, <3>1 DEF lifeStage, lifeCallback
    <3>3. CASE closing /\ at # "up"
      <4>1. \/ lifeStage = "down"
            \/ lifeStage = "halfClosed" /\ lifeCallback = "none"
        BY <1>5, <2>3, <3>3, MayGo
           DEF lifeStage, lifeCallback, ConnectionInv, Stages
      <4> QED
        BY <3>2, <4>1 DEF Life!Next, Life!Destroy
    <3>4. CASE closing /\ at = "up"
      BY <3>4 DEF ConnectionInv, Stages
    <3>5. CASE ~closing
      <4>1. removeConnection \/ destroyServer
        BY <3>1, <3>5, ClosesBy
      <4>2. at = "out" /\ at' = "end" /\ state_ # "kConnected"
        <5>1. inMap
          BY <3>5 DEF ConnectionInv, Stages
        <5> QED
          BY <3>1, <4>1, <5>1
             DEF removeConnection, destroyServer, goesDown, stillConnected
      <4>3. downs > 0 \/ state_ = "kDisconnecting"
        BY <4>2 DEF ConnectionInv, Stages, TypeOK
      <4>4. \/ lifeStage = "down"
            \/ lifeStage = "halfClosed" /\ lifeCallback = "none"
        BY <1>5, <2>3, <4>2, <4>3 DEF lifeStage, lifeCallback
      <4> QED
        BY <3>2, <4>4 DEF Life!Next, Life!Destroy
    <3> QED
      BY <3>3, <3>4, <3>5
  <2> QED
    BY <2>1, <2>2, <2>3
<1> QED
  BY <1>2, <1>3, <1>4, <1>5

\* Every behaviour of a connection, with ~TcpServer at any time after loop()
\* and other threads between any two of their steps, is a life that
\* ConnectionLife allows (tcpconnection.cc:55-74, 113-122, 216-243).
THEOREM Implements == Spec => LifeSpec
<1>1. Init => Life!Init
  BY DEF Init, Life!Init, lifeStage, lifeCallback, alive
<1> QED
  BY <1>1, LifeStep, Invariance, PTL DEF Spec, LifeSpec, Life!Spec

===============================================================================
