----------------------------- MODULE PollerProofs -----------------------------
(***************************************************************************)
(* Proofs about Poller for every set of channels and descriptors.          *)
(***************************************************************************)
EXTENDS Poller, TLAPS

\* A poller without channels satisfies the invariant.
LEMMA InitEstablishes == Init => PollerInv
<1> SUFFICES ASSUME Init
             PROVE  PollerInv
  OBVIOUS
<1> USE PollerAssumption DEF Init, kNew, kAdded, KNoneEvent
<1>1. TypeOK
  BY DEF TypeOK
<1>2. \A c \in Channels : ~Live(c) /\ ~removed[c] /\ index_[c] # kAdded
  BY DEF Live
<1>3. \A f \in Fds : channels_[f] = Null /\ ptr[f] = Null
  OBVIOUS
<1>4. Walk /\ ~exited
  BY DEF Walk
<1> QED
  BY <1>1, <1>2, <1>3, <1>4
     DEF PollerInv, Descriptors, MapEntries, KernelEntries, Indices,
         RemovedUnmapped

\* A change of the events of a channel in use: the index of the channel
\* selects the epoll_ctl operation that succeeds.
LEMMA SetEventsPreserves ==
  ASSUME PollerInv, NEW c \in Channels, NEW ev \in SUBSET Events,
         SetEvents(c, ev)
  PROVE  PollerInv'
<1> USE PollerAssumption
        DEF PollerInv, SetEvents, InUse, Live, kNew, kAdded, kDeleted,
            objectVars, loopVars
<1>1. /\ UNCHANGED <<life, removed, fd_, activeChannels_, current, phase>>
      /\ events_' = [events_ EXCEPT ![c] = ev]
      /\ life[c] = "live" /\ ~removed[c]
  OBVIOUS
<1>2. TypeOK
  OBVIOUS
<1>3. fd_[c] \in Fds
  BY <1>2 DEF TypeOK
<1>4. CASE index_[c] = kNew
  <2>1. ptr[fd_[c]] = Null
    BY <1>2, <1>3, <1>4 DEF TypeOK, KernelEntries, Descriptors
  <2>2. /\ channels_' = [channels_ EXCEPT ![fd_[c]] = c]
        /\ index_' = [index_ EXCEPT ![c] = kAdded]
        /\ ptr' = [ptr EXCEPT ![fd_[c]] = c]
        /\ mask' = [mask EXCEPT ![fd_[c]] = ev]
        /\ exited' = exited
    BY <1>4, <2>1 DEF updateChannel, epollAdd
  <2>3. TypeOK'
    BY <1>1, <1>2, <2>2 DEF TypeOK
  <2>4. Descriptors' /\ MapEntries'
    BY <1>1, <1>2, <1>3, <2>2 DEF TypeOK, Descriptors, MapEntries
  <2>5. KernelEntries'
    BY <1>1, <1>2, <1>3, <2>2 DEF TypeOK, Descriptors, KernelEntries
  <2>6. Indices' /\ RemovedUnmapped'
    BY <1>1, <1>2, <1>3, <2>2
       DEF TypeOK, Descriptors, Indices, RemovedUnmapped
  <2>7. Walk'
    BY <1>1, <1>2, <1>3, <2>2 DEF TypeOK, Descriptors, Walk
  <2> QED
    BY <2>2, <2>3, <2>4, <2>5, <2>6, <2>7
<1>5. CASE index_[c] = kAdded /\ ev = KNoneEvent
  <2>2. /\ channels_' = channels_
        /\ index_' = [index_ EXCEPT ![c] = kNew]
        /\ ptr' = [ptr EXCEPT ![fd_[c]] = Null]
        /\ mask' = [mask EXCEPT ![fd_[c]] = KNoneEvent]
        /\ exited' = exited
    BY <1>5 DEF updateChannel, epollDel, forgetsIndex
  <2>3. TypeOK'
    BY <1>1, <1>2, <2>2 DEF TypeOK, KNoneEvent
  <2>4. Descriptors' /\ MapEntries'
    BY <1>1, <2>2 DEF Descriptors, MapEntries
  <2>5. KernelEntries'
    BY <1>1, <1>2, <1>3, <2>2 DEF TypeOK, Descriptors, KernelEntries
  <2>6. Indices' /\ RemovedUnmapped'
    BY <1>1, <1>2, <1>3, <2>2
       DEF TypeOK, Descriptors, Indices, RemovedUnmapped
  <2>7. Walk'
    BY <1>1, <2>2 DEF Walk
  <2> QED
    BY <2>2, <2>3, <2>4, <2>5, <2>6, <2>7
<1>6. CASE index_[c] = kAdded /\ ev # KNoneEvent
  <2>1. ptr[fd_[c]] = c
    BY <1>6 DEF Indices
  <2>2. /\ UNCHANGED <<channels_, index_, exited, ptr>>
        /\ mask' = [mask EXCEPT ![fd_[c]] = ev]
    BY <1>2, <1>3, <1>6, <2>1 DEF updateChannel, epollMod, TypeOK
  <2>3. TypeOK'
    BY <1>1, <1>2, <2>2 DEF TypeOK
  <2>4. Descriptors' /\ MapEntries' /\ Indices' /\ RemovedUnmapped' /\ Walk'
    BY <1>1, <2>2 DEF Descriptors, MapEntries, Indices, RemovedUnmapped, Walk
  <2>5. KernelEntries'
    BY <1>1, <1>2, <1>3, <2>1, <2>2 DEF TypeOK, KernelEntries
  <2> QED
    BY <2>2, <2>3, <2>4, <2>5
<1> QED
  BY <1>2, <1>4, <1>5, <1>6 DEF TypeOK

\* remove() of a channel outside the walk.
LEMMA RemovePreserves ==
  ASSUME PollerInv, NEW c \in Channels, remove(c)
  PROVE  PollerInv'
<1> USE PollerAssumption
        DEF PollerInv, remove, mayRemove, InUse, removeChannel, erase, Live,
            kNew, kAdded, loopVars
<1>1. /\ UNCHANGED <<life, fd_, events_, activeChannels_, current, phase>>
      /\ channels_' = [channels_ EXCEPT ![fd_[c]] = Null]
      /\ index_' = [index_ EXCEPT ![c] = kNew]
      /\ removed' = [removed EXCEPT ![c] = TRUE]
      /\ life[c] = "live" /\ phase # "events"
  OBVIOUS
<1>2. TypeOK
  OBVIOUS
<1>3. fd_[c] \in Fds
  BY <1>2 DEF TypeOK
<1>4. /\ ptr' = [ptr EXCEPT ![fd_[c]] = Null]
      /\ mask' = [mask EXCEPT ![fd_[c]] = KNoneEvent]
        \/ UNCHANGED mask
      /\ exited' = exited
  <2>1. CASE index_[c] = kAdded
    BY <2>1 DEF unregister, epollDel
  <2>2. CASE index_[c] # kAdded
    <3>1. ptr[fd_[c]] = Null
      BY <1>1, <1>2, <1>3, <2>2 DEF TypeOK, KernelEntries, Descriptors
    <3> QED
      BY <1>2, <1>3, <2>2, <3>1 DEF unregister, TypeOK
  <2> QED
    BY <2>1, <2>2
<1>5. TypeOK'
  BY <1>1, <1>2, <1>4 DEF TypeOK, KNoneEvent
<1>6. Descriptors' /\ MapEntries'
  BY <1>1, <1>2, <1>3 DEF TypeOK, Descriptors, MapEntries
<1>7. KernelEntries'
  BY <1>1, <1>2, <1>3, <1>4 DEF TypeOK, Descriptors, KernelEntries
<1>8. Indices'
  BY <1>1, <1>2, <1>3, <1>4 DEF TypeOK, Descriptors, Indices
<1>9. RemovedUnmapped'
  BY <1>1, <1>2, <1>3 DEF TypeOK, MapEntries, RemovedUnmapped
<1>10. Walk'
  BY <1>1 DEF Walk
<1> QED
  BY <1>4, <1>5, <1>6, <1>7, <1>8, <1>9, <1>10

\* The destruction of a removed channel, and close() of its descriptor.
LEMMA DestroyPreserves ==
  ASSUME PollerInv, NEW c \in Channels, Destroy(c)
  PROVE  PollerInv'
<1> USE PollerAssumption
        DEF PollerInv, Destroy, epollDel, Live, kNew, kAdded, loopVars
<1>1. TypeOK
  OBVIOUS
<1>2. fd_[c] \in Fds
  BY <1>1 DEF TypeOK
<1>3. TypeOK'
  BY <1>1 DEF TypeOK, KNoneEvent
<1>4. Descriptors'
  BY <1>1 DEF TypeOK, Descriptors
<1>5. MapEntries' /\ RemovedUnmapped'
  BY <1>1 DEF TypeOK, MapEntries, RemovedUnmapped
<1>6. KernelEntries'
  BY <1>1, <1>2 DEF TypeOK, KernelEntries
<1>7. Indices'
  BY <1>1, <1>2 DEF TypeOK, Descriptors, Indices
<1>8. Walk'
  BY <1>1 DEF TypeOK, Walk
<1> QED
  BY <1>3, <1>4, <1>5, <1>6, <1>7, <1>8

\* The construction of a channel on a descriptor nobody has open.
LEMMA CreatePreserves ==
  ASSUME PollerInv, NEW c \in Channels, NEW f \in Fds, Create(c, f)
  PROVE  PollerInv'
<1> USE PollerAssumption
        DEF PollerInv, Create, registrationVars, Live, kNew, kAdded, loopVars
<1>1. TypeOK
  OBVIOUS
<1>2. \A d \in Channels : life[d] = "live" => fd_[d] # f
  BY DEF OpenFds
<1>3. TypeOK'
  BY <1>1 DEF TypeOK
<1>4. Descriptors'
  BY <1>1, <1>2 DEF TypeOK, Descriptors
<1>5. MapEntries' /\ RemovedUnmapped'
  BY <1>1 DEF TypeOK, MapEntries, RemovedUnmapped
<1>6. KernelEntries'
  BY <1>1 DEF TypeOK, KernelEntries
<1>7. Indices'
  BY <1>1 DEF TypeOK, Indices
<1>8. Walk'
  BY <1>1 DEF TypeOK, Walk
<1> QED
  BY <1>3, <1>4, <1>5, <1>6, <1>7, <1>8

\* Every operation on a channel, and every step of poll() and of the walk over
\* activeChannels_, keeps the invariant.
LEMMA StepPreserves == PollerInv /\ [Next]_vars => PollerInv'
<1> SUFFICES ASSUME PollerInv, [Next]_vars
             PROVE  PollerInv'
  OBVIOUS
<1>1. ASSUME NEW c \in Channels, Use(c)
      PROVE  PollerInv'
  <2>1. events_[c] \in SUBSET Events
    BY <1>1 DEF PollerInv, TypeOK
  <2>2. ASSUME NEW ev \in SUBSET Events, SetEvents(c, ev)
        PROVE  PollerInv'
    BY <1>1, <2>2, SetEventsPreserves
  <2>3. /\ events_[c] \cup KReadEvent \in SUBSET Events
        /\ events_[c] \ KReadEvent \in SUBSET Events
        /\ events_[c] \cup KWriteEvent \in SUBSET Events
        /\ events_[c] \ KWriteEvent \in SUBSET Events
        /\ KNoneEvent \in SUBSET Events
    BY <2>1 DEF Events, KNoneEvent
  <2> QED
    BY <1>1, <2>2, <2>3, CreatePreserves, RemovePreserves, DestroyPreserves
       DEF Use, enableReading, disableReading, enableWriting, disableWriting,
           disableAll
<1> USE PollerAssumption
        DEF PollerInv, TypeOK, Descriptors, MapEntries, KernelEntries, Indices,
            RemovedUnmapped, Walk, Live, objectVars, registrationVars
<1>2. ASSUME NEW c \in Channels, HandleEvent(c)
      PROVE  PollerInv'
  BY <1>2 DEF HandleEvent
<1>3. CASE StartLoop
  BY <1>3 DEF StartLoop
<1>4. ASSUME NEW ready \in SUBSET Reportable, poll(ready)
      PROVE  PollerInv'
  <2>1. \A c \in ready : /\ c \in Channels
                         /\ life[c] = "live"
                         /\ ~removed[c]
                         /\ channels_[fd_[c]] = c
    BY <1>4 DEF Reportable, kNew, kAdded
  <2> QED
    BY <1>4, <2>1 DEF poll
<1>5. CASE HandlerReturns
  BY <1>5 DEF HandlerReturns
<1>6. CASE RunFunctors
  BY <1>6 DEF RunFunctors
<1>7. CASE EndIteration
  BY <1>7 DEF EndIteration
<1>8. CASE UNCHANGED vars
  BY <1>8 DEF vars, loopVars
<1> QED
  BY <1>1, <1>2, <1>3, <1>4, <1>5, <1>6, <1>7, <1>8 DEF Next

\* PollerInv holds in every reachable state, for any channels and descriptors
\* (epollpoller.cc:35-138).
THEOREM Invariance == Spec => []PollerInv
<1> QED
  BY InitEstablishes, StepPreserves, PTL DEF Spec

\* Every variable of the poller keeps its type.
THEOREM TypeCorrect == Spec => []TypeOK
<1>1. PollerInv => TypeOK
  BY DEF PollerInv
<1> QED
  BY <1>1, Invariance, PTL

\* index_ and events_ of a live channel agree with the kernel's entry, which
\* the map has as well.
THEOREM CacheAgrees == Spec => []KernelAgrees
<1>1. PollerInv => KernelAgrees
  BY PollerAssumption
     DEF PollerInv, TypeOK, KernelEntries, Indices, KernelAgrees, Live
<1> QED
  BY <1>1, Invariance, PTL

\* epoll_ctl never makes update() end the process.
THEOREM EpollCtlSucceeds == Spec => []NeverFatal
<1>1. PollerInv => NeverFatal
  BY DEF PollerInv, NeverFatal
<1> QED
  BY <1>1, Invariance, PTL

\* No pointer to a destroyed channel is left behind.
THEOREM PointersValid == Spec => []NoDanglingPointer
<1>1. PollerInv => NoDanglingPointer
  BY DEF PollerInv, MapEntries, KernelEntries, Walk, NoDanglingPointer
<1> QED
  BY <1>1, Invariance, PTL

\* Handlers start on channels that are still in the map.
THEOREM HandlersKnown == Spec => HandlesOnlyRegistered
<1>1. PollerInv =>
        \A c \in Channels : HandleEvent(c) => channels_[fd_[c]] = c
  BY PollerAssumption DEF PollerInv, Walk, HandleEvent
<1> QED
  BY <1>1, Invariance, PTL DEF HandlesOnlyRegistered
==============================================================================
