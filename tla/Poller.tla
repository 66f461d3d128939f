-------------------------------- MODULE Poller --------------------------------
(***************************************************************************)
(* The channels of one loop and its EpollPoller (channel.h, channel.cc,    *)
(* epollpoller.cc): what a channel caches of its registration, the map     *)
(* from descriptors to channels, the kernel's interest list, and the list  *)
(* of active channels that poll fills and loop() walks while handlers and  *)
(* functors change registrations.  Everything runs on the loop thread.     *)
(*                                                                         *)
(* The owners of channels (TcpConnection, Acceptor, EventLoop) are         *)
(* reduced to the calls they make.  They destroy a channel only after      *)
(* remove(), they do not use it after remove(), and remove() runs either   *)
(* outside loop() or in a functor, because removeConnectionInLoop queues   *)
(* connectDestroyed.                                                       *)
(***************************************************************************)
EXTENDS Integers, FiniteSets

CONSTANTS
  Channels,  \* Channel objects
  Fds,       \* descriptors; the kernel gives a closed one out again
  Null

ASSUME PollerAssumption == Null \notin Channels

VARIABLES
  life,             \* for each channel: "unborn", "live" or "dead"
  removed,          \* for each channel: remove() has been called
  fd_, events_, index_,
  channels_,        \* the map; Null where it has no key
  ptr,              \* epoll's entry of a descriptor: data.ptr, Null if none
  mask,             \* ... and its events
  activeChannels_,  \* active channels whose handler has yet to start
  current,          \* the channel whose handler runs
  phase,            \* of loop(); "out" outside it
  exited            \* LOG_FATAL has ended the process

objectVars == <<life, removed, fd_>>
registrationVars == <<events_, index_, channels_, ptr, mask, exited>>
loopVars == <<activeChannels_, current, phase>>
vars == <<objectVars, registrationVars, loopVars>>

KReadEvent == {"in"}
KWriteEvent == {"out"}
KNoneEvent == {}
Events == KReadEvent \cup KWriteEvent

kNew == -1
kAdded == 1
kDeleted == 2

Live(c) == life[c] = "live"
OpenFds == {fd_[c] : c \in {d \in Channels : Live(d)}}

TypeOK ==
  /\ life \in [Channels -> {"unborn", "live", "dead"}]
  /\ removed \in [Channels -> BOOLEAN]
  /\ fd_ \in [Channels -> Fds]
  /\ events_ \in [Channels -> SUBSET Events]
  /\ index_ \in [Channels -> {kNew, kAdded}]
  /\ channels_ \in [Fds -> Channels \cup {Null}]
  /\ ptr \in [Fds -> Channels \cup {Null}]
  /\ mask \in [Fds -> SUBSET Events]
  /\ activeChannels_ \subseteq Channels
  /\ current \in Channels \cup {Null}
  /\ phase \in {"out", "poll", "events", "functors"}
  /\ exited \in BOOLEAN

Init ==
  /\ life = [c \in Channels |-> "unborn"]
  /\ removed = [c \in Channels |-> FALSE]
  /\ fd_ \in [Channels -> Fds]
  /\ events_ = [c \in Channels |-> KNoneEvent]
  /\ index_ = [c \in Channels |-> kNew]
  /\ channels_ = [f \in Fds |-> Null]
  /\ ptr = [f \in Fds |-> Null]
  /\ mask = [f \in Fds |-> KNoneEvent]
  /\ activeChannels_ = {}
  /\ current = Null
  /\ phase = "out"
  /\ exited = FALSE

-----------------------------------------------------------------------------
(* epoll_ctl, on the entry of descriptor f.                                *)

\* EPOLL_CTL_ADD: EEXIST if there is an entry, which update() makes fatal.
epollAdd(f, c, ev) ==
  IF ptr[f] = Null
  THEN /\ ptr' = [ptr EXCEPT ![f] = c]
       /\ mask' = [mask EXCEPT ![f] = ev]
       /\ UNCHANGED exited
  ELSE /\ exited' = TRUE
       /\ UNCHANGED <<ptr, mask>>

\* EPOLL_CTL_MOD: ENOENT if there is none, which update() makes fatal.
epollMod(f, c, ev) ==
  IF ptr[f] # Null
  THEN /\ ptr' = [ptr EXCEPT ![f] = c]
       /\ mask' = [mask EXCEPT ![f] = ev]
       /\ UNCHANGED exited
  ELSE /\ exited' = TRUE
       /\ UNCHANGED <<ptr, mask>>

\* EPOLL_CTL_DEL, whose failure is only logged; close() does the same.
epollDel(f) ==
  /\ ptr' = [ptr EXCEPT ![f] = Null]
  /\ mask' = [mask EXCEPT ![f] = KNoneEvent]
  /\ UNCHANGED exited

-----------------------------------------------------------------------------
(* The poller.                                                             *)

\* Mutant: the index of a channel that lost its last event stays kAdded.
keepsIndex(c) == UNCHANGED index_
forgetsIndex(c) == index_' = [index_ EXCEPT ![c] = kNew]

\* updateChannel, called by a channel whose events become ev.  No statement
\* gives index_ the value kDeleted, which it tests for all the same.
updateChannel(c, ev) ==
  \/ /\ index_[c] \in {kNew, kDeleted}
     /\ IF index_[c] = kNew
        THEN channels_' = [channels_ EXCEPT ![fd_[c]] = c]
        ELSE UNCHANGED channels_
     /\ index_' = [index_ EXCEPT ![c] = kAdded]
     /\ epollAdd(fd_[c], c, ev)
  \/ /\ index_[c] \notin {kNew, kDeleted}
     /\ ev = KNoneEvent
     /\ forgetsIndex(c)
     /\ epollDel(fd_[c])
     /\ UNCHANGED channels_
  \/ /\ index_[c] \notin {kNew, kDeleted}
     /\ ev # KNoneEvent
     /\ epollMod(fd_[c], c, ev)
     /\ UNCHANGED <<channels_, index_>>

unregister(c) ==
  IF index_[c] = kAdded
  THEN epollDel(fd_[c])
  ELSE UNCHANGED <<ptr, mask, exited>>

\* Mutant: the channel stays in the map.
keepsEntry(c) == UNCHANGED channels_
erase(c) == channels_' = [channels_ EXCEPT ![fd_[c]] = Null]

removeChannel(c) ==
  /\ erase(c)
  /\ unregister(c)
  /\ index_' = [index_ EXCEPT ![c] = kNew]

-----------------------------------------------------------------------------
(* Calls of the owners, in a handler, in a functor, or outside loop().     *)

InUserCode == ~exited /\ (phase \in {"out", "functors"} \/ current # Null)

InUse(c) == InUserCode /\ Live(c) /\ ~removed[c]

\* The constructor, for a descriptor just opened.
Create(c, f) ==
  /\ InUserCode
  /\ life[c] = "unborn"
  /\ f \notin OpenFds
  /\ life' = [life EXCEPT ![c] = "live"]
  /\ fd_' = [fd_ EXCEPT ![c] = f]
  /\ UNCHANGED <<removed, registrationVars, loopVars>>

SetEvents(c, ev) ==
  /\ InUse(c)
  /\ events_' = [events_ EXCEPT ![c] = ev]
  /\ updateChannel(c, ev)
  /\ UNCHANGED <<objectVars, loopVars>>

enableReading(c) == SetEvents(c, events_[c] \cup KReadEvent)
disableReading(c) == SetEvents(c, events_[c] \ KReadEvent)
enableWriting(c) == SetEvents(c, events_[c] \cup KWriteEvent)
disableWriting(c) == SetEvents(c, events_[c] \ KWriteEvent)
disableAll(c) == SetEvents(c, KNoneEvent)

\* Mutant: removeConnectionInLoop calls connectDestroyed at once.
removesAtOnce(c) == InUse(c)
mayRemove(c) == InUse(c) /\ phase # "events"

remove(c) ==
  /\ mayRemove(c)
  /\ removeChannel(c)
  /\ removed' = [removed EXCEPT ![c] = TRUE]
  /\ UNCHANGED <<life, fd_, events_, loopVars>>

\* The owner's destructor: the channel goes, then close() on its descriptor.
Destroy(c) ==
  /\ InUserCode
  /\ Live(c)
  /\ removed[c]
  /\ life' = [life EXCEPT ![c] = "dead"]
  /\ epollDel(fd_[c])
  /\ UNCHANGED <<removed, fd_, events_, index_, channels_, loopVars>>

-----------------------------------------------------------------------------
(* loop().                                                                 *)

StartLoop ==
  /\ ~exited
  /\ phase = "out"
  /\ phase' = "poll"
  /\ UNCHANGED <<objectVars, registrationVars, activeChannels_, current>>

\* The channels poll may report: every entry can report EPOLLERR and
\* EPOLLHUP, whatever its mask.
Reportable == {ptr[f] : f \in Fds} \ {Null}

\* epoll_wait and fillActiveChannel; "ready" is empty after a timeout.
poll(ready) ==
  /\ phase = "poll"
  /\ activeChannels_' = ready
  /\ phase' = "events"
  /\ UNCHANGED <<objectVars, registrationVars, current>>

HandleEvent(c) ==
  /\ ~exited
  /\ phase = "events"
  /\ current = Null
  /\ c \in activeChannels_
  /\ current' = c
  /\ activeChannels_' = activeChannels_ \ {c}
  /\ UNCHANGED <<objectVars, registrationVars, phase>>

HandlerReturns ==
  /\ ~exited
  /\ current # Null
  /\ current' = Null
  /\ UNCHANGED <<objectVars, registrationVars, activeChannels_, phase>>

RunFunctors ==
  /\ ~exited
  /\ phase = "events"
  /\ current = Null
  /\ activeChannels_ = {}
  /\ phase' = "functors"
  /\ UNCHANGED <<objectVars, registrationVars, activeChannels_, current>>

\* The end of an iteration: the while goes on, or quit_ is set.
EndIteration ==
  /\ ~exited
  /\ phase = "functors"
  /\ phase' \in {"poll", "out"}
  /\ UNCHANGED <<objectVars, registrationVars, activeChannels_, current>>

Use(c) ==
  \/ \E f \in Fds : Create(c, f)
  \/ enableReading(c)
  \/ disableReading(c)
  \/ enableWriting(c)
  \/ disableWriting(c)
  \/ disableAll(c)
  \/ remove(c)
  \/ Destroy(c)

Next ==
  \/ \E c \in Channels : Use(c)
  \/ \E c \in Channels : HandleEvent(c)
  \/ StartLoop
  \/ \E ready \in SUBSET Reportable : poll(ready)
  \/ HandlerReturns
  \/ RunFunctors
  \/ EndIteration

Spec == Init /\ [][Next]_vars

-----------------------------------------------------------------------------
(* Properties.                                                             *)

\* What a live channel caches in index_ and events_ is what the kernel has:
\* it is kAdded exactly when the entry of its descriptor is its own, with
\* its events, through any sequence of enable, disable, disableAll, remove,
\* close and reuse of the descriptor; and what the kernel has, hasChannel
\* finds in the map (epollpoller.cc:68-107, 117-136, poller.cc:11-15).
KernelAgrees ==
  /\ \A c \in Channels : Live(c) =>
       /\ index_[c] = kAdded <=> ptr[fd_[c]] = c
       /\ index_[c] = kAdded => mask[fd_[c]] = events_[c]
  /\ \A f \in Fds : ptr[f] # Null => channels_[f] = ptr[f]

\* epoll_ctl never fails with EEXIST or ENOENT, so update() never ends the
\* process, also when a descriptor closed by one channel is given to another
\* (epollpoller.cc:125-134).
NeverFatal == ~exited

\* Neither the kernel nor the active list nor the map holds a pointer to a
\* destroyed channel, although handlers and functors remove and destroy
\* channels while loop() walks the list (eventloop.cc:72-78,
\* epollpoller.cc:108-116, tcpserver.cc:97-105).
NoDanglingPointer ==
  /\ \A c \in activeChannels_ \cup {current} : c # Null => Live(c)
  /\ \A f \in Fds :
       \A c \in {ptr[f], channels_[f]} : c # Null => Live(c)

\* The strengthening that makes these inductive.
Descriptors ==
  \A c, d \in Channels : Live(c) /\ Live(d) /\ fd_[c] = fd_[d] => c = d

MapEntries ==
  \A f \in Fds : channels_[f] # Null =>
    /\ Live(channels_[f])
    /\ fd_[channels_[f]] = f

KernelEntries ==
  \A f \in Fds : ptr[f] # Null =>
    /\ Live(ptr[f])
    /\ fd_[ptr[f]] = f
    /\ index_[ptr[f]] = kAdded
    /\ mask[f] = events_[ptr[f]]
    /\ channels_[f] = ptr[f]

Indices ==
  \A c \in Channels :
    /\ index_[c] = kAdded => Live(c) /\ ptr[fd_[c]] = c
    /\ life[c] = "unborn" => ~removed[c]
    /\ removed[c] => index_[c] = kNew

RemovedUnmapped ==
  \A c \in Channels, f \in Fds : removed[c] => channels_[f] # c

Walk ==
  /\ phase # "events" => activeChannels_ = {} /\ current = Null
  /\ \A c \in activeChannels_ \cup {current} : c # Null =>
       /\ Live(c)
       /\ ~removed[c]
       /\ channels_[fd_[c]] = c

\* Channels, the map, the kernel and the walk over the active channels agree
\* between any two calls of their owners, however descriptors are used again
\* (epollpoller.cc:35-138, channel.cc:29-100, eventloop.cc:67-78).
PollerInv ==
  /\ TypeOK
  /\ Descriptors
  /\ MapEntries
  /\ KernelEntries
  /\ Indices
  /\ RemovedUnmapped
  /\ Walk
  /\ ~exited

\* A handler only starts on a channel that has not been removed since poll
\* reported it (eventloop.cc:72-75).
HandlesOnlyRegistered ==
  [][\A c \in Channels : HandleEvent(c) => channels_[fd_[c]] = c]_vars
==============================================================================
