-------------------------------- MODULE Server --------------------------------
(***************************************************************************)
(* A TcpServer without pool threads (tcpserver.cc) with its Acceptor       *)
(* (acceptor.cc), the descriptors and the connections it hands out, on the *)
(* base loop.  It composes with Poller: the channels of the acceptor and   *)
(* of the connections are channels of that module, whose variables are     *)
(* shared here, and their owners' rules are not assumed but checked, as    *)
(* PollerSpec.  A connection is its channel; its life seen from inside is  *)
(* in Connection.                                                          *)
(***************************************************************************)
EXTENDS Integers, FiniteSets

CONSTANTS
  MaxConns,    \* bound: TcpConnection objects
  Fds,         \* descriptors the process may have
  Null,
  MaxBacklog   \* peers the kernel keeps waiting

ASSUME ServerAssumption ==
  /\ {MaxConns, MaxBacklog} \subseteq Nat
  /\ Fds \subseteq Nat /\ Fds # {}
  /\ Null \notin Nat

\* The acceptor's channel, and the connections'.
Listener == 0
Conns == 1 .. MaxConns
Channels == {Listener} \cup Conns

VARIABLES
  life, removed, fd_, events_, index_, channels_, ptr, mask,
  activeChannels_, current, phase, exited,  \* see Poller
  server,           \* how far its life has come
  backlog,          \* peers that wait to be accepted
  nextConnId_,
  name_,            \* of each connection: the number in it
  connectionMap_,   \* from names to connections; Null where it has no key
  state_,           \* of each connection
  call,             \* the function or user callback the thread is in
  arg,              \* ... and the connection it is about, Null if none
  pendingFunctor_,  \* connections whose connectDestroyed is queued
  batch, ran,       \* of doPendingFunctors' vector: to be run, already run
  held              \* connections user code keeps a shared_ptr to

P == INSTANCE Poller

objectVars == <<life, removed, fd_>>
registrationVars == <<events_, index_, channels_, ptr, mask, exited>>
loopVars == <<activeChannels_, current, phase>>
pollerVars == <<objectVars, registrationVars, loopVars>>
tableVars == <<nextConnId_, name_, connectionMap_>>
queueVars == <<pendingFunctor_, batch, ran>>
vars == <<pollerVars, server, backlog, tableVars, state_, call, arg, queueVars,
          held>>

Names == 1 .. MaxConns
UserCallbacks == {"up", "message", "down", "destroyed"}

TypeOK ==
  /\ P!TypeOK
  /\ server \in {"none", "built", "listening", "destroying", "disabled",
                 "removed", "gone"}
  /\ backlog \in 0 .. MaxBacklog
  /\ nextConnId_ \in 1 .. MaxConns + 1
  /\ name_ \in [Conns -> Names]
  /\ connectionMap_ \in [Names -> Conns \cup {Null}]
  /\ state_ \in [Conns -> {"kConnecting", "kConnected", "kDisconnecting",
                           "kDisconnected"}]
  /\ call \in UserCallbacks \cup {"none", "accepted"}
  /\ arg \in Conns \cup {Null}
  /\ pendingFunctor_ \cup batch \cup ran \cup held \subseteq Conns

Init ==
  /\ P!Init
  /\ fd_ = [c \in Channels |-> CHOOSE f \in Fds : TRUE]
  /\ server = "none"
  /\ backlog = 0
  /\ nextConnId_ = 1
  /\ name_ = [c \in Conns |-> 1]
  /\ connectionMap_ = [n \in Names |-> Null]
  /\ state_ = [c \in Conns |-> "kConnecting"]
  /\ call = "none" /\ arg = Null
  /\ pendingFunctor_ = {} /\ batch = {} /\ ran = {}
  /\ held = {}

-----------------------------------------------------------------------------
(* Objects and descriptors.                                                *)

Live(c) == life[c] = "live"
Mapped(c) == connectionMap_[name_[c]] = c

\* Who holds a shared_ptr: the map, functors, the callback or the handler
\* that runs, user code.
Referenced(c) ==
  \/ Mapped(c)
  \/ c \in pendingFunctor_ \cup batch \cup ran \cup held
  \/ c \in {arg, current}

\* The last shared_ptr takes the object with it, before anything else runs.
Settled == \A c \in Conns : Live(c) => Referenced(c)
Running == ~exited /\ Settled

\* The kernel hands out the lowest descriptor that is free.
FreeFds == Fds \ P!OpenFds
Lowest(f) == f \in FreeFds /\ \A g \in FreeFds : f <= g

opens(c, f) ==
  /\ life' = [life EXCEPT ![c] = "live"]
  /\ fd_' = [fd_ EXCEPT ![c] = f]
  /\ UNCHANGED <<removed, registrationVars>>

\* ~TcpConnection and ~Acceptor: the channel goes, and ~Socket closes.
closes(c) ==
  /\ life' = [life EXCEPT ![c] = "dead"]
  /\ P!epollDel(fd_[c])
  /\ UNCHANGED <<removed, fd_, events_, index_, channels_>>

setEvents(c, ev) ==
  /\ events_' = [events_ EXCEPT ![c] = ev]
  /\ P!updateChannel(c, ev)
  /\ UNCHANGED objectVars

disableAll(c) == setEvents(c, P!KNoneEvent)

removeChannel(c) ==
  /\ P!removeChannel(c)
  /\ removed' = [removed EXCEPT ![c] = TRUE]
  /\ UNCHANGED <<life, fd_, events_>>

noChannel == UNCHANGED <<objectVars, registrationVars>>

Release(c) ==
  /\ ~exited
  /\ Live(c) /\ ~Referenced(c)
  /\ closes(c)
  /\ UNCHANGED <<loopVars, server, backlog, tableVars, state_, call, arg,
                 queueVars, held>>

-----------------------------------------------------------------------------
(* The thread that owns the server, outside loop().                        *)

Outside == Running /\ phase = "out" /\ call = "none"
InDestructor == server \in {"destroying", "disabled", "removed"}

serverOnly == UNCHANGED <<loopVars, backlog, tableVars, state_, call, arg,
                          queueVars, held>>

\* The constructor, which creates and binds the acceptor's socket.
TcpServer ==
  /\ Outside
  /\ server = "none"
  /\ server' = "built"
  /\ \E f \in Fds : Lowest(f) /\ opens(Listener, f)
  /\ serverOnly

\* start() in the loop's own thread: Acceptor::listen at once.
start ==
  /\ Outside
  /\ server = "built"
  /\ server' = "listening"
  /\ setEvents(Listener, events_[Listener] \cup P!KReadEvent)
  /\ serverOnly

\* Mutant: connectDestroyed removes only channels of connected connections.
skipsChannel(c) == noChannel
onlyRemoves(c) == removeChannel(c)

\* Mutant: the test of connectDestroyed is about the wrong state.
isGoing(c) == state_[c] = "kDisconnecting"
isUp(c) == state_[c] = "kConnected"

\* ~TcpServer: connectDestroyed for one connection of the map after another,
\* which does more to one that is connected (see connectDestroyed below),
destroyConnection(c) ==
  /\ Outside
  /\ server \in {"built", "listening", "destroying"}
  /\ Mapped(c)
  /\ server' = "destroying"
  /\ connectionMap_' = [connectionMap_ EXCEPT ![name_[c]] = Null]
  /\ IF isUp(c)
     THEN /\ state_' = [state_ EXCEPT ![c] = "kDisconnected"]
          /\ disableAll(c)
          /\ call' = "destroyed" /\ arg' = c
     ELSE onlyRemoves(c) /\ UNCHANGED <<state_, call, arg>>
  /\ UNCHANGED <<loopVars, backlog, nextConnId_, name_, queueVars, held>>

\* then ~Acceptor: disableAll, remove, and the sockets that wait are closed
\* with its own.
destroyAcceptor ==
  /\ Outside
  /\ \/ /\ server \in {"built", "listening", "destroying"}
        /\ \A n \in Names : connectionMap_[n] = Null
        /\ server' = "disabled"
        /\ disableAll(Listener)
        /\ UNCHANGED backlog
     \/ /\ server = "disabled"
        /\ server' = "removed"
        /\ removeChannel(Listener)
        /\ UNCHANGED backlog
     \/ /\ server = "removed"
        /\ server' = "gone"
        /\ closes(Listener)
        /\ backlog' = 0
  /\ UNCHANGED <<loopVars, tableVars, state_, call, arg, queueVars, held>>

-----------------------------------------------------------------------------
(* Peers, as the kernel lets the process see them.                         *)

Unborn == {c \in Conns : life[c] = "unborn"}

PeerConnects ==
  /\ server = "listening"
  /\ backlog < MaxBacklog
  /\ backlog < Cardinality(Unborn)
  /\ backlog' = backlog + 1
  /\ UNCHANGED <<pollerVars, server, tableVars, state_, call, arg, queueVars,
                 held>>

\* It gives up before it is accepted.
PeerAborts ==
  /\ backlog > 0
  /\ backlog' = backlog - 1
  /\ UNCHANGED <<pollerVars, server, tableVars, state_, call, arg, queueVars,
                 held>>

-----------------------------------------------------------------------------
(* An iteration of loop().                                                 *)

ownerVars == <<server, backlog, tableVars, state_, call, arg, held>>

StartLoop ==
  /\ Outside
  /\ ~InDestructor
  /\ phase' = "poll"
  /\ noChannel
  /\ UNCHANGED <<activeChannels_, current, ownerVars, queueVars>>

\* The acceptor is reported while peers wait, a connection when its peer has
\* done something.
poll(ready) ==
  /\ phase = "poll"
  /\ Listener \in ready <=> Listener \in P!Reportable /\ backlog > 0
  /\ activeChannels_' = ready
  /\ phase' = "events"
  /\ noChannel
  /\ UNCHANGED <<current, ownerVars, queueVars>>

HandleEvent(c) ==
  /\ Running
  /\ phase = "events" /\ current = Null
  /\ c \in activeChannels_
  /\ current' = c
  /\ activeChannels_' = activeChannels_ \ {c}
  /\ noChannel
  /\ UNCHANGED <<phase, ownerVars, queueVars>>

\* A handler returns, after the callback it made or with nothing to do; for
\* the acceptor's that is when the peer has gone.
handlerReturns ==
  /\ Running
  /\ current # Null
  /\ call \in {"none", "up", "message"}
  /\ current = Listener /\ call = "none" => backlog = 0
  /\ current' = Null
  /\ call' = "none" /\ arg' = Null
  /\ noChannel
  /\ UNCHANGED <<activeChannels_, phase, server, backlog, tableVars, state_,
                 queueVars, held>>

RunFunctors ==
  /\ Running
  /\ phase = "events" /\ current = Null /\ activeChannels_ = {}
  /\ phase' = "functors"
  /\ batch' = pendingFunctor_
  /\ pendingFunctor_' = {}
  /\ noChannel
  /\ UNCHANGED <<activeChannels_, current, ran, ownerVars>>

\* doPendingFunctors returns, and its functors go with the pointers they hold.
dropBatch ==
  /\ Running
  /\ phase = "functors" /\ batch = {} /\ call = "none"
  /\ ran # {}
  /\ ran' = {}
  /\ UNCHANGED <<pollerVars, ownerVars, pendingFunctor_, batch>>

\* The while goes on, or quit_ is set.
EndIteration ==
  /\ Running
  /\ phase = "functors" /\ batch = {} /\ ran = {} /\ call = "none"
  /\ phase' \in {"poll", "out"}
  /\ noChannel
  /\ UNCHANGED <<activeChannels_, current, ownerVars, queueVars>>

-----------------------------------------------------------------------------
(* Handlers.                                                               *)

Handles(c) ==
  /\ Running
  /\ current = c
  /\ call = "none"

\* Mutant: the counter stays as it is.
sameId == UNCHANGED nextConnId_
nextId == nextConnId_' = nextConnId_ + 1

\* Mutant: the result of accept() is not looked at.
anyResult == TRUE
accepts == backlog > 0

\* Acceptor::handleRead, when accept() has a peer and a descriptor for it:
\* newConnection builds the connection and enters it in the map.
accept(c, f) ==
  /\ Handles(Listener)
  /\ accepts
  /\ life[c] = "unborn"
  /\ Lowest(f)
  /\ opens(c, f)
  /\ backlog' = backlog - 1
  /\ nextId
  /\ name_' = [name_ EXCEPT ![c] = nextConnId_]
  /\ connectionMap_' = [connectionMap_ EXCEPT ![nextConnId_] = c]
  /\ call' = "accepted" /\ arg' = c
  /\ UNCHANGED <<loopVars, server, state_, queueVars, held>>

\* When accept() fails, it only logs.
\* Mutant: it stops listening as well.
stopsReading == setEvents(Listener, events_[Listener] \ P!KReadEvent)
onlyLogs == noChannel

\* Without a descriptor (EMFILE) the peer goes on waiting; with one, accept()
\* may report that the peer's connection has failed (ECONNABORTED), and takes
\* it off the backlog.
acceptFails ==
  /\ Handles(Listener)
  /\ backlog > 0
  /\ backlog' = IF FreeFds = {} THEN backlog ELSE backlog - 1
  /\ current' = Null
  /\ onlyLogs
  /\ UNCHANGED <<activeChannels_, phase, server, tableVars, state_, call, arg,
                 held, queueVars>>

\* newConnection goes on with connectEstablished, in the same thread: up to
\* connectionCallback_.
connectEstablished(c) ==
  /\ Running
  /\ call = "accepted" /\ arg = c
  /\ state_' = [state_ EXCEPT ![c] = "kConnected"]
  /\ setEvents(c, events_[c] \cup P!KReadEvent)
  /\ call' = "up"
  /\ UNCHANGED <<loopVars, server, backlog, tableVars, arg, queueVars, held>>

\* handleRead finds data and calls messageCallback_.
message(c) ==
  /\ Handles(c)
  /\ call' = "message" /\ arg' = c
  /\ UNCHANGED <<pollerVars, server, backlog, tableVars, state_, queueVars,
                 held>>

\* handleClose, up to connectionCallback_.
handleClose(c) ==
  /\ Handles(c)
  /\ state_' = [state_ EXCEPT ![c] = "kDisconnected"]
  /\ disableAll(c)
  /\ call' = "down" /\ arg' = c
  /\ UNCHANGED <<loopVars, server, backlog, tableVars, queueVars, held>>

\* closeCallback_: removeConnection, and in the same thread
\* removeConnectionInLoop, which queues connectDestroyed.
\* Mutant: connectDestroyed runs at once.
destroysAtOnce(c) == removeChannel(c) /\ UNCHANGED pendingFunctor_
queueDestroyed(c) ==
  pendingFunctor_' = pendingFunctor_ \cup {c} /\ noChannel

removeConnection(c) ==
  /\ Running
  /\ call = "down" /\ arg = c
  /\ connectionMap_' = [connectionMap_ EXCEPT ![name_[c]] = Null]
  /\ queueDestroyed(c)
  /\ call' = "none" /\ arg' = Null
  /\ current' = Null
  /\ UNCHANGED <<activeChannels_, phase, server, backlog, nextConnId_, name_,
                 state_, batch, ran, held>>

-----------------------------------------------------------------------------
(* connectDestroyed.                                                       *)

\* As a functor.  The connection went down before it was queued.
runConnectDestroyed(c) ==
  /\ Running
  /\ phase = "functors" /\ call = "none"
  /\ c \in batch
  /\ batch' = batch \ {c}
  /\ ran' = ran \cup {c}
  /\ removeChannel(c)
  /\ UNCHANGED <<loopVars, ownerVars, pendingFunctor_>>

\* In ~TcpServer, after connectionCallback_.
connectDestroyed(c) ==
  /\ Running
  /\ call = "destroyed" /\ arg = c
  /\ removeChannel(c)
  /\ call' = "none" /\ arg' = Null
  /\ UNCHANGED <<loopVars, server, backlog, tableVars, state_, queueVars,
                 held>>

-----------------------------------------------------------------------------
(* User code on the loop thread: in a callback, in a functor, outside.     *)

UserCode ==
  /\ Running
  /\ \/ call \in UserCallbacks
     \/ phase = "functors"
     \/ phase = "out" /\ ~InDestructor

userOnly ==
  UNCHANGED <<pollerVars, server, backlog, tableVars, call, arg, queueVars>>

userKeeps ==
  /\ UserCode
  /\ call \in UserCallbacks
  /\ held' = held \cup {arg}
  /\ UNCHANGED state_
  /\ userOnly

userDrops(c) ==
  /\ UserCode
  /\ c \in held
  /\ held' = held \ {c}
  /\ UNCHANGED state_
  /\ userOnly

\* shutdown() on a connection it was handed or has kept.
userShutsDown(c) ==
  /\ UserCode
  /\ c \in held \/ (call \in UserCallbacks /\ c = arg)
  /\ state_[c] = "kConnected"
  /\ state_' = [state_ EXCEPT ![c] = "kDisconnecting"]
  /\ UNCHANGED held
  /\ userOnly

-----------------------------------------------------------------------------
LoopStep ==
  \/ \E ready \in SUBSET P!Reportable : poll(ready)
  \/ \E c \in Channels : HandleEvent(c)
  \/ handlerReturns
  \/ RunFunctors
  \/ dropBatch
  \/ EndIteration
  \/ \E c \in Conns, f \in Fds : accept(c, f)
  \/ acceptFails
  \/ \E c \in Conns :
       \/ Release(c)
       \/ connectEstablished(c)
       \/ message(c)
       \/ handleClose(c)
       \/ removeConnection(c)
       \/ runConnectDestroyed(c)

OutsideStep ==
  \/ TcpServer
  \/ start
  \/ StartLoop
  \/ \E c \in Conns : destroyConnection(c) \/ connectDestroyed(c)
  \/ destroyAcceptor

Environment ==
  \/ PeerConnects
  \/ PeerAborts
  \/ userKeeps
  \/ \E c \in Conns : userDrops(c) \/ userShutsDown(c)

Next == LoopStep \/ OutsideStep \/ Environment

Spec == Init /\ [][Next]_vars

\* The loop thread keeps running, and callbacks return.
FairSpec == Spec /\ WF_vars(LoopStep)

-----------------------------------------------------------------------------
(* Properties.                                                             *)

\* The server, the acceptor and the connections keep the rules Poller states
\* for the owners of channels: no use after remove(), remove() in functors or
\* outside loop() only, destruction only after remove() and in code that may
\* run then, one channel per descriptor.  With the proofs about Poller, no
\* pointer of the loop dangles and epoll_ctl never ends the process, for a
\* whole server (tcpserver.cc:32-42, 61-106, acceptor.cc:36-50,
\* tcpconnection.cc:216-234).
PollerSpec == P!Spec

\* The map holds exactly the connections that have been accepted and not
\* closed, each under its own name, so that no entry is overwritten or left
\* behind (tcpserver.cc:64-83, 97-105).
MapHoldsOpen ==
  server \in {"built", "listening"} =>
    \A c \in Conns :
      Mapped(c) <=> /\ Live(c)
                    /\ \/ state_[c] # "kDisconnected"
                       \/ call = "down" /\ arg = c

\* A destroyed server leaves nothing in the kernel's interest list, whatever
\* its connections were doing, and no object except those user code holds:
\* no connectDestroyed is queued when the loop is left (tcpserver.cc:32-42,
\* acceptor.cc:36-40, eventloop.cc:67-80).
DestroyedLeavesNothing ==
  server = "gone" /\ Settled =>
    /\ \A f \in Fds : ptr[f] = Null
    /\ \A n \in Names : connectionMap_[n] = Null
    /\ \A c \in Conns : Live(c) => c \in held

\* The kernel watches the acceptor while the server listens, and every open
\* connection, for reading, whatever other channels are disabled, removed or
\* destroyed and however descriptors are used again: none of them goes deaf
\* (acceptor.cc:42-50, tcpconnection.cc:216-243, epollpoller.cc:68-107).
Watched(c) ==
  IF c = Listener THEN server = "listening"
  ELSE Mapped(c) /\ state_[c] \in {"kConnected", "kDisconnecting"}

OpenIsWatched ==
  \A c \in Channels :
    Watched(c) => ptr[fd_[c]] = c /\ P!KReadEvent \subseteq mask[fd_[c]]

\* A descriptor is taken by the acceptor, by a connection that is up, or by one
\* user code holds on to.
InUse(f) ==
  \E c \in Channels :
    /\ Live(c) /\ fd_[c] = f
    /\ \/ c = Listener \/ c \in held
       \/ state_[c] \in {"kConnected", "kDisconnecting"}

\* The acceptor takes the first peer off the backlog.
TakesPeer ==
  \/ \E c \in Conns, f \in Fds : accept(c, f)
  \/ acceptFails /\ backlog' < backlog

\* While the loop runs, peers do not wait for ever, though accept() may fail,
\* for want of descriptors or otherwise: unless none waits, or every
\* descriptor is in use, again and again, peer after peer is taken off the
\* backlog (acceptor.cc:52-74, tcpserver.cc:97-105).
AcceptsWhenRoom ==
  \/ []<>(backlog = 0 \/ phase = "out" \/ \A f \in Fds : InUse(f))
  \/ []<><<TakesPeer>>_vars

\* Users of every connection of a server are told what ConnectionLife
\* promises, whatever the others do and also while the server is destroyed:
\* "up" once and first, no message after "down", and no connection that is up
\* goes without a word (tcpserver.cc:32-42, 61-106, tcpconnection.cc:55-74,
\* 216-243).
lifeStage(c) ==
  IF life[c] = "dead" THEN "freed"
  ELSE IF state_[c] = "kConnecting" THEN "new"
  ELSE IF state_[c] = "kConnected" THEN "up"
  ELSE IF state_[c] = "kDisconnecting" THEN "halfClosed"
  ELSE "down"

lifeCallback(c) ==
  IF arg # c \/ call = "accepted" THEN "none"
  ELSE IF call \in {"up", "message"} THEN call
  ELSE "down"

Life(c) == INSTANCE ConnectionLife
             WITH stage <- lifeStage(c), callback <- lifeCallback(c)

LifeStep(c) == [Life(c)!Next]_(Life(c)!vars)

LivesSpec ==
  /\ \A c \in Conns : Life(c)!Init
  /\ [][\A c \in Conns : LifeStep(c)]_vars

-----------------------------------------------------------------------------
(* What makes the safety properties inductive.                             *)

\* The steps of ~TcpServer; it runs outside loop(), on an empty queue.
ServerStages ==
  /\ server = "none" <=> life[Listener] = "unborn"
  /\ server \in {"built", "listening", "destroying", "disabled"} =>
       Live(Listener) /\ ~removed[Listener]
  /\ server = "removed" => Live(Listener) /\ removed[Listener]
  /\ server = "gone" => life[Listener] = "dead"
  /\ InDestructor => phase = "out"
  /\ server \in {"disabled", "removed", "gone"} =>
       /\ \A n \in Names : connectionMap_[n] = Null
       /\ pendingFunctor_ \cup batch \cup ran = {}

\* Every name in the map has been given out, and to that connection.
NamesUsed ==
  /\ nextConnId_ = Cardinality(Conns \ Unborn) + 1
  /\ \A n \in Names : connectionMap_[n] # Null =>
       n < nextConnId_ /\ name_[connectionMap_[n]] = n

\* The connection's remove() is still to come.
KeepsChannel(c) ==
  \/ Mapped(c)
  \/ c \in pendingFunctor_ \cup batch
  \/ call = "destroyed" /\ arg = c

ConnectionStages ==
  \A c \in Conns :
    /\ life[c] = "unborn" => state_[c] = "kConnecting"
    /\ KeepsChannel(c) => Live(c)
    /\ Live(c) => (removed[c] <=> ~KeepsChannel(c))
    /\ Mapped(c) => (state_[c] = "kDisconnected" <=> call = "down" /\ arg = c)
    /\ Mapped(c) => c \notin pendingFunctor_ \cup batch
    /\ c \in pendingFunctor_ => c \notin activeChannels_ /\ c # current
    /\ server \in {"none", "built", "listening"} /\ Live(c) =>
         Mapped(c) \/ state_[c] = "kDisconnected"

\* Only a connection that is being accepted is not up yet, and none that is
\* up has been taken off the map.
LifeStages ==
  \A c \in Conns :
    Live(c) /\ state_[c] \in {"kConnecting", "kConnected"} =>
      /\ Mapped(c)
      /\ state_[c] = "kConnecting" => call = "accepted" /\ arg = c

\* What the channels themselves know of that.
WatchedStages ==
  \A c \in Channels :
    Watched(c) => index_[c] = P!kAdded /\ P!KReadEvent \subseteq events_[c]

QueueStages ==
  /\ pendingFunctor_ # {} => phase = "events"
  /\ batch \cup ran # {} => phase = "functors"
  /\ current \notin activeChannels_

CallStages ==
  /\ call = "none" <=> arg = Null
  /\ call \in {"accepted", "up"} => current = Listener /\ Mapped(arg)
  /\ call = "accepted" => state_[arg] = "kConnecting"
  /\ call \in {"message", "down"} => current = arg
  /\ call = "down" => Mapped(arg)
  /\ call = "destroyed" => server = "destroying" /\ ~Mapped(arg)

\* Between any two steps of a server, with each of its connections at a stage
\* of its own, the map, the queue, the calls in progress and the channels fit
\* together, and the channels keep Poller's invariant (tcpserver.cc:14-106,
\* acceptor.cc:11-74, tcpconnection.cc:55-74, 216-234).
ServerInv ==
  /\ TypeOK
  /\ P!PollerInv
  /\ ServerStages
  /\ NamesUsed
  /\ ConnectionStages
  /\ LifeStages
  /\ WatchedStages
  /\ QueueStages
  /\ CallStages
  /\ Settled \/ phase \in {"out", "functors"} \/ current # Null
==============================================================================
