----------------------------- MODULE ServerProofs -----------------------------
(***************************************************************************)
(* Proofs about Server, for any number of connections and descriptors.     *)
(***************************************************************************)
EXTENDS Server, FiniteSetTheorems, TLAPS

PP == INSTANCE PollerProofs

\* The parts of the invariant that have no name in Server.
TypeRest ==
  /\ server \in {"none", "built", "listening", "destroying", "disabled",
                 "removed", "gone"}
  /\ backlog \in 0 .. MaxBacklog
  /\ nextConnId_ \in 1 .. MaxConns + 1
  /\ name_ \in [Conns -> Names]
  /\ connectionMap_ \in [Names -> Conns \cup {Null}]
  /\ state_ \in [Conns -> {"kConnecting", "kConnected", "kDisconnecting",
                           "kDisconnected"}]
  /\ call \in UserCallbacks \cup {"none", "accepted"}
  /\ arg \in Conns \cup {Null}
  /\ pendingFunctor_ \cup batch \cup ran \cup held \subseteq Conns

LastOne == Settled \/ phase \in {"out", "functors"} \/ current # Null

-----------------------------------------------------------------------------
(* The operators PollerProofs speaks of are the ones Server uses.          *)

LEMMA Constants ==
  /\ Null \notin Channels /\ Null \notin Conns /\ Null \notin Names
  /\ Listener \in Channels /\ Listener \notin Conns
  /\ Conns \subseteq Channels
BY ServerAssumption DEF Channels, Conns, Listener, Names

LEMMA SameInv == P!PollerInv <=> PP!PollerInv
BY DEF P!PollerInv, P!TypeOK, P!Descriptors, P!MapEntries, P!KernelEntries,
       P!Indices, P!RemovedUnmapped, P!Walk, P!Live, P!Events, P!KReadEvent,
       P!KWriteEvent, P!kNew, P!kAdded,
       PP!PollerInv, PP!TypeOK, PP!Descriptors, PP!MapEntries,
       PP!KernelEntries, PP!Indices, PP!RemovedUnmapped, PP!Walk, PP!Live,
       PP!Events, PP!KReadEvent, PP!KWriteEvent, PP!kNew, PP!kAdded

LEMMA SameInit == P!Init <=> PP!Init
BY DEF P!Init, PP!Init, P!kNew, PP!kNew, P!KNoneEvent, PP!KNoneEvent

LEMMA SameNext == P!Next <=> PP!Next
<1> USE DEF P!objectVars, P!registrationVars, P!loopVars, PP!objectVars,
        PP!registrationVars, PP!loopVars, P!Live, PP!Live, P!InUse, PP!InUse,
        P!InUserCode, PP!InUserCode, P!kNew, PP!kNew, P!kAdded, PP!kAdded,
        P!KNoneEvent, PP!KNoneEvent, P!KReadEvent, PP!KReadEvent,
        P!KWriteEvent, PP!KWriteEvent, P!kDeleted, PP!kDeleted
<1>1. ASSUME NEW c, NEW f
      PROVE  P!Create(c, f) <=> PP!Create(c, f)
  BY DEF P!Create, PP!Create, P!OpenFds, PP!OpenFds
<1>2. ASSUME NEW c, NEW ev
      PROVE  P!updateChannel(c, ev) <=> PP!updateChannel(c, ev)
  BY DEF P!updateChannel, PP!updateChannel, P!forgetsIndex, PP!forgetsIndex,
         P!epollAdd, PP!epollAdd, P!epollMod, PP!epollMod, P!epollDel,
         PP!epollDel
<1>3. ASSUME NEW c, NEW ev
      PROVE  P!SetEvents(c, ev) <=> PP!SetEvents(c, ev)
  BY <1>2 DEF P!SetEvents, PP!SetEvents
<1>4. ASSUME NEW c
      PROVE  P!remove(c) <=> PP!remove(c)
  BY DEF P!remove, PP!remove, P!mayRemove, PP!mayRemove, P!removeChannel,
         PP!removeChannel, P!erase, PP!erase, P!unregister, PP!unregister,
         P!epollDel, PP!epollDel
<1>5. ASSUME NEW c
      PROVE  P!Destroy(c) <=> PP!Destroy(c)
  BY DEF P!Destroy, PP!Destroy, P!epollDel, PP!epollDel
<1>6. ASSUME NEW c
      PROVE  P!Use(c) <=> PP!Use(c)
  BY <1>1, <1>3, <1>4, <1>5
     DEF P!Use, PP!Use, P!enableReading, PP!enableReading, P!disableReading,
         PP!disableReading, P!enableWriting, PP!enableWriting,
         P!disableWriting, PP!disableWriting, P!disableAll, PP!disableAll
<1>7. P!Reportable = PP!Reportable
  BY DEF P!Reportable, PP!Reportable
<1>8. \A c : P!HandleEvent(c) <=> PP!HandleEvent(c)
  BY DEF P!HandleEvent, PP!HandleEvent
<1>9. \A ready : P!poll(ready) <=> PP!poll(ready)
  BY DEF P!poll, PP!poll
<1>10. P!StartLoop <=> PP!StartLoop
  BY DEF P!StartLoop, PP!StartLoop
<1>11. P!HandlerReturns <=> PP!HandlerReturns
  BY DEF P!HandlerReturns, PP!HandlerReturns
<1>12. P!RunFunctors <=> PP!RunFunctors
  BY DEF P!RunFunctors, PP!RunFunctors
<1>13. P!EndIteration <=> PP!EndIteration
  BY DEF P!EndIteration, PP!EndIteration
<1> QED
  BY <1>6, <1>7, <1>8, <1>9, <1>10, <1>11, <1>12, <1>13 DEF P!Next, PP!Next

LEMMA PollerKept == P!PollerInv /\ [P!Next]_(P!vars) => P!PollerInv'
<1>1. P!vars = PP!vars /\ (P!vars)' = (PP!vars)'
  BY DEF P!vars, PP!vars, P!objectVars, P!registrationVars, P!loopVars,
         PP!objectVars, PP!registrationVars, PP!loopVars
<1>2. PP!PollerInv /\ [PP!Next]_(PP!vars) => PP!PollerInv'
  BY Constants, PP!StepPreserves
<1>3. P!PollerInv' <=> PP!PollerInv'
  BY SameInv, PTL
<1> QED
  BY <1>1, <1>2, <1>3, SameInv, SameNext

-----------------------------------------------------------------------------
(* Every step of the server is one Poller allows, or leaves it alone.      *)

\* What the invariant says of a channel whose owner is about to use it.
LEMMA UseFacts ==
  ASSUME ServerInv
  PROVE  /\ \A c \in Conns : KeepsChannel(c) => Live(c) /\ ~removed[c]
         /\ current \in Channels \cup {Null}
         /\ current # Null => Live(current) /\ ~removed[current]
         /\ call # "none" => arg \in Conns
         /\ call \in {"accepted", "up", "message", "down"} => current # Null
         /\ call = "destroyed" => phase = "out"
         /\ ~exited
<1> USE Constants DEF ServerInv
<1>1. \A c \in Conns : KeepsChannel(c) => Live(c) /\ ~removed[c]
  BY DEF ConnectionStages
<1>2. /\ current \in Channels \cup {Null}
      /\ current # Null => Live(current) /\ ~removed[current]
  BY DEF P!PollerInv, P!TypeOK, P!Walk, P!Live, Live
<1>3. call # "none" => arg \in Conns
  BY DEF CallStages, TypeOK
<1>4. call \in {"accepted", "up", "message", "down"} => current # Null
  BY <1>3 DEF CallStages
<1>5. call = "destroyed" => phase = "out"
  BY DEF CallStages, ServerStages, InDestructor
<1>6. ~exited
  BY DEF P!PollerInv
<1> QED
  BY <1>1, <1>2, <1>3, <1>4, <1>5, <1>6

LEMMA PollerSteps == ServerInv /\ [Next]_vars => [P!Next]_(P!vars)
<1> SUFFICES ASSUME ServerInv, [Next]_vars
             PROVE  P!Next \/ UNCHANGED pollerVars
  BY DEF P!vars, P!objectVars, P!registrationVars, P!loopVars, pollerVars,
         objectVars, registrationVars, loopVars
<1> USE Constants, UseFacts
<1> USE DEF objectVars, registrationVars, loopVars, P!objectVars,
        P!registrationVars, P!loopVars, Live, P!Live
<1>1. ASSUME NEW c \in Channels, P!Use(c)
      PROVE  P!Next
  BY <1>1 DEF P!Next
<1>2. ASSUME NEW c \in Channels, NEW ev, setEvents(c, ev), UNCHANGED loopVars,
             P!InUse(c),
             ev \in {P!KNoneEvent, events_[c] \cup P!KReadEvent}
      PROVE  P!Next
  <2>1. P!SetEvents(c, ev)
    BY <1>2 DEF setEvents, P!SetEvents
  <2>2. P!Use(c)
    BY <1>2, <2>1 DEF P!Use, P!disableAll, P!enableReading
  <2> QED
    BY <1>1, <2>2
<1>3. ASSUME NEW c \in Channels, removeChannel(c), UNCHANGED loopVars,
             P!InUse(c), phase # "events"
      PROVE  P!Next
  <2>1. P!remove(c)
    BY <1>3 DEF removeChannel, P!remove, P!mayRemove
  <2> QED
    BY <1>1, <2>1 DEF P!Use
<1>4. ASSUME NEW c \in Channels, closes(c), UNCHANGED loopVars,
             P!InUserCode, Live(c), removed[c]
      PROVE  P!Next
  <2>1. P!Destroy(c)
    BY <1>4 DEF closes, P!Destroy
  <2> QED
    BY <1>1, <2>1 DEF P!Use
<1>5. ASSUME NEW c \in Channels, NEW f \in Fds, opens(c, f), Lowest(f),
             UNCHANGED loopVars, P!InUserCode, life[c] = "unborn"
      PROVE  P!Next
  <2>1. P!Create(c, f)
    BY <1>5 DEF opens, Lowest, FreeFds, P!Create
  <2> QED
    BY <1>1, <2>1 DEF P!Use
<1>6. CASE OutsideStep
  <2>1. CASE TcpServer
    <3>1. life[Listener] = "unborn" /\ P!InUserCode
      BY <2>1 DEF TcpServer, Outside, ServerInv, ServerStages, P!InUserCode
    <3> QED
      BY <1>5, <2>1, <3>1 DEF TcpServer, serverOnly
  <2>2. CASE start
    <3>1. P!InUse(Listener)
      BY <2>2
         DEF start, Outside, ServerInv, ServerStages, P!InUserCode, P!InUse
    <3> QED
      BY <1>2, <2>2, <3>1 DEF start, serverOnly
  <2>3. CASE StartLoop
    BY <2>3 DEF StartLoop, Outside, noChannel, P!StartLoop, P!Next
  <2>4. ASSUME NEW c \in Conns, destroyConnection(c)
        PROVE  P!Next
    <3>1. P!InUse(c) /\ phase # "events"
      BY <2>4
         DEF destroyConnection, Outside, KeepsChannel, P!InUserCode, P!InUse
    <3>2. CASE isUp(c)
      BY <1>2, <2>4, <3>1, <3>2 DEF destroyConnection, disableAll
    <3>3. CASE ~isUp(c)
      BY <1>3, <2>4, <3>1, <3>3 DEF destroyConnection, onlyRemoves
    <3> QED
      BY <3>2, <3>3
  <2>5. ASSUME NEW c \in Conns, connectDestroyed(c)
        PROVE  P!Next
    <3>1. P!InUse(c) /\ phase # "events"
      BY <2>5 DEF connectDestroyed, KeepsChannel, P!InUserCode, P!InUse
    <3> QED
      BY <1>3, <2>5, <3>1 DEF connectDestroyed
  <2>6. CASE destroyAcceptor
    <3>1. phase = "out" /\ P!InUserCode
      BY <2>6 DEF destroyAcceptor, Outside, P!InUserCode
    <3>2. CASE /\ server \in {"built", "listening", "destroying"}
               /\ disableAll(Listener)
      <4>1. P!InUse(Listener)
        BY <3>1, <3>2 DEF ServerInv, ServerStages, P!InUse
      <4> QED
        BY <1>2, <2>6, <3>2, <4>1 DEF disableAll, destroyAcceptor
    <3>3. CASE server = "disabled" /\ removeChannel(Listener)
      <4>1. P!InUse(Listener)
        BY <3>1, <3>3 DEF ServerInv, ServerStages, P!InUse
      <4> QED
        BY <1>3, <2>6, <3>1, <3>3, <4>1 DEF destroyAcceptor
    <3>4. CASE server = "removed" /\ closes(Listener)
      <4>1. Live(Listener) /\ removed[Listener]
        BY <3>4 DEF ServerInv, ServerStages
      <4> QED
        BY <1>4, <2>6, <3>1, <3>4, <4>1 DEF destroyAcceptor
    <3> QED
      BY <2>6, <3>2, <3>3, <3>4 DEF destroyAcceptor
  <2> QED
    BY <1>6, <2>1, <2>2, <2>3, <2>4, <2>5, <2>6 DEF OutsideStep
<1>7. CASE LoopStep
  <2>1. ASSUME NEW ready \in SUBSET P!Reportable, poll(ready)
        PROVE  P!Next
    BY <2>1 DEF poll, noChannel, P!poll, P!Next
  <2>2. ASSUME NEW c \in Channels, HandleEvent(c)
        PROVE  P!Next
    BY <2>2 DEF HandleEvent, noChannel, P!HandleEvent, P!Next
  <2>3. CASE handlerReturns
    BY <2>3 DEF handlerReturns, noChannel, P!HandlerReturns, P!Next
  <2>4. CASE RunFunctors
    BY <2>4 DEF RunFunctors, Running, noChannel, P!RunFunctors, P!Next
  <2>5. CASE dropBatch
    BY <2>5 DEF dropBatch
  <2>6. CASE EndIteration
    BY <2>6 DEF EndIteration, Running, noChannel, P!EndIteration, P!Next
  <2>7. ASSUME NEW c \in Conns, NEW f \in Fds, accept(c, f)
        PROVE  P!Next
    <3>1. P!InUserCode
      BY <2>7 DEF accept, Handles, P!InUserCode
    <3> QED
      BY <1>5, <2>7, <3>1 DEF accept
  <2>8. CASE acceptFails
    BY <2>8
       DEF acceptFails, Handles, onlyLogs, noChannel, P!HandlerReturns, P!Next
  <2>9. ASSUME NEW c \in Conns, Release(c)
        PROVE  P!Next
    <3>1. removed[c]
      BY <2>9
         DEF Release, Referenced, KeepsChannel, ServerInv, ConnectionStages,
                  CallStages
    <3>2. P!InUserCode
      BY <2>9 DEF Release, Settled, ServerInv, P!InUserCode
    <3> QED
      BY <1>4, <2>9, <3>1, <3>2 DEF Release
  <2>10. ASSUME NEW c \in Conns, connectEstablished(c)
         PROVE  P!Next
    <3>1. P!InUse(c)
      BY <2>10 DEF connectEstablished, ServerInv, CallStages, KeepsChannel,
                   P!InUserCode, P!InUse
    <3> QED
      BY <1>2, <2>10, <3>1 DEF connectEstablished
  <2>11. ASSUME NEW c \in Conns, message(c)
         PROVE  UNCHANGED pollerVars
    BY <2>11 DEF message
  <2>12. ASSUME NEW c \in Conns, handleClose(c)
         PROVE  P!Next
    <3>1. P!InUse(c)
      BY <2>12 DEF handleClose, Handles, P!InUserCode, P!InUse
    <3> QED
      BY <1>2, <2>12, <3>1 DEF handleClose, disableAll
  <2>13. ASSUME NEW c \in Conns, removeConnection(c)
         PROVE  P!Next
    BY <2>13 DEF removeConnection, queueDestroyed, noChannel, P!HandlerReturns,
                 P!Next
  <2>14. ASSUME NEW c \in Conns, runConnectDestroyed(c)
         PROVE  P!Next
    <3>1. P!InUse(c) /\ phase # "events"
      BY <2>14 DEF runConnectDestroyed, KeepsChannel, P!InUserCode, P!InUse
    <3> QED
      BY <1>3, <2>14, <3>1 DEF runConnectDestroyed
  <2> QED
    BY <1>7, <2>1, <2>2, <2>3, <2>4, <2>5, <2>6, <2>7, <2>8, <2>9, <2>10,
       <2>11, <2>12, <2>13, <2>14 DEF LoopStep
<1>8. CASE Environment
  BY <1>8 DEF Environment, PeerConnects, PeerAborts, userKeeps, userDrops,
              userShutsDown, userOnly
<1>9. CASE UNCHANGED vars
  BY <1>9 DEF vars
<1> QED
  BY <1>6, <1>7, <1>8, <1>9 DEF Next
-----------------------------------------------------------------------------
(* The invariant, action by action.                                        *)

LEMMA PollerFacts ==
  ASSUME ServerInv
  PROVE  /\ life \in [Channels -> {"unborn", "live", "dead"}]
         /\ removed \in [Channels -> BOOLEAN]
         /\ activeChannels_ \subseteq Channels
         /\ phase # "events" => activeChannels_ = {} /\ current = Null
         /\ \A c \in Channels : life[c] = "unborn" => ~removed[c]
BY Constants
   DEF ServerInv, P!PollerInv, P!TypeOK, P!Walk, P!Indices

LEMMA TypeFacts ==
  ASSUME ServerInv
  PROVE  /\ nextConnId_ \in 1 .. MaxConns + 1
         /\ name_ \in [Conns -> Names]
         /\ connectionMap_ \in [Names -> Conns \cup {Null}]
         /\ state_ \in [Conns -> {"kConnecting", "kConnected", "kDisconnecting",
                                  "kDisconnected"}]
         /\ arg \in Conns \cup {Null}
         /\ pendingFunctor_ \cup batch \cup ran \cup held \subseteq Conns
BY DEF ServerInv, TypeOK

\* A connection that is taken off the map leaves the others in it.
LEMMA Unmapped ==
  ASSUME ServerInv, NEW c \in Conns, Mapped(c),
         connectionMap_' = [connectionMap_ EXCEPT ![name_[c]] = Null],
         name_' = name_
  PROVE  /\ connectionMap_' \in [Names -> Conns \cup {Null}]
         /\ \A d \in Conns : Mapped(d)' <=> Mapped(d) /\ d # c
         /\ \A n \in Names : connectionMap_'[n] # Null =>
              connectionMap_'[n] = connectionMap_[n]
BY Constants, TypeFacts DEF Mapped

\* newConnection enters a connection that was in nobody's hands under a name
\* that is not in use.
LEMMA AcceptFacts ==
  ASSUME ServerInv, NEW c \in Conns, NEW f \in Fds, accept(c, f)
  PROVE  /\ nextConnId_ \in Names
         /\ Cardinality(Conns \ Unborn') = nextConnId_
         /\ server \in {"built", "listening"}
         /\ state_[c] = "kConnecting" /\ ~removed[c]
         /\ c \notin pendingFunctor_ \cup batch /\ c # current
         /\ \A n \in Names : connectionMap_'[n] =
              IF n = nextConnId_ THEN c ELSE connectionMap_[n]
         /\ \A d \in Conns : name_'[d] = IF d = c THEN nextConnId_ ELSE name_[d]
         /\ \A d \in Conns : Mapped(d)' <=> Mapped(d) \/ d = c
         /\ \A d \in Channels : life'[d] = IF d = c THEN "live" ELSE life[d]
<1> USE Constants, UseFacts, PollerFacts, TypeFacts, ServerAssumption
<1>1. /\ life' = [life EXCEPT ![c] = "live"] /\ life[c] = "unborn"
      /\ name_' = [name_ EXCEPT ![c] = nextConnId_]
      /\ connectionMap_' = [connectionMap_ EXCEPT ![nextConnId_] = c]
      /\ current = Listener /\ call = "none"
  BY DEF accept, opens, Handles
<1>2. nextConnId_ \in Names /\ Cardinality(Conns \ Unborn') = nextConnId_
  <2>1. IsFiniteSet(Conns) /\ Cardinality(Conns) = MaxConns
    BY FS_Interval DEF Conns
  <2>2. IsFiniteSet(Conns \ Unborn)
    BY <2>1, FS_Subset
  <2>3. Conns \ Unborn' = (Conns \ Unborn) \cup {c} /\ c \notin Conns \ Unborn
    BY <1>1 DEF Unborn
  <2>4. Cardinality(Conns \ Unborn') = Cardinality(Conns \ Unborn) + 1
    BY <2>2, <2>3, FS_AddElement
  <2>5. Cardinality(Conns \ Unborn') <= MaxConns
    BY <2>1, FS_Subset
  <2>6. nextConnId_ = Cardinality(Conns \ Unborn) + 1
    BY DEF ServerInv, NamesUsed
  <2>7. Cardinality(Conns \ Unborn) \in Nat
    BY <2>2, FS_CardinalityType
  <2> QED
    BY <2>4, <2>5, <2>6, <2>7 DEF Names
<1>3. server \in {"built", "listening"}
  <2>1. Live(Listener) /\ ~removed[Listener] /\ phase = "events"
    BY <1>1
  <2> QED
    BY <2>1 DEF ServerInv, ServerStages, InDestructor, Live, TypeOK
<1>4. state_[c] = "kConnecting" /\ c \notin pendingFunctor_ \cup batch
  BY <1>1 DEF ServerInv, ConnectionStages, KeepsChannel, Live
<1>5. ~Mapped(c) /\ connectionMap_[nextConnId_] = Null
  <2>1. ~Mapped(c)
    BY <1>1 DEF ServerInv, ConnectionStages, KeepsChannel, Live
  <2>2. ~(nextConnId_ < nextConnId_)
    OBVIOUS
  <2> QED
    BY <1>2, <2>1, <2>2 DEF ServerInv, NamesUsed
<1>6. \A d \in Conns : Mapped(d)' <=> Mapped(d) \/ d = c
  <2>1. ASSUME NEW d \in Conns, Mapped(d)
        PROVE  name_[d] # nextConnId_
    BY <1>5, <2>1 DEF Mapped
  <2> QED
    BY <1>1, <1>2, <1>5, <2>1 DEF Mapped
<1>7. /\ \A n \in Names : connectionMap_'[n] =
           IF n = nextConnId_ THEN c ELSE connectionMap_[n]
      /\ \A d \in Conns : name_'[d] = IF d = c THEN nextConnId_ ELSE name_[d]
      /\ \A d \in Channels : life'[d] = IF d = c THEN "live" ELSE life[d]
  BY <1>1, <1>2
<1> QED
  BY <1>1, <1>2, <1>3, <1>4, <1>6, <1>7

\* A handler that has not called back yet is that of an open connection.
LEMMA HandleFacts ==
  ASSUME ServerInv, NEW c \in Conns, Handles(c)
  PROVE  /\ Mapped(c) /\ state_[c] # "kDisconnected"
         /\ phase = "events"
<1> USE Constants, UseFacts, PollerFacts, TypeFacts
<1>1. phase = "events" /\ Live(c) /\ ~removed[c] /\ call = "none"
  BY DEF Handles
<1>2. c \notin pendingFunctor_ \cup batch
  BY <1>1 DEF Handles, ServerInv, ConnectionStages, QueueStages
<1>3. Mapped(c)
  BY <1>1, <1>2 DEF ServerInv, ConnectionStages, KeepsChannel
<1> QED
  BY <1>1, <1>3 DEF ServerInv, ConnectionStages

\* The types.
LEMMA TypeRestKept == ServerInv /\ P!PollerInv' /\ [Next]_vars => TypeRest'
<1> SUFFICES ASSUME ServerInv, P!PollerInv', [Next]_vars
             PROVE  TypeRest'
  OBVIOUS
<1> USE Constants, UseFacts, PollerFacts, TypeFacts, ServerAssumption
<1> USE DEF serverOnly, objectVars, registrationVars, loopVars, pollerVars,
        tableVars, queueVars, ownerVars, userOnly, noChannel, opens, closes,
        setEvents, disableAll, removeChannel, onlyRemoves, Outside, Running,
        Handles, onlyLogs, queueDestroyed, InDestructor, UserCode,
        UserCallbacks, Live, isUp
<1>1. CASE TcpServer
  BY <1>1 DEF TcpServer, ServerInv, TypeRest, TypeOK, Mapped
<1>2. CASE start
  BY <1>2 DEF start, ServerInv, TypeRest, TypeOK, Mapped
<1>3. CASE StartLoop
  BY <1>3 DEF StartLoop, ServerInv, TypeRest, TypeOK, Mapped
<1>4. ASSUME NEW c \in Conns, destroyConnection(c)
      PROVE  TypeRest'
  <2>1. connectionMap_' \in [Names -> Conns \cup {Null}]
    BY <1>4, Unmapped DEF destroyConnection
  <2>2. state_' \in [Conns -> {"kConnecting", "kConnected", "kDisconnecting",
                               "kDisconnected"}]
    BY <1>4 DEF destroyConnection
  <2>3. /\ call' \in UserCallbacks \cup {"none", "accepted"}
        /\ arg' \in Conns \cup {Null}
    BY <1>4 DEF destroyConnection, ServerInv, TypeOK
  <2> QED
    BY <1>4, <2>1, <2>2, <2>3
       DEF destroyConnection, ServerInv, TypeOK, TypeRest
<1>5. ASSUME NEW c \in Conns, connectDestroyed(c)
      PROVE  TypeRest'
  BY <1>5 DEF connectDestroyed, ServerInv, TypeRest, TypeOK, Mapped
<1>6. CASE destroyAcceptor
  BY <1>6 DEF destroyAcceptor, ServerInv, TypeRest, TypeOK, Mapped
<1>7. ASSUME NEW ready \in SUBSET P!Reportable, poll(ready)
      PROVE  TypeRest'
  BY <1>7 DEF poll, ServerInv, TypeRest, TypeOK, Mapped
<1>8. ASSUME NEW c \in Channels, HandleEvent(c)
      PROVE  TypeRest'
  BY <1>8 DEF HandleEvent, ServerInv, TypeRest, TypeOK, Mapped
<1>9. CASE handlerReturns
  BY <1>9 DEF handlerReturns, ServerInv, TypeRest, TypeOK, Mapped
<1>10. CASE RunFunctors
  BY <1>10 DEF RunFunctors, ServerInv, TypeRest, TypeOK, Mapped
<1>11. CASE dropBatch
  BY <1>11 DEF dropBatch, ServerInv, TypeRest, TypeOK, Mapped
<1>12. CASE EndIteration
  BY <1>12 DEF EndIteration, ServerInv, TypeRest, TypeOK, Mapped
<1>13. ASSUME NEW c \in Conns, NEW f \in Fds, accept(c, f)
       PROVE  TypeRest'
  <2>1. /\ name_' \in [Conns -> Names]
        /\ connectionMap_' \in [Names -> Conns \cup {Null}]
    BY <1>13, AcceptFacts DEF accept
  <2>2. backlog' \in 0 .. MaxBacklog
    <3>1. backlog \in 0 .. MaxBacklog /\ backlog > 0 /\ backlog' = backlog - 1
      BY <1>13 DEF accept, accepts, ServerInv, TypeOK
    <3> QED
      BY <3>1
  <2>3. nextConnId_' \in 1 .. MaxConns + 1
    <3>1. nextConnId_ \in Names /\ nextConnId_' = nextConnId_ + 1
      BY <1>13, AcceptFacts DEF accept, nextId
    <3> QED
      BY <3>1 DEF Names
  <2> QED
    BY <1>13, <2>1, <2>2, <2>3 DEF accept, ServerInv, TypeOK, TypeRest
<1>14. CASE acceptFails
  <2>1. backlog' \in 0 .. MaxBacklog
    BY <1>14, Constants DEF acceptFails, ServerInv, TypeOK
  <2> QED
    BY <1>14, <2>1 DEF acceptFails, ServerInv, TypeRest, TypeOK, Mapped
<1>15. ASSUME NEW c \in Conns, Release(c)
       PROVE  TypeRest'
  BY <1>15 DEF Release, ServerInv, TypeRest, TypeOK, Mapped
<1>16. ASSUME NEW c \in Conns, connectEstablished(c)
       PROVE  TypeRest'
  BY <1>16 DEF connectEstablished, ServerInv, TypeRest, TypeOK, Mapped
<1>17. ASSUME NEW c \in Conns, message(c)
       PROVE  TypeRest'
  BY <1>17 DEF message, ServerInv, TypeRest, TypeOK, Mapped
<1>18. ASSUME NEW c \in Conns, handleClose(c)
       PROVE  TypeRest'
  BY <1>18 DEF handleClose, ServerInv, TypeRest, TypeOK, Mapped
<1>19. ASSUME NEW c \in Conns, removeConnection(c)
       PROVE  TypeRest'
  BY <1>19, Unmapped DEF removeConnection, ServerInv, TypeRest, TypeOK
<1>20. ASSUME NEW c \in Conns, runConnectDestroyed(c)
       PROVE  TypeRest'
  BY <1>20 DEF runConnectDestroyed, ServerInv, TypeRest, TypeOK, Mapped
<1>21. CASE PeerConnects
  BY <1>21 DEF PeerConnects, ServerInv, TypeRest, TypeOK, Mapped
<1>22. CASE PeerAborts
  BY <1>22 DEF PeerAborts, ServerInv, TypeRest, TypeOK, Mapped
<1>23. CASE userKeeps
  BY <1>23 DEF userKeeps, ServerInv, TypeRest, TypeOK, Mapped
<1>24. ASSUME NEW c \in Conns, userDrops(c)
       PROVE  TypeRest'
  BY <1>24 DEF userDrops, ServerInv, TypeRest, TypeOK, Mapped
<1>25. ASSUME NEW c \in Conns, userShutsDown(c)
       PROVE  TypeRest'
  BY <1>25 DEF userShutsDown, ServerInv, TypeRest, TypeOK, Mapped
<1>26. CASE UNCHANGED vars
  BY <1>26 DEF vars, ServerInv, TypeRest, TypeOK, Mapped
<1> QED
  BY <1>1, <1>2, <1>3, <1>4, <1>5, <1>6, <1>7, <1>8, <1>9, <1>10, <1>11, <1>12,
     <1>13, <1>14, <1>15, <1>16, <1>17, <1>18, <1>19, <1>20, <1>21, <1>22,
     <1>23, <1>24, <1>25, <1>26
     DEF Next, LoopStep, OutsideStep, Environment

\* The stages of the server's life.
LEMMA ServerStagesKept ==
  ServerInv /\ P!PollerInv' /\ [Next]_vars => ServerStages'
<1> SUFFICES ASSUME ServerInv, P!PollerInv', [Next]_vars
             PROVE  ServerStages'
  OBVIOUS
<1> USE Constants, UseFacts, PollerFacts, TypeFacts, ServerAssumption
<1> USE DEF serverOnly, objectVars, registrationVars, loopVars, pollerVars,
        tableVars, queueVars, ownerVars, userOnly, noChannel, opens, closes,
        setEvents, disableAll, removeChannel, onlyRemoves, Outside, Running,
        Handles, onlyLogs, queueDestroyed, InDestructor, UserCode,
        UserCallbacks, Live, isUp
<1>1. CASE TcpServer
  BY <1>1 DEF TcpServer, ServerInv, ServerStages, Mapped
<1>2. CASE start
  BY <1>2 DEF start, ServerInv, ServerStages, Mapped
<1>3. CASE StartLoop
  BY <1>3 DEF StartLoop, ServerInv, ServerStages, Mapped
<1>4. ASSUME NEW c \in Conns, destroyConnection(c)
      PROVE  ServerStages'
  BY <1>4, Unmapped DEF destroyConnection, ServerInv, ServerStages
<1>5. ASSUME NEW c \in Conns, connectDestroyed(c)
      PROVE  ServerStages'
  BY <1>5 DEF connectDestroyed, ServerInv, ServerStages, Mapped
<1>6. CASE destroyAcceptor
  BY <1>6 DEF destroyAcceptor, ServerInv, ServerStages, Mapped, QueueStages
<1>7. ASSUME NEW ready \in SUBSET P!Reportable, poll(ready)
      PROVE  ServerStages'
  BY <1>7 DEF poll, ServerInv, ServerStages, Mapped
<1>8. ASSUME NEW c \in Channels, HandleEvent(c)
      PROVE  ServerStages'
  BY <1>8 DEF HandleEvent, ServerInv, ServerStages, Mapped
<1>9. CASE handlerReturns
  BY <1>9 DEF handlerReturns, ServerInv, ServerStages, Mapped
<1>10. CASE RunFunctors
  BY <1>10 DEF RunFunctors, ServerInv, ServerStages, Mapped
<1>11. CASE dropBatch
  BY <1>11 DEF dropBatch, ServerInv, ServerStages, Mapped
<1>12. CASE EndIteration
  BY <1>12 DEF EndIteration, ServerInv, ServerStages, Mapped
<1>13. ASSUME NEW c \in Conns, NEW f \in Fds, accept(c, f)
       PROVE  ServerStages'
  BY <1>13, AcceptFacts DEF accept, ServerInv, ServerStages, KeepsChannel
<1>14. CASE acceptFails
  BY <1>14 DEF acceptFails, ServerInv, ServerStages, Mapped
<1>15. ASSUME NEW c \in Conns, Release(c)
       PROVE  ServerStages'
  BY <1>15 DEF Release, ServerInv, ServerStages, Mapped
<1>16. ASSUME NEW c \in Conns, connectEstablished(c)
       PROVE  ServerStages'
  BY <1>16 DEF connectEstablished, ServerInv, ServerStages, Mapped
<1>17. ASSUME NEW c \in Conns, message(c)
       PROVE  ServerStages'
  BY <1>17 DEF message, ServerInv, ServerStages, Mapped
<1>18. ASSUME NEW c \in Conns, handleClose(c)
       PROVE  ServerStages'
  BY <1>18 DEF handleClose, ServerInv, ServerStages, Mapped
<1>19. ASSUME NEW c \in Conns, removeConnection(c)
       PROVE  ServerStages'
  BY <1>19 DEF removeConnection, ServerInv, ServerStages, CallStages, Mapped
<1>20. ASSUME NEW c \in Conns, runConnectDestroyed(c)
       PROVE  ServerStages'
  BY <1>20 DEF runConnectDestroyed, ServerInv, ServerStages, Mapped
<1>21. CASE PeerConnects
  BY <1>21 DEF PeerConnects, ServerInv, ServerStages, Mapped
<1>22. CASE PeerAborts
  BY <1>22 DEF PeerAborts, ServerInv, ServerStages, Mapped
<1>23. CASE userKeeps
  BY <1>23 DEF userKeeps, ServerInv, ServerStages, Mapped
<1>24. ASSUME NEW c \in Conns, userDrops(c)
       PROVE  ServerStages'
  BY <1>24 DEF userDrops, ServerInv, ServerStages, Mapped
<1>25. ASSUME NEW c \in Conns, userShutsDown(c)
       PROVE  ServerStages'
  BY <1>25 DEF userShutsDown, ServerInv, ServerStages, Mapped
<1>26. CASE UNCHANGED vars
  BY <1>26 DEF vars, ServerInv, ServerStages, Mapped
<1> QED
  BY <1>1, <1>2, <1>3, <1>4, <1>5, <1>6, <1>7, <1>8, <1>9, <1>10, <1>11, <1>12,
     <1>13, <1>14, <1>15, <1>16, <1>17, <1>18, <1>19, <1>20, <1>21, <1>22,
     <1>23, <1>24, <1>25, <1>26
     DEF Next, LoopStep, OutsideStep, Environment

\* The names in the map.
LEMMA NamesUsedKept == ServerInv /\ P!PollerInv' /\ [Next]_vars => NamesUsed'
<1> SUFFICES ASSUME ServerInv, P!PollerInv', [Next]_vars
             PROVE  NamesUsed'
  OBVIOUS
<1> USE Constants, UseFacts, PollerFacts, TypeFacts, ServerAssumption
<1> USE DEF serverOnly, objectVars, registrationVars, loopVars, pollerVars,
        tableVars, queueVars, ownerVars, userOnly, noChannel, opens, closes,
        setEvents, disableAll, removeChannel, onlyRemoves, Outside, Running,
        Handles, onlyLogs, queueDestroyed, InDestructor, UserCode,
        UserCallbacks, Live, isUp
<1>1. CASE TcpServer
  <2>1. Unborn' = Unborn
    BY <1>1 DEF TcpServer, Unborn
  <2> QED
    BY <1>1, <2>1 DEF TcpServer, ServerInv, NamesUsed
<1>2. CASE start
  BY <1>2 DEF start, ServerInv, NamesUsed, Unborn, Mapped
<1>3. CASE StartLoop
  BY <1>3 DEF StartLoop, ServerInv, NamesUsed, Unborn, Mapped
<1>4. ASSUME NEW c \in Conns, destroyConnection(c)
      PROVE  NamesUsed'
  <2>1. Unborn' = Unborn /\ nextConnId_' = nextConnId_ /\ name_' = name_
    BY <1>4 DEF destroyConnection, Unborn
  <2>2. \A n \in Names : connectionMap_'[n] # Null =>
          connectionMap_'[n] = connectionMap_[n]
    BY <1>4, Unmapped, <2>1 DEF destroyConnection
  <2> QED
    BY <2>1, <2>2 DEF ServerInv, NamesUsed
<1>5. ASSUME NEW c \in Conns, connectDestroyed(c)
      PROVE  NamesUsed'
  BY <1>5 DEF connectDestroyed, ServerInv, NamesUsed, Unborn, Mapped
<1>6. CASE destroyAcceptor
  <2>1. Unborn' = Unborn
    BY <1>6 DEF destroyAcceptor, Unborn
  <2> QED
    BY <1>6, <2>1 DEF destroyAcceptor, ServerInv, NamesUsed
<1>7. ASSUME NEW ready \in SUBSET P!Reportable, poll(ready)
      PROVE  NamesUsed'
  BY <1>7 DEF poll, ServerInv, NamesUsed, Unborn, Mapped
<1>8. ASSUME NEW c \in Channels, HandleEvent(c)
      PROVE  NamesUsed'
  BY <1>8 DEF HandleEvent, ServerInv, NamesUsed, Unborn, Mapped
<1>9. CASE handlerReturns
  BY <1>9 DEF handlerReturns, ServerInv, NamesUsed, Unborn, Mapped
<1>10. CASE RunFunctors
  BY <1>10 DEF RunFunctors, ServerInv, NamesUsed, Unborn, Mapped
<1>11. CASE dropBatch
  BY <1>11 DEF dropBatch, ServerInv, NamesUsed, Unborn, Mapped
<1>12. CASE EndIteration
  BY <1>12 DEF EndIteration, ServerInv, NamesUsed, Unborn, Mapped
<1>13. ASSUME NEW c \in Conns, NEW f \in Fds, accept(c, f)
       PROVE  NamesUsed'
  <2>1. /\ nextConnId_' = Cardinality(Conns \ Unborn') + 1
        /\ nextConnId_' = nextConnId_ + 1
    BY <1>13, AcceptFacts DEF accept, nextId
  <2>2. ASSUME NEW n \in Names, connectionMap_'[n] # Null
        PROVE  n < nextConnId_' /\ name_'[connectionMap_'[n]] = n
    <3>1. CASE n = nextConnId_
      BY <1>13, <2>1, <3>1, AcceptFacts
    <3>2. CASE n # nextConnId_
      <4>1. /\ connectionMap_'[n] = connectionMap_[n]
            /\ n < nextConnId_ /\ name_[connectionMap_[n]] = n
        BY <1>13, <2>2, <3>2, AcceptFacts DEF ServerInv, NamesUsed
      <4>2. connectionMap_[n] # c
        BY <1>13, <4>1, AcceptFacts
           DEF accept, ServerInv, ConnectionStages, KeepsChannel, Mapped
      <4>3. name_'[connectionMap_'[n]] = n
        BY <1>13, <2>2, <4>1, <4>2, AcceptFacts
      <4> QED
        BY <2>1, <4>1, <4>3 DEF Names
    <3> QED
      BY <3>1, <3>2
  <2> QED
    BY <2>1, <2>2 DEF NamesUsed
<1>14. CASE acceptFails
  BY <1>14 DEF acceptFails, ServerInv, NamesUsed, Unborn, Mapped
<1>15. ASSUME NEW c \in Conns, Release(c)
       PROVE  NamesUsed'
  BY <1>15 DEF Release, ServerInv, NamesUsed, Unborn, Mapped
<1>16. ASSUME NEW c \in Conns, connectEstablished(c)
       PROVE  NamesUsed'
  BY <1>16 DEF connectEstablished, ServerInv, NamesUsed, Unborn, Mapped
<1>17. ASSUME NEW c \in Conns, message(c)
       PROVE  NamesUsed'
  BY <1>17 DEF message, ServerInv, NamesUsed, Unborn, Mapped
<1>18. ASSUME NEW c \in Conns, handleClose(c)
       PROVE  NamesUsed'
  BY <1>18 DEF handleClose, ServerInv, NamesUsed, Unborn, Mapped
<1>19. ASSUME NEW c \in Conns, removeConnection(c)
       PROVE  NamesUsed'
  BY <1>19 DEF removeConnection, ServerInv, NamesUsed, Unborn, CallStages
<1>20. ASSUME NEW c \in Conns, runConnectDestroyed(c)
       PROVE  NamesUsed'
  BY <1>20 DEF runConnectDestroyed, ServerInv, NamesUsed, Unborn, Mapped
<1>21. CASE PeerConnects
  BY <1>21 DEF PeerConnects, ServerInv, NamesUsed, Unborn, Mapped
<1>22. CASE PeerAborts
  BY <1>22 DEF PeerAborts, ServerInv, NamesUsed, Unborn, Mapped
<1>23. CASE userKeeps
  BY <1>23 DEF userKeeps, ServerInv, NamesUsed, Unborn, Mapped
<1>24. ASSUME NEW c \in Conns, userDrops(c)
       PROVE  NamesUsed'
  BY <1>24 DEF userDrops, ServerInv, NamesUsed, Unborn, Mapped
<1>25. ASSUME NEW c \in Conns, userShutsDown(c)
       PROVE  NamesUsed'
  BY <1>25 DEF userShutsDown, ServerInv, NamesUsed, Unborn, Mapped
<1>26. CASE UNCHANGED vars
  BY <1>26 DEF vars, ServerInv, NamesUsed, Unborn, Mapped
<1> QED
  BY <1>1, <1>2, <1>3, <1>4, <1>5, <1>6, <1>7, <1>8, <1>9, <1>10, <1>11, <1>12,
     <1>13, <1>14, <1>15, <1>16, <1>17, <1>18, <1>19, <1>20, <1>21, <1>22,
     <1>23, <1>24, <1>25, <1>26
     DEF Next, LoopStep, OutsideStep, Environment

\* The stages of a connection's life.
LEMMA ConnectionStagesKept ==
  ServerInv /\ P!PollerInv' /\ [Next]_vars => ConnectionStages'
<1> SUFFICES ASSUME ServerInv, P!PollerInv', [Next]_vars
             PROVE  ConnectionStages'
  OBVIOUS
<1> USE Constants, UseFacts, PollerFacts, TypeFacts, ServerAssumption
<1> USE DEF serverOnly, objectVars, registrationVars, loopVars, pollerVars,
        tableVars, queueVars, ownerVars, userOnly, noChannel, opens, closes,
        setEvents, disableAll, removeChannel, onlyRemoves, Outside, Running,
        Handles, onlyLogs, queueDestroyed, InDestructor, UserCode,
        UserCallbacks, Live, isUp
<1>1. CASE TcpServer
  BY <1>1
     DEF TcpServer, ServerInv, ConnectionStages, KeepsChannel, QueueStages,
         CallStages, Mapped
<1>2. CASE start
  BY <1>2
     DEF start, ServerInv, ConnectionStages, KeepsChannel, QueueStages,
         CallStages, Mapped
<1>3. CASE StartLoop
  BY <1>3
     DEF StartLoop, ServerInv, ConnectionStages, KeepsChannel, QueueStages,
         CallStages, Mapped
<1>4. ASSUME NEW c \in Conns, destroyConnection(c)
      PROVE  ConnectionStages'
  <2>1. /\ life' = life /\ name_' = name_ /\ server' = "destroying"
        /\ UNCHANGED <<pendingFunctor_, batch, activeChannels_, current>>
        /\ call = "none" /\ phase = "out" /\ Mapped(c)
        /\ \A d \in Conns : d # c =>
             removed'[d] = removed[d] /\ state_'[d] = state_[d]
        /\ \A d \in Conns : Mapped(d)' <=> Mapped(d) /\ d # c
    BY <1>4, Unmapped DEF destroyConnection
  <2>2. call' = "none" => removed'[c]
    BY <1>4 DEF destroyConnection
  <2>3. call' = "destroyed" => arg' = c /\ removed'[c] = removed[c]
    BY <1>4 DEF destroyConnection
  <2>4. call' \in {"none", "destroyed"} /\ (arg' = c \/ call' = "none")
    BY <1>4 DEF destroyConnection
  <2>5. \A d \in Conns : KeepsChannel(d)' <=>
          IF d = c THEN call' = "destroyed" ELSE KeepsChannel(d)
    BY <2>1, <2>3, <2>4 DEF KeepsChannel, ServerInv, QueueStages
  <2>6. ASSUME NEW d \in Conns
        PROVE  /\ Live(d)' <=> Live(d)
               /\ life'[d] = life[d]
    BY <2>1
  <2>7. Live(c) /\ ~removed[c] /\ c \notin pendingFunctor_ \cup batch
    BY <2>1 DEF ServerInv, ConnectionStages, KeepsChannel
  <2>8. /\ Live(c)' /\ (removed'[c] <=> call' = "none")
        /\ ~(Mapped(c)') /\ life'[c] # "unborn"
    BY <2>1, <2>2, <2>3, <2>4, <2>7
  <2>9. \A d \in Conns \ {c} :
          /\ life[d] = "unborn" => state_[d] = "kConnecting"
          /\ KeepsChannel(d) => Live(d)
          /\ Live(d) => (removed[d] <=> ~KeepsChannel(d))
          /\ Mapped(d) => state_[d] # "kDisconnected"
          /\ Mapped(d) => d \notin pendingFunctor_ \cup batch
          /\ d \in pendingFunctor_ => d \notin activeChannels_ /\ d # current
    BY <2>1 DEF ServerInv, ConnectionStages
  <2> QED
    BY <2>1, <2>2, <2>3, <2>4, <2>5, <2>7, <2>8, <2>9 DEF ConnectionStages
<1>5. ASSUME NEW c \in Conns, connectDestroyed(c)
      PROVE  ConnectionStages'
  <2>1. /\ life' = life /\ state_' = state_ /\ server' = server
        /\ UNCHANGED <<pendingFunctor_, batch, activeChannels_, current>>
        /\ call' = "none" /\ phase = "out"
        /\ \A d \in Conns : removed'[d] <=> removed[d] \/ d = c
        /\ \A d \in Conns : Mapped(d)' <=> Mapped(d)
    BY <1>5 DEF connectDestroyed, Mapped
  <2>2. \A d \in Conns : KeepsChannel(d)' <=> KeepsChannel(d) /\ d # c
    BY <1>5, <2>1
       DEF connectDestroyed, KeepsChannel, ServerInv, QueueStages, CallStages
  <2> QED
    BY <1>5, <2>1, <2>2 DEF connectDestroyed, ServerInv, ConnectionStages
<1>6. CASE destroyAcceptor
  BY <1>6
     DEF destroyAcceptor, ServerInv, ConnectionStages, KeepsChannel,
         QueueStages, CallStages, Mapped
<1>7. ASSUME NEW ready \in SUBSET P!Reportable, poll(ready)
      PROVE  ConnectionStages'
  BY <1>7
     DEF poll, ServerInv, ConnectionStages, KeepsChannel, QueueStages,
         CallStages, Mapped
<1>8. ASSUME NEW c \in Channels, HandleEvent(c)
      PROVE  ConnectionStages'
  BY <1>8
     DEF HandleEvent, ServerInv, ConnectionStages, KeepsChannel, QueueStages,
         CallStages, Mapped
<1>9. CASE handlerReturns
  BY <1>9
     DEF handlerReturns, ServerInv, ConnectionStages, KeepsChannel,
         QueueStages, CallStages, Mapped
<1>10. CASE RunFunctors
  BY <1>10
     DEF RunFunctors, ServerInv, ConnectionStages, KeepsChannel, QueueStages,
         CallStages, Mapped
<1>11. CASE dropBatch
  BY <1>11
     DEF dropBatch, ServerInv, ConnectionStages, KeepsChannel, QueueStages,
         CallStages, Mapped
<1>12. CASE EndIteration
  BY <1>12
     DEF EndIteration, ServerInv, ConnectionStages, KeepsChannel, QueueStages,
         CallStages, Mapped
<1>13. ASSUME NEW c \in Conns, NEW f \in Fds, accept(c, f)
       PROVE  ConnectionStages'
  BY <1>13, AcceptFacts
     DEF accept, ServerInv, ConnectionStages, KeepsChannel, QueueStages,
         CallStages
<1>14. CASE acceptFails
  BY <1>14
     DEF acceptFails, ServerInv, ConnectionStages, KeepsChannel, QueueStages,
         CallStages, Mapped
<1>15. ASSUME NEW c \in Conns, Release(c)
       PROVE  ConnectionStages'
  <2>1. /\ UNCHANGED <<removed, state_, server, call, arg,
                       pendingFunctor_, batch, activeChannels_, current>>
        /\ \A d \in Conns : life'[d] = IF d = c THEN "dead" ELSE life[d]
        /\ \A d \in Conns : Mapped(d)' <=> Mapped(d)
    BY <1>15 DEF Release, Mapped
  <2>2. \A d \in Conns : KeepsChannel(d)' <=> KeepsChannel(d)
    BY <2>1 DEF KeepsChannel
  <2>3. ~KeepsChannel(c)
    BY <1>15 DEF Release, Referenced, KeepsChannel
  <2> QED
    BY <2>1, <2>2, <2>3 DEF ServerInv, ConnectionStages
<1>16. ASSUME NEW c \in Conns, connectEstablished(c)
       PROVE  ConnectionStages'
  BY <1>16
     DEF connectEstablished, ServerInv, ConnectionStages, KeepsChannel,
         QueueStages, CallStages, Mapped
<1>17. ASSUME NEW c \in Conns, message(c)
       PROVE  ConnectionStages'
  BY <1>17
     DEF message, ServerInv, ConnectionStages, KeepsChannel, QueueStages,
         CallStages, Mapped
<1>18. ASSUME NEW c \in Conns, handleClose(c)
       PROVE  ConnectionStages'
  BY <1>18
     DEF handleClose, ServerInv, ConnectionStages, KeepsChannel, QueueStages,
         CallStages, Mapped
<1>19. ASSUME NEW c \in Conns, removeConnection(c)
       PROVE  ConnectionStages'
  <2>1. /\ Mapped(c) /\ call = "down" /\ arg = c /\ current = c
        /\ phase = "events" /\ call' = "none" /\ current' = Null
        /\ UNCHANGED <<life, removed, state_, server, batch, activeChannels_>>
        /\ pendingFunctor_' = pendingFunctor_ \cup {c}
    BY <1>19 DEF removeConnection, ServerInv, CallStages
  <2>2. \A d \in Conns : Mapped(d)' <=> Mapped(d) /\ d # c
    BY <1>19, <2>1, Unmapped DEF removeConnection
  <2>3. \A d \in Conns : KeepsChannel(d)' <=> KeepsChannel(d)
    BY <2>1, <2>2 DEF KeepsChannel
  <2>4. c \notin activeChannels_
    BY <2>1 DEF ServerInv, QueueStages
  <2> QED
    BY <2>1, <2>2, <2>3, <2>4 DEF ServerInv, ConnectionStages
<1>20. ASSUME NEW c \in Conns, runConnectDestroyed(c)
       PROVE  ConnectionStages'
  BY <1>20
     DEF runConnectDestroyed, ServerInv, ConnectionStages, KeepsChannel,
         QueueStages, CallStages, Mapped
<1>21. CASE PeerConnects
  BY <1>21
     DEF PeerConnects, ServerInv, ConnectionStages, KeepsChannel, QueueStages,
         CallStages, Mapped
<1>22. CASE PeerAborts
  BY <1>22
     DEF PeerAborts, ServerInv, ConnectionStages, KeepsChannel, QueueStages,
         CallStages, Mapped
<1>23. CASE userKeeps
  BY <1>23
     DEF userKeeps, ServerInv, ConnectionStages, KeepsChannel, QueueStages,
         CallStages, Mapped
<1>24. ASSUME NEW c \in Conns, userDrops(c)
       PROVE  ConnectionStages'
  BY <1>24
     DEF userDrops, ServerInv, ConnectionStages, KeepsChannel, QueueStages,
         CallStages, Mapped
<1>25. ASSUME NEW c \in Conns, userShutsDown(c)
       PROVE  ConnectionStages'
  BY <1>25
     DEF userShutsDown, ServerInv, ConnectionStages, KeepsChannel, QueueStages,
         CallStages, Mapped
<1>26. CASE UNCHANGED vars
  BY <1>26
     DEF vars, ServerInv, ConnectionStages, KeepsChannel, QueueStages,
         CallStages, Mapped
<1> QED
  BY <1>1, <1>2, <1>3, <1>4, <1>5, <1>6, <1>7, <1>8, <1>9, <1>10, <1>11, <1>12,
     <1>13, <1>14, <1>15, <1>16, <1>17, <1>18, <1>19, <1>20, <1>21, <1>22,
     <1>23, <1>24, <1>25, <1>26
     DEF Next, LoopStep, OutsideStep, Environment

\* Which connections may be up.
LEMMA LifeStagesKept == ServerInv /\ P!PollerInv' /\ [Next]_vars => LifeStages'
<1> SUFFICES ASSUME ServerInv, P!PollerInv', [Next]_vars
             PROVE  LifeStages'
  OBVIOUS
<1> USE Constants, UseFacts, PollerFacts, TypeFacts, ServerAssumption
<1> USE DEF serverOnly, objectVars, registrationVars, loopVars, pollerVars,
        tableVars, queueVars, ownerVars, userOnly, noChannel, opens, closes,
        setEvents, disableAll, removeChannel, onlyRemoves, Outside, Running,
        Handles, onlyLogs, queueDestroyed, InDestructor, UserCode,
        UserCallbacks, Live, isUp
<1>1. CASE TcpServer
  BY <1>1 DEF TcpServer, ServerInv, LifeStages, CallStages, Mapped
<1>2. CASE start
  BY <1>2 DEF start, ServerInv, LifeStages, CallStages, Mapped
<1>3. CASE StartLoop
  BY <1>3 DEF StartLoop, ServerInv, LifeStages, CallStages, Mapped
<1>4. ASSUME NEW c \in Conns, destroyConnection(c)
      PROVE  LifeStages'
  <2>1. /\ life' = life /\ call = "none" /\ Mapped(c)
        /\ \A d \in Conns : d # c => state_'[d] = state_[d]
        /\ \A d \in Conns : Mapped(d)' <=> Mapped(d) /\ d # c
    BY <1>4, Unmapped DEF destroyConnection
  <2>2. Live(c) /\ state_[c] # "kConnecting"
    BY <2>1 DEF ServerInv, LifeStages, ConnectionStages, KeepsChannel
  <2>3. state_'[c] \in {"kDisconnecting", "kDisconnected"}
    BY <1>4, <2>2 DEF destroyConnection
  <2> QED
    BY <2>1, <2>3 DEF ServerInv, LifeStages
<1>5. ASSUME NEW c \in Conns, connectDestroyed(c)
      PROVE  LifeStages'
  BY <1>5 DEF connectDestroyed, ServerInv, LifeStages, CallStages, Mapped
<1>6. CASE destroyAcceptor
  BY <1>6 DEF destroyAcceptor, ServerInv, LifeStages, CallStages, Mapped
<1>7. ASSUME NEW ready \in SUBSET P!Reportable, poll(ready)
      PROVE  LifeStages'
  BY <1>7 DEF poll, ServerInv, LifeStages, CallStages, Mapped
<1>8. ASSUME NEW c \in Channels, HandleEvent(c)
      PROVE  LifeStages'
  BY <1>8 DEF HandleEvent, ServerInv, LifeStages, CallStages, Mapped
<1>9. CASE handlerReturns
  BY <1>9 DEF handlerReturns, ServerInv, LifeStages, CallStages, Mapped
<1>10. CASE RunFunctors
  BY <1>10 DEF RunFunctors, ServerInv, LifeStages, CallStages, Mapped
<1>11. CASE dropBatch
  BY <1>11 DEF dropBatch, ServerInv, LifeStages, CallStages, Mapped
<1>12. CASE EndIteration
  BY <1>12 DEF EndIteration, ServerInv, LifeStages, CallStages, Mapped
<1>13. ASSUME NEW c \in Conns, NEW f \in Fds, accept(c, f)
      PROVE  LifeStages'
  BY <1>13, AcceptFacts DEF accept, ServerInv, LifeStages, CallStages
<1>14. CASE acceptFails
  BY <1>14 DEF acceptFails, ServerInv, LifeStages, CallStages, Mapped
<1>15. ASSUME NEW c \in Conns, Release(c)
      PROVE  LifeStages'
  BY <1>15 DEF Release, ServerInv, LifeStages, CallStages, Mapped
<1>16. ASSUME NEW c \in Conns, connectEstablished(c)
      PROVE  LifeStages'
  BY <1>16 DEF connectEstablished, ServerInv, LifeStages, CallStages, Mapped
<1>17. ASSUME NEW c \in Conns, message(c)
      PROVE  LifeStages'
  BY <1>17 DEF message, ServerInv, LifeStages, CallStages, Mapped
<1>18. ASSUME NEW c \in Conns, handleClose(c)
      PROVE  LifeStages'
  BY <1>18 DEF handleClose, ServerInv, LifeStages, CallStages, Mapped
<1>19. ASSUME NEW c \in Conns, removeConnection(c)
      PROVE  LifeStages'
  <2>1. Mapped(c) /\ state_[c] = "kDisconnected" /\ call = "down"
    BY <1>19 DEF removeConnection, ServerInv, CallStages, ConnectionStages
  <2>2. \A d \in Conns : Mapped(d)' <=> Mapped(d) /\ d # c
    BY <1>19, <2>1, Unmapped DEF removeConnection
  <2> QED
    BY <1>19, <2>1, <2>2 DEF removeConnection, ServerInv, LifeStages
<1>20. ASSUME NEW c \in Conns, runConnectDestroyed(c)
      PROVE  LifeStages'
  BY <1>20 DEF runConnectDestroyed, ServerInv, LifeStages, CallStages, Mapped
<1>21. CASE PeerConnects
  BY <1>21 DEF PeerConnects, ServerInv, LifeStages, CallStages, Mapped
<1>22. CASE PeerAborts
  BY <1>22 DEF PeerAborts, ServerInv, LifeStages, CallStages, Mapped
<1>23. CASE userKeeps
  BY <1>23 DEF userKeeps, ServerInv, LifeStages, CallStages, Mapped
<1>24. ASSUME NEW c \in Conns, userDrops(c)
      PROVE  LifeStages'
  BY <1>24 DEF userDrops, ServerInv, LifeStages, CallStages, Mapped
<1>25. ASSUME NEW c \in Conns, userShutsDown(c)
      PROVE  LifeStages'
  BY <1>25 DEF userShutsDown, ServerInv, LifeStages, CallStages, Mapped
<1>26. CASE UNCHANGED vars
  BY <1>26 DEF vars, ServerInv, LifeStages, CallStages, Mapped
<1> QED
  BY <1>1, <1>2, <1>3, <1>4, <1>5, <1>6, <1>7, <1>8, <1>9, <1>10, <1>11, <1>12,
     <1>13, <1>14, <1>15, <1>16, <1>17, <1>18, <1>19, <1>20, <1>21, <1>22,
     <1>23, <1>24, <1>25, <1>26
     DEF Next, LoopStep, OutsideStep, Environment

\* Functors and the walk over active channels.
LEMMA QueueStagesKept ==
  ServerInv /\ P!PollerInv' /\ [Next]_vars => QueueStages'
<1> SUFFICES ASSUME ServerInv, P!PollerInv', [Next]_vars
             PROVE  QueueStages'
  OBVIOUS
<1> USE Constants, UseFacts, PollerFacts, TypeFacts, ServerAssumption
<1> USE DEF serverOnly, objectVars, registrationVars, loopVars, pollerVars,
        tableVars, queueVars, ownerVars, userOnly, noChannel, opens, closes,
        setEvents, disableAll, removeChannel, onlyRemoves, Outside, Running,
        Handles, onlyLogs, queueDestroyed, InDestructor, UserCode,
        UserCallbacks, Live, isUp
<1>1. CASE TcpServer
  BY <1>1 DEF TcpServer, ServerInv, QueueStages, Mapped
<1>2. CASE start
  BY <1>2 DEF start, ServerInv, QueueStages, Mapped
<1>3. CASE StartLoop
  BY <1>3 DEF StartLoop, ServerInv, QueueStages, Mapped
<1>4. ASSUME NEW c \in Conns, destroyConnection(c)
      PROVE  QueueStages'
  BY <1>4, Unmapped DEF destroyConnection, ServerInv, QueueStages
<1>5. ASSUME NEW c \in Conns, connectDestroyed(c)
      PROVE  QueueStages'
  BY <1>5 DEF connectDestroyed, ServerInv, QueueStages, Mapped
<1>6. CASE destroyAcceptor
  BY <1>6 DEF destroyAcceptor, ServerInv, QueueStages, Mapped
<1>7. ASSUME NEW ready \in SUBSET P!Reportable, poll(ready)
      PROVE  QueueStages'
  BY <1>7 DEF poll, ServerInv, QueueStages, Mapped, P!Reportable
<1>8. ASSUME NEW c \in Channels, HandleEvent(c)
      PROVE  QueueStages'
  BY <1>8 DEF HandleEvent, ServerInv, QueueStages, Mapped
<1>9. CASE handlerReturns
  BY <1>9 DEF handlerReturns, ServerInv, QueueStages, Mapped
<1>10. CASE RunFunctors
  BY <1>10 DEF RunFunctors, ServerInv, QueueStages, Mapped
<1>11. CASE dropBatch
  BY <1>11 DEF dropBatch, ServerInv, QueueStages, Mapped
<1>12. CASE EndIteration
  BY <1>12 DEF EndIteration, ServerInv, QueueStages, Mapped
<1>13. ASSUME NEW c \in Conns, NEW f \in Fds, accept(c, f)
       PROVE  QueueStages'
  BY <1>13, AcceptFacts DEF accept, ServerInv, QueueStages, KeepsChannel
<1>14. CASE acceptFails
  BY <1>14 DEF acceptFails, ServerInv, QueueStages, Mapped
<1>15. ASSUME NEW c \in Conns, Release(c)
       PROVE  QueueStages'
  BY <1>15 DEF Release, ServerInv, QueueStages, Mapped
<1>16. ASSUME NEW c \in Conns, connectEstablished(c)
       PROVE  QueueStages'
  BY <1>16 DEF connectEstablished, ServerInv, QueueStages, Mapped
<1>17. ASSUME NEW c \in Conns, message(c)
       PROVE  QueueStages'
  BY <1>17 DEF message, ServerInv, QueueStages, Mapped
<1>18. ASSUME NEW c \in Conns, handleClose(c)
       PROVE  QueueStages'
  BY <1>18 DEF handleClose, ServerInv, QueueStages, Mapped
<1>19. ASSUME NEW c \in Conns, removeConnection(c)
       PROVE  QueueStages'
  BY <1>19, Unmapped DEF removeConnection, ServerInv, QueueStages
<1>20. ASSUME NEW c \in Conns, runConnectDestroyed(c)
       PROVE  QueueStages'
  BY <1>20 DEF runConnectDestroyed, ServerInv, QueueStages, Mapped
<1>21. CASE PeerConnects
  BY <1>21 DEF PeerConnects, ServerInv, QueueStages, Mapped
<1>22. CASE PeerAborts
  BY <1>22 DEF PeerAborts, ServerInv, QueueStages, Mapped
<1>23. CASE userKeeps
  BY <1>23 DEF userKeeps, ServerInv, QueueStages, Mapped
<1>24. ASSUME NEW c \in Conns, userDrops(c)
       PROVE  QueueStages'
  BY <1>24 DEF userDrops, ServerInv, QueueStages, Mapped
<1>25. ASSUME NEW c \in Conns, userShutsDown(c)
       PROVE  QueueStages'
  BY <1>25 DEF userShutsDown, ServerInv, QueueStages, Mapped
<1>26. CASE UNCHANGED vars
  BY <1>26 DEF vars, ServerInv, QueueStages, Mapped
<1> QED
  BY <1>1, <1>2, <1>3, <1>4, <1>5, <1>6, <1>7, <1>8, <1>9, <1>10, <1>11, <1>12,
     <1>13, <1>14, <1>15, <1>16, <1>17, <1>18, <1>19, <1>20, <1>21, <1>22,
     <1>23, <1>24, <1>25, <1>26
     DEF Next, LoopStep, OutsideStep, Environment

\* Calls in progress.
LEMMA CallStagesKept == ServerInv /\ P!PollerInv' /\ [Next]_vars => CallStages'
<1> SUFFICES ASSUME ServerInv, P!PollerInv', [Next]_vars
             PROVE  CallStages'
  OBVIOUS
<1> USE Constants, UseFacts, PollerFacts, TypeFacts, ServerAssumption
<1> USE DEF serverOnly, objectVars, registrationVars, loopVars, pollerVars,
        tableVars, queueVars, ownerVars, userOnly, noChannel, opens, closes,
        setEvents, disableAll, removeChannel, onlyRemoves, Outside, Running,
        Handles, onlyLogs, queueDestroyed, InDestructor, UserCode,
        UserCallbacks, Live, isUp
<1>1. CASE TcpServer
  BY <1>1 DEF TcpServer, ServerInv, CallStages, ServerStages, Mapped
<1>2. CASE start
  BY <1>2 DEF start, ServerInv, CallStages, ServerStages, Mapped
<1>3. CASE StartLoop
  BY <1>3 DEF StartLoop, ServerInv, CallStages, ServerStages, Mapped
<1>4. ASSUME NEW c \in Conns, destroyConnection(c)
      PROVE  CallStages'
  <2>1. ~(Mapped(c)') /\ server' = "destroying" /\ call = "none" /\ arg = Null
    BY <1>4, Unmapped DEF destroyConnection, ServerInv, CallStages
  <2>2. \/ call' = "none" /\ arg' = Null
        \/ call' = "destroyed" /\ arg' = c
    BY <1>4, <2>1 DEF destroyConnection
  <2> QED
    BY <2>1, <2>2 DEF CallStages
<1>5. ASSUME NEW c \in Conns, connectDestroyed(c)
      PROVE  CallStages'
  BY <1>5 DEF connectDestroyed, ServerInv, CallStages, ServerStages, Mapped
<1>6. CASE destroyAcceptor
  BY <1>6 DEF destroyAcceptor, ServerInv, CallStages, ServerStages, Mapped
<1>7. ASSUME NEW ready \in SUBSET P!Reportable, poll(ready)
      PROVE  CallStages'
  BY <1>7 DEF poll, ServerInv, CallStages, ServerStages, Mapped
<1>8. ASSUME NEW c \in Channels, HandleEvent(c)
      PROVE  CallStages'
  BY <1>8 DEF HandleEvent, ServerInv, CallStages, ServerStages, Mapped
<1>9. CASE handlerReturns
  BY <1>9 DEF handlerReturns, ServerInv, CallStages, ServerStages, Mapped
<1>10. CASE RunFunctors
  BY <1>10 DEF RunFunctors, ServerInv, CallStages, ServerStages, Mapped
<1>11. CASE dropBatch
  BY <1>11 DEF dropBatch, ServerInv, CallStages, ServerStages, Mapped
<1>12. CASE EndIteration
  BY <1>12 DEF EndIteration, ServerInv, CallStages, ServerStages, Mapped
<1>13. ASSUME NEW c \in Conns, NEW f \in Fds, accept(c, f)
       PROVE  CallStages'
  BY <1>13, AcceptFacts
     DEF accept, ServerInv, CallStages, ServerStages, KeepsChannel
<1>14. CASE acceptFails
  BY <1>14 DEF acceptFails, ServerInv, CallStages, ServerStages, Mapped
<1>15. ASSUME NEW c \in Conns, Release(c)
       PROVE  CallStages'
  BY <1>15 DEF Release, ServerInv, CallStages, ServerStages, Mapped
<1>16. ASSUME NEW c \in Conns, connectEstablished(c)
       PROVE  CallStages'
  BY <1>16 DEF connectEstablished, ServerInv, CallStages, ServerStages, Mapped
<1>17. ASSUME NEW c \in Conns, message(c)
       PROVE  CallStages'
  BY <1>17 DEF message, ServerInv, CallStages, ServerStages, Mapped
<1>18. ASSUME NEW c \in Conns, handleClose(c)
       PROVE  CallStages'
  BY <1>18, HandleFacts DEF handleClose, ServerInv, CallStages, Mapped
<1>19. ASSUME NEW c \in Conns, removeConnection(c)
       PROVE  CallStages'
  BY <1>19, Unmapped DEF removeConnection, ServerInv, CallStages, ServerStages
<1>20. ASSUME NEW c \in Conns, runConnectDestroyed(c)
       PROVE  CallStages'
  BY <1>20 DEF runConnectDestroyed, ServerInv, CallStages, ServerStages, Mapped
<1>21. CASE PeerConnects
  BY <1>21 DEF PeerConnects, ServerInv, CallStages, ServerStages, Mapped
<1>22. CASE PeerAborts
  BY <1>22 DEF PeerAborts, ServerInv, CallStages, ServerStages, Mapped
<1>23. CASE userKeeps
  BY <1>23 DEF userKeeps, ServerInv, CallStages, ServerStages, Mapped
<1>24. ASSUME NEW c \in Conns, userDrops(c)
       PROVE  CallStages'
  BY <1>24 DEF userDrops, ServerInv, CallStages, ServerStages, Mapped
<1>25. ASSUME NEW c \in Conns, userShutsDown(c)
       PROVE  CallStages'
  BY <1>25 DEF userShutsDown, ServerInv, CallStages, ServerStages, Mapped
<1>26. CASE UNCHANGED vars
  BY <1>26 DEF vars, ServerInv, CallStages, ServerStages, Mapped
<1> QED
  BY <1>1, <1>2, <1>3, <1>4, <1>5, <1>6, <1>7, <1>8, <1>9, <1>10, <1>11, <1>12,
     <1>13, <1>14, <1>15, <1>16, <1>17, <1>18, <1>19, <1>20, <1>21, <1>22,
     <1>23, <1>24, <1>25, <1>26
     DEF Next, LoopStep, OutsideStep, Environment

\* Objects that nobody holds any more.
LEMMA LastOneKept == ServerInv /\ P!PollerInv' /\ [Next]_vars => LastOne'
<1> SUFFICES ASSUME ServerInv, P!PollerInv', [Next]_vars
             PROVE  LastOne'
  OBVIOUS
<1> USE Constants, UseFacts, PollerFacts, TypeFacts, ServerAssumption
<1> USE DEF serverOnly, objectVars, registrationVars, loopVars, pollerVars,
        tableVars, queueVars, ownerVars, userOnly, noChannel, opens, closes,
        setEvents, disableAll, removeChannel, onlyRemoves, Outside, Running,
        Handles, onlyLogs, queueDestroyed, InDestructor, UserCode,
        UserCallbacks, Live, isUp
<1>1. CASE TcpServer
  BY <1>1
     DEF TcpServer, ServerInv, LastOne, Settled, Referenced, QueueStages,
         CallStages, Mapped
<1>2. CASE start
  BY <1>2
     DEF start, ServerInv, LastOne, Settled, Referenced, QueueStages,
         CallStages, Mapped
<1>3. CASE StartLoop
  BY <1>3
     DEF StartLoop, ServerInv, LastOne, Settled, Referenced, QueueStages,
         CallStages, Mapped
<1>4. ASSUME NEW c \in Conns, destroyConnection(c)
      PROVE  LastOne'
  BY <1>4, Unmapped
     DEF destroyConnection, ServerInv, LastOne, Settled, Referenced,
         QueueStages, CallStages
<1>5. ASSUME NEW c \in Conns, connectDestroyed(c)
      PROVE  LastOne'
  BY <1>5
     DEF connectDestroyed, ServerInv, LastOne, Settled, Referenced,
         QueueStages, CallStages, Mapped
<1>6. CASE destroyAcceptor
  BY <1>6
     DEF destroyAcceptor, ServerInv, LastOne, Settled, Referenced, QueueStages,
         CallStages, Mapped
<1>7. ASSUME NEW ready \in SUBSET P!Reportable, poll(ready)
      PROVE  LastOne'
  BY <1>7
     DEF poll, ServerInv, LastOne, Settled, Referenced, QueueStages,
         CallStages, Mapped
<1>8. ASSUME NEW c \in Channels, HandleEvent(c)
      PROVE  LastOne'
  BY <1>8
     DEF HandleEvent, ServerInv, LastOne, Settled, Referenced, QueueStages,
         CallStages, Mapped
<1>9. CASE handlerReturns
  <2>1. /\ Settled /\ current # Null /\ call \in {"none", "up", "message"}
        /\ UNCHANGED <<life, connectionMap_, name_, queueVars, held>>
    BY <1>9 DEF handlerReturns
  <2>2. ASSUME NEW c \in Conns, c \in {arg, current}
        PROVE  Mapped(c) \/ c \in pendingFunctor_ \cup batch
    <3>1. CASE c = current
      BY <2>1, <3>1 DEF ServerInv, ConnectionStages, KeepsChannel
    <3>2. CASE c = arg /\ c # current
      BY <2>1, <2>2, <3>2 DEF ServerInv, CallStages
    <3> QED
      BY <2>2, <3>1, <3>2
  <2>3. ASSUME NEW c \in Conns, Live(c)
        PROVE  Referenced(c)'
    BY <2>1, <2>2, <2>3 DEF Settled, Referenced, Mapped
  <2> QED
    BY <2>1, <2>3 DEF LastOne, Settled
<1>10. CASE RunFunctors
  BY <1>10
     DEF RunFunctors, ServerInv, LastOne, Settled, Referenced, QueueStages,
         CallStages, Mapped
<1>11. CASE dropBatch
  BY <1>11
     DEF dropBatch, ServerInv, LastOne, Settled, Referenced, QueueStages,
         CallStages, Mapped
<1>12. CASE EndIteration
  BY <1>12
     DEF EndIteration, ServerInv, LastOne, Settled, Referenced, QueueStages,
         CallStages, Mapped
<1>13. ASSUME NEW c \in Conns, NEW f \in Fds, accept(c, f)
       PROVE  LastOne'
  BY <1>13, AcceptFacts
     DEF accept, ServerInv, LastOne, Settled, Referenced, QueueStages,
         CallStages, KeepsChannel
<1>14. CASE acceptFails
  BY <1>14
     DEF acceptFails, ServerInv, LastOne, Settled, Referenced, QueueStages,
         CallStages, Mapped
<1>15. ASSUME NEW c \in Conns, Release(c)
       PROVE  LastOne'
  BY <1>15
     DEF Release, ServerInv, LastOne, Settled, Referenced, QueueStages,
         CallStages, Mapped
<1>16. ASSUME NEW c \in Conns, connectEstablished(c)
       PROVE  LastOne'
  BY <1>16
     DEF connectEstablished, ServerInv, LastOne, Settled, Referenced,
         QueueStages, CallStages, Mapped
<1>17. ASSUME NEW c \in Conns, message(c)
       PROVE  LastOne'
  BY <1>17
     DEF message, ServerInv, LastOne, Settled, Referenced, QueueStages,
         CallStages, Mapped
<1>18. ASSUME NEW c \in Conns, handleClose(c)
       PROVE  LastOne'
  BY <1>18
     DEF handleClose, ServerInv, LastOne, Settled, Referenced, QueueStages,
         CallStages, Mapped
<1>19. ASSUME NEW c \in Conns, removeConnection(c)
       PROVE  LastOne'
  BY <1>19, Unmapped
     DEF removeConnection, ServerInv, LastOne, Settled, Referenced,
         QueueStages, CallStages
<1>20. ASSUME NEW c \in Conns, runConnectDestroyed(c)
       PROVE  LastOne'
  BY <1>20
     DEF runConnectDestroyed, ServerInv, LastOne, Settled, Referenced,
         QueueStages, CallStages, Mapped
<1>21. CASE PeerConnects
  BY <1>21
     DEF PeerConnects, ServerInv, LastOne, Settled, Referenced, QueueStages,
         CallStages, Mapped
<1>22. CASE PeerAborts
  BY <1>22
     DEF PeerAborts, ServerInv, LastOne, Settled, Referenced, QueueStages,
         CallStages, Mapped
<1>23. CASE userKeeps
  BY <1>23
     DEF userKeeps, ServerInv, LastOne, Settled, Referenced, QueueStages,
         CallStages, Mapped
<1>24. ASSUME NEW c \in Conns, userDrops(c)
       PROVE  LastOne'
  BY <1>24
     DEF userDrops, ServerInv, LastOne, Settled, Referenced, QueueStages,
         CallStages, Mapped
<1>25. ASSUME NEW c \in Conns, userShutsDown(c)
       PROVE  LastOne'
  BY <1>25
     DEF userShutsDown, ServerInv, LastOne, Settled, Referenced, QueueStages,
         CallStages, Mapped
<1>26. CASE UNCHANGED vars
  BY <1>26
     DEF vars, ServerInv, LastOne, Settled, Referenced, QueueStages,
         CallStages, Mapped
<1> QED
  BY <1>1, <1>2, <1>3, <1>4, <1>5, <1>6, <1>7, <1>8, <1>9, <1>10, <1>11, <1>12,
     <1>13, <1>14, <1>15, <1>16, <1>17, <1>18, <1>19, <1>20, <1>21, <1>22,
     <1>23, <1>24, <1>25, <1>26
     DEF Next, LoopStep, OutsideStep, Environment

-----------------------------------------------------------------------------
(* What the kernel watches.                                                *)

\* A use of one channel changes nothing of the others.
LEMMA OthersKept ==
  ASSUME ServerInv, NEW c \in Channels, NEW ev,
         setEvents(c, ev) \/ removeChannel(c) \/ closes(c)
  PROVE  \A d \in Channels \ {c} :
           index_'[d] = index_[d] /\ events_'[d] = events_[d]
<1>1. /\ index_ \in [Channels -> {P!kNew, P!kAdded}]
      /\ events_ \in [Channels -> SUBSET P!Events]
  BY DEF ServerInv, P!PollerInv, P!TypeOK
<1> QED
  BY <1>1
     DEF setEvents, removeChannel, closes, registrationVars, objectVars,
         P!updateChannel, P!forgetsIndex, P!removeChannel, P!erase

\* enableReading leaves a channel added, with the event.
LEMMA EnabledIsAdded ==
  ASSUME ServerInv, NEW c \in Channels,
         setEvents(c, events_[c] \cup P!KReadEvent)
  PROVE  index_'[c] = P!kAdded /\ P!KReadEvent \subseteq events_'[c]
<1>1. /\ index_ \in [Channels -> {P!kNew, P!kAdded}]
      /\ events_ \in [Channels -> SUBSET P!Events]
  BY DEF ServerInv, P!PollerInv, P!TypeOK
<1>2. events_[c] \cup P!KReadEvent # P!KNoneEvent
  BY DEF P!KReadEvent, P!KNoneEvent
<1> QED
  BY <1>1, <1>2 DEF setEvents, P!updateChannel

LEMMA WatchedStagesKept ==
  ServerInv /\ P!PollerInv' /\ [Next]_vars => WatchedStages'
<1> SUFFICES ASSUME ServerInv, P!PollerInv', [Next]_vars
             PROVE  WatchedStages'
  OBVIOUS
<1> USE Constants, UseFacts, PollerFacts, TypeFacts, ServerAssumption
<1> USE DEF serverOnly, objectVars, registrationVars, loopVars, pollerVars,
        tableVars, queueVars, ownerVars, userOnly, noChannel, opens,
        disableAll, onlyRemoves, Outside, Running, Handles, onlyLogs,
        queueDestroyed, InDestructor, UserCode, UserCallbacks, Live, isUp
<1>1. CASE TcpServer
  BY <1>1 DEF TcpServer, ServerInv, WatchedStages, Watched, Mapped
<1>2. CASE start
  <2>1. /\ index_'[Listener] = P!kAdded
        /\ P!KReadEvent \subseteq events_'[Listener]
    BY <1>2, EnabledIsAdded DEF start
  <2>2. \A c \in Conns : index_'[c] = index_[c] /\ events_'[c] = events_[c]
    BY <1>2, OthersKept DEF start
  <2>3. \A c \in Conns : Watched(c)' <=> Watched(c)
    BY <1>2 DEF start, Watched, Mapped
  <2> QED
    BY <2>1, <2>2, <2>3 DEF ServerInv, WatchedStages, Channels
<1>3. CASE StartLoop
  BY <1>3 DEF StartLoop, ServerInv, WatchedStages, Watched, Mapped
<1>4. ASSUME NEW c \in Conns, destroyConnection(c)
      PROVE  WatchedStages'
  <2>1. \A d \in Channels \ {c} :
          index_'[d] = index_[d] /\ events_'[d] = events_[d]
    BY <1>4, OthersKept DEF destroyConnection
  <2>2. /\ \A d \in Conns : Mapped(d)' <=> Mapped(d) /\ d # c
        /\ \A d \in Conns : d # c => state_'[d] = state_[d]
        /\ server' = "destroying"
    BY <1>4, Unmapped DEF destroyConnection
  <2>3. \A d \in Channels : Watched(d)' => Watched(d) /\ d # c
    BY <2>2 DEF Watched, Channels
  <2> QED
    BY <2>1, <2>3 DEF ServerInv, WatchedStages
<1>5. ASSUME NEW c \in Conns, connectDestroyed(c)
      PROVE  WatchedStages'
  <2>1. ~Watched(c)
    BY <1>5 DEF connectDestroyed, Watched, ServerInv, CallStages
  <2>2. \A d \in Channels \ {c} :
          index_'[d] = index_[d] /\ events_'[d] = events_[d]
    BY <1>5, OthersKept DEF connectDestroyed
  <2>3. \A d \in Channels : Watched(d)' <=> Watched(d)
    BY <1>5 DEF connectDestroyed, Watched, Mapped, Channels
  <2> QED
    BY <1>5, <2>1, <2>2, <2>3 DEF connectDestroyed, ServerInv, WatchedStages
<1>6. CASE destroyAcceptor
  <2>1. \A c \in Conns : index_'[c] = index_[c] /\ events_'[c] = events_[c]
    BY <1>6, OthersKept DEF destroyAcceptor
  <2>2. \A c \in Channels : Watched(c)' => c \in Conns /\ Watched(c)
    BY <1>6 DEF destroyAcceptor, Watched, Mapped, Channels
  <2> QED
    BY <2>1, <2>2 DEF ServerInv, WatchedStages
<1>7. ASSUME NEW ready \in SUBSET P!Reportable, poll(ready)
      PROVE  WatchedStages'
  BY <1>7 DEF poll, ServerInv, WatchedStages, Watched, Mapped
<1>8. ASSUME NEW c \in Channels, HandleEvent(c)
      PROVE  WatchedStages'
  BY <1>8 DEF HandleEvent, ServerInv, WatchedStages, Watched, Mapped
<1>9. CASE handlerReturns
  BY <1>9 DEF handlerReturns, ServerInv, WatchedStages, Watched, Mapped
<1>10. CASE RunFunctors
  BY <1>10 DEF RunFunctors, ServerInv, WatchedStages, Watched, Mapped
<1>11. CASE dropBatch
  BY <1>11 DEF dropBatch, ServerInv, WatchedStages, Watched, Mapped
<1>12. CASE EndIteration
  BY <1>12 DEF EndIteration, ServerInv, WatchedStages, Watched, Mapped
<1>13. ASSUME NEW c \in Conns, NEW f \in Fds, accept(c, f)
      PROVE  WatchedStages'
  <2>1. \A d \in Channels : Watched(d)' => Watched(d)
    BY <1>13, AcceptFacts DEF accept, Watched, Channels
  <2> QED
    BY <1>13, <2>1 DEF accept, ServerInv, WatchedStages
<1>14. CASE acceptFails
  BY <1>14 DEF acceptFails, ServerInv, WatchedStages, Watched, Mapped
<1>15. ASSUME NEW c \in Conns, Release(c)
      PROVE  WatchedStages'
  BY <1>15 DEF Release, closes, ServerInv, WatchedStages, Watched, Mapped
<1>16. ASSUME NEW c \in Conns, connectEstablished(c)
      PROVE  WatchedStages'
  <2>1. index_'[c] = P!kAdded /\ P!KReadEvent \subseteq events_'[c]
    BY <1>16, EnabledIsAdded DEF connectEstablished
  <2>2. \A d \in Channels \ {c} :
          index_'[d] = index_[d] /\ events_'[d] = events_[d]
    BY <1>16, OthersKept DEF connectEstablished
  <2>3. \A d \in Channels \ {c} : Watched(d)' <=> Watched(d)
    BY <1>16 DEF connectEstablished, Watched, Mapped, Channels
  <2> QED
    BY <2>1, <2>2, <2>3 DEF ServerInv, WatchedStages
<1>17. ASSUME NEW c \in Conns, message(c)
      PROVE  WatchedStages'
  BY <1>17 DEF message, ServerInv, WatchedStages, Watched, Mapped
<1>18. ASSUME NEW c \in Conns, handleClose(c)
      PROVE  WatchedStages'
  <2>1. \A d \in Channels \ {c} :
          index_'[d] = index_[d] /\ events_'[d] = events_[d]
    BY <1>18, OthersKept DEF handleClose
  <2>2. \A d \in Channels : Watched(d)' => Watched(d) /\ d # c
    BY <1>18 DEF handleClose, Watched, Mapped, Channels
  <2> QED
    BY <2>1, <2>2 DEF ServerInv, WatchedStages
<1>19. ASSUME NEW c \in Conns, removeConnection(c)
      PROVE  WatchedStages'
  <2>1. Mapped(c)
    BY <1>19 DEF removeConnection, ServerInv, CallStages
  <2>2. \A d \in Conns : Mapped(d)' <=> Mapped(d) /\ d # c
    BY <1>19, <2>1, Unmapped DEF removeConnection
  <2>3. \A d \in Channels : Watched(d)' => Watched(d)
    BY <1>19, <2>2 DEF removeConnection, Watched, Channels
  <2> QED
    BY <1>19, <2>3 DEF removeConnection, ServerInv, WatchedStages
<1>20. ASSUME NEW c \in Conns, runConnectDestroyed(c)
      PROVE  WatchedStages'
  <2>1. ~Watched(c)
    BY <1>20 DEF runConnectDestroyed, Watched, ServerInv, ConnectionStages
  <2>2. \A d \in Channels \ {c} :
          index_'[d] = index_[d] /\ events_'[d] = events_[d]
    BY <1>20, OthersKept DEF runConnectDestroyed
  <2>3. \A d \in Channels : Watched(d)' <=> Watched(d)
    BY <1>20 DEF runConnectDestroyed, Watched, Mapped, Channels
  <2> QED
    BY <1>20, <2>1, <2>2, <2>3
       DEF runConnectDestroyed, ServerInv, WatchedStages
<1>21. CASE PeerConnects
  BY <1>21 DEF PeerConnects, ServerInv, WatchedStages, Watched, Mapped
<1>22. CASE PeerAborts
  BY <1>22 DEF PeerAborts, ServerInv, WatchedStages, Watched, Mapped
<1>23. CASE userKeeps
  BY <1>23 DEF userKeeps, ServerInv, WatchedStages, Watched, Mapped
<1>24. ASSUME NEW c \in Conns, userDrops(c)
      PROVE  WatchedStages'
  BY <1>24 DEF userDrops, ServerInv, WatchedStages, Watched, Mapped
<1>25. ASSUME NEW c \in Conns, userShutsDown(c)
      PROVE  WatchedStages'
  <2>1. \A d \in Channels : Watched(d)' => Watched(d)
    BY <1>25 DEF userShutsDown, Watched, Mapped, Channels
  <2> QED
    BY <1>25, <2>1 DEF userShutsDown, ServerInv, WatchedStages
<1>26. CASE UNCHANGED vars
  BY <1>26 DEF vars, ServerInv, WatchedStages, Watched, Mapped
<1> QED
  BY <1>1, <1>2, <1>3, <1>4, <1>5, <1>6, <1>7, <1>8, <1>9, <1>10, <1>11, <1>12,
     <1>13, <1>14, <1>15, <1>16, <1>17, <1>18, <1>19, <1>20, <1>21, <1>22,
     <1>23, <1>24, <1>25, <1>26
     DEF Next, LoopStep, OutsideStep, Environment

-----------------------------------------------------------------------------
(* The invariant.                                                          *)

LEMMA InvParts ==
  ServerInv <=> /\ P!PollerInv /\ TypeRest
                /\ ServerStages /\ NamesUsed /\ ConnectionStages
                /\ LifeStages /\ WatchedStages /\ QueueStages
                /\ CallStages /\ LastOne
BY DEF ServerInv, TypeOK, TypeRest, LastOne, P!PollerInv

LEMMA InitEstablishes == Init => ServerInv
<1> SUFFICES ASSUME Init
             PROVE  ServerInv
  OBVIOUS
<1> USE Constants, ServerAssumption
<1>1. P!PollerInv
  <2>1. (CHOOSE f \in Fds : TRUE) \in Fds
    <3>1. \E f : f \in Fds
      BY ServerAssumption
    <3> QED
      BY <3>1, Zenon
  <2>2. fd_ \in [Channels -> Fds]
    BY <2>1 DEF Init
  <2>3. PP!Init
    BY SameInit DEF Init
  <2>4. PP!PollerInv
    BY <2>3, PP!InitEstablishes
  <2> QED
    BY <2>4, SameInv
<1>2. TypeRest
  BY DEF Init, TypeRest, Names, Conns, UserCallbacks
<1>3. /\ life = [c \in Channels |-> "unborn"] /\ phase = "out" /\ current = Null
      /\ activeChannels_ = {}
  BY DEF Init, P!Init
<1>4. NamesUsed
  <2>1. Conns \ Unborn = {}
    BY <1>3 DEF Unborn
  <2>2. Cardinality(Conns \ Unborn) = 0
    BY <2>1, FS_EmptySet
  <2> QED
    BY <2>2 DEF Init, NamesUsed
<1>5. ServerStages /\ QueueStages /\ CallStages
  BY <1>3 DEF Init, ServerStages, QueueStages, CallStages, InDestructor
<1>6. ASSUME NEW c \in Conns
      PROVE  life[c] = "unborn" /\ state_[c] = "kConnecting" /\ ~KeepsChannel(c)
  <2>1. name_[c] \in Names /\ c # Null
    BY DEF Init, Names, Conns
  <2> QED
    BY <1>3, <2>1 DEF Init, KeepsChannel, Mapped
<1>7. ConnectionStages /\ LifeStages /\ WatchedStages /\ LastOne
  BY <1>3, <1>6
     DEF Init, ConnectionStages, LifeStages, WatchedStages, Watched, Channels,
         KeepsChannel, Live, LastOne
<1> QED
  BY <1>1, <1>2, <1>4, <1>5, <1>7, InvParts

LEMMA StepPreserves == ServerInv /\ [Next]_vars => ServerInv'
<1> SUFFICES ASSUME ServerInv, [Next]_vars
             PROVE  ServerInv'
  OBVIOUS
<1>1. P!PollerInv'
  BY PollerSteps, PollerKept, InvParts
<1>2. /\ TypeRest' /\ ServerStages' /\ NamesUsed' /\ ConnectionStages'
      /\ LifeStages' /\ WatchedStages' /\ QueueStages' /\ CallStages'
      /\ LastOne'
  BY <1>1, TypeRestKept, ServerStagesKept, NamesUsedKept,
     ConnectionStagesKept, LifeStagesKept, WatchedStagesKept, QueueStagesKept,
     CallStagesKept, LastOneKept
<1>3. ServerInv' <=> /\ P!PollerInv' /\ TypeRest'
                     /\ ServerStages' /\ NamesUsed' /\ ConnectionStages'
                     /\ LifeStages' /\ WatchedStages' /\ QueueStages'
                     /\ CallStages'
      /\ LastOne'
  BY InvParts, PTL
<1> QED
  BY <1>1, <1>2, <1>3

\* The stages of the server, its connections, its queue and its calls agree in
\* every reachable state, for any number of connections and descriptors
\* (tcpserver.cc:14-106, acceptor.cc:11-74, tcpconnection.cc:216-234).
THEOREM Invariance == Spec => []ServerInv
<1> QED
  BY InitEstablishes, StepPreserves, PTL DEF Spec

\* Every variable has its type.
THEOREM TypeCorrect == Spec => []TypeOK
<1>1. ServerInv => TypeOK
  BY DEF ServerInv
<1> QED
  BY <1>1, Invariance, PTL

\* The server, the acceptor and the connections keep the rules Poller states
\* for the owners of channels, so that what PollerProofs says of every Poller
\* holds of the loop under a whole server.
THEOREM ImplementsPoller == Spec => PollerSpec
<1>1. Init => P!Init
  BY DEF Init
<1> QED
  BY <1>1, PollerSteps, Invariance, PTL DEF Spec, PollerSpec, P!Spec

\* Under a whole server the kernel agrees with what the channels know,
\* epoll_ctl never fails and no pointer of the loop dangles.
THEOREM LoopIsSound ==
  Spec => [](P!KernelAgrees /\ P!NeverFatal /\ P!NoDanglingPointer)
<1>1. ServerInv => P!KernelAgrees /\ P!NeverFatal /\ P!NoDanglingPointer
  <2> SUFFICES ASSUME P!PollerInv
               PROVE  P!KernelAgrees /\ P!NeverFatal /\ P!NoDanglingPointer
    BY DEF ServerInv
  <2>1. P!KernelAgrees
    BY Constants
       DEF P!PollerInv, P!TypeOK, P!KernelEntries, P!Indices, P!KernelAgrees,
           P!Live
  <2>2. P!NeverFatal /\ P!NoDanglingPointer
    BY DEF P!PollerInv, P!MapEntries, P!KernelEntries, P!Walk, P!NeverFatal,
           P!NoDanglingPointer
  <2> QED
    BY <2>1, <2>2
<1> QED
  BY <1>1, Invariance, PTL

\* The acceptor while the server listens, and every open connection, are
\* watched by the kernel for reading.
THEOREM NoneGoesDeaf == Spec => []OpenIsWatched
<1>1. ServerInv => OpenIsWatched
  BY Constants
     DEF ServerInv, P!PollerInv, P!TypeOK, P!KernelEntries, P!Indices, P!Live,
         WatchedStages, OpenIsWatched
<1> QED
  BY <1>1, Invariance, PTL

\* The map holds exactly the connections that were accepted and not closed.
THEOREM MapCorrect == Spec => []MapHoldsOpen
<1>1. ServerInv => MapHoldsOpen
  <2> SUFFICES ASSUME ServerInv, server \in {"built", "listening"},
                      NEW c \in Conns
               PROVE  Mapped(c) <=> /\ Live(c)
                                    /\ \/ state_[c] # "kDisconnected"
                                       \/ call = "down" /\ arg = c
    BY DEF MapHoldsOpen
  <2>1. /\ Mapped(c) => Live(c)
        /\ Mapped(c) =>
             (state_[c] = "kDisconnected" <=> call = "down" /\ arg = c)
        /\ Live(c) => Mapped(c) \/ state_[c] = "kDisconnected"
    BY DEF ServerInv, ConnectionStages, KeepsChannel
  <2>2. call = "down" => Mapped(arg)
    BY DEF ServerInv, CallStages
  <2> QED
    BY <2>1, <2>2
<1> QED
  BY <1>1, Invariance, PTL

\* A destroyed server leaves nothing registered, and no object but those that
\* user code holds.
THEOREM DestroyedClean == Spec => []DestroyedLeavesNothing
<1>1. ServerInv => DestroyedLeavesNothing
  <2> SUFFICES ASSUME ServerInv, server = "gone", Settled
               PROVE  /\ \A f \in Fds : ptr[f] = Null
                      /\ \A n \in Names : connectionMap_[n] = Null
                      /\ \A c \in Conns : Live(c) => c \in held
    BY DEF DestroyedLeavesNothing
  <2> USE Constants, UseFacts, TypeFacts
  <2>1. /\ \A n \in Names : connectionMap_[n] = Null
        /\ pendingFunctor_ \cup batch \cup ran = {} /\ life[Listener] = "dead"
    BY DEF ServerInv, ServerStages
  <2>2. ASSUME NEW c \in Conns
        PROVE  ~Mapped(c) /\ ~KeepsChannel(c)
    BY <2>1 DEF Mapped, KeepsChannel, ServerInv, CallStages
  <2>3. ASSUME NEW f \in Fds, ptr[f] # Null
        PROVE  FALSE
    <3>1. ptr[f] \in Channels /\ Live(ptr[f]) /\ ~removed[ptr[f]]
      BY <2>3 DEF ServerInv, P!PollerInv, P!TypeOK, P!KernelEntries,
                  P!Indices, P!RemovedUnmapped, P!Live, Live
    <3>2. ptr[f] \in Conns
      BY <2>1, <3>1 DEF Channels, Live
    <3> QED
      BY <2>2, <3>1, <3>2 DEF ServerInv, ConnectionStages
  <2>4. ASSUME NEW c \in Conns, Live(c)
        PROVE  c \in held
    <3>1. removed[c]
      BY <2>2, <2>4 DEF ServerInv, ConnectionStages
    <3>2. c # current
      BY <2>4, <3>1
    <3>3. c # arg
      <4>1. call = "destroyed" => server = "destroying"
        BY DEF ServerInv, CallStages
      <4>2. call \in {"accepted", "up", "message", "down"} =>
              Mapped(arg) \/ arg = current
        BY DEF ServerInv, CallStages
      <4>3. call \in {"none", "accepted", "up", "message", "down", "destroyed"}
        BY DEF ServerInv, TypeOK, UserCallbacks
      <4> QED
        BY <2>2, <3>2, <4>1, <4>2, <4>3 DEF ServerInv, CallStages
    <3> QED
      BY <2>1, <2>2, <2>4, <3>2, <3>3 DEF Settled, Referenced
  <2> QED
    BY <2>1, <2>3, <2>4
<1> QED
  BY <1>1, Invariance, PTL

-----------------------------------------------------------------------------
(* The refinement of ConnectionLife.                                       *)

\* Where a connection is, seen from outside.
LEMMA StageValues ==
  ASSUME ServerInv, NEW d \in Conns
  PROVE  /\ lifeStage(d) \in {"new", "up", "halfClosed", "down", "freed"}
         /\ life[d] = "dead" <=> lifeStage(d) = "freed"
         /\ life[d] # "dead" =>
              /\ state_[d] = "kConnecting" <=> lifeStage(d) = "new"
              /\ state_[d] = "kConnected" <=> lifeStage(d) = "up"
              /\ state_[d] = "kDisconnecting" <=> lifeStage(d) = "halfClosed"
              /\ state_[d] = "kDisconnected" <=> lifeStage(d) = "down"
BY TypeFacts DEF lifeStage

\* The thread is in no callback about the connection.
Untold(d) == arg # d \/ call = "accepted"

LEMMA CallbackValues ==
  ASSUME ServerInv, NEW d \in Conns
  PROVE  /\ Untold(d) => lifeCallback(d) = "none"
         /\ call = "none" => Untold(d)
         /\ arg = d /\ call \in {"up", "message"} => lifeCallback(d) = call
         /\ arg = d /\ call \in {"down", "destroyed"} =>
              lifeCallback(d) = "down"
<1>1. call = "none" => arg # d
  BY Constants DEF ServerInv, CallStages
<1> QED
  BY <1>1 DEF Untold, lifeCallback

\* A step that does not concern the connection is none of its life.
LEMMA Unconcerned ==
  ASSUME NEW d \in Conns, state_'[d] = state_[d],
         life'[d] = "dead" <=> life[d] = "dead",
         \/ arg' = arg /\ call' = call
         \/ Untold(d) /\ Untold(d)'
  PROVE  LifeStep(d)
<1>1. lifeStage(d)' = lifeStage(d)
  BY DEF lifeStage
<1>2. lifeCallback(d)' = lifeCallback(d)
  BY DEF lifeCallback, Untold
<1> QED
  BY <1>1, <1>2 DEF LifeStep, Life!vars

\* A connection that is handled is up, or half-closed by its user.
LEMMA OpenWhenHandled ==
  ASSUME ServerInv, NEW c \in Conns, Handles(c)
  PROVE  lifeStage(c) \in {"up", "halfClosed"}
<1>1. Mapped(c) /\ state_[c] # "kDisconnected"
  BY HandleFacts
<1>2. life[c] = "live"
  BY <1>1 DEF ServerInv, ConnectionStages, KeepsChannel, Live
<1>3. state_[c] # "kConnecting"
  BY <1>2 DEF ServerInv, LifeStages, Handles, Live
<1> QED
  BY <1>1, <1>2, <1>3, StageValues

\* Every step is one of the life of each connection, or none of it.
LEMMA LifeSteps ==
  ServerInv /\ ServerInv' /\ [Next]_vars => \A d \in Conns : LifeStep(d)
<1> SUFFICES ASSUME ServerInv, ServerInv', [Next]_vars, NEW d \in Conns
             PROVE  LifeStep(d)
  OBVIOUS
<1> USE Constants, UseFacts, PollerFacts, TypeFacts, ServerAssumption
<1> USE DEF serverOnly, objectVars, registrationVars, loopVars, pollerVars,
        tableVars, queueVars, ownerVars, userOnly, noChannel, opens, closes,
        setEvents, disableAll, removeChannel, onlyRemoves, Outside, Running,
        Handles, onlyLogs, queueDestroyed, InDestructor, UserCode,
        UserCallbacks, Live, isUp
<1>a. /\ Untold(d) => lifeCallback(d) = "none"
      /\ call = "none" => Untold(d)
      /\ arg = d /\ call \in {"up", "message"} => lifeCallback(d) = call
      /\ arg = d /\ call \in {"down", "destroyed"} =>
           lifeCallback(d) = "down"
  BY CallbackValues
<1>b. /\ Untold(d)' => lifeCallback(d)' = "none"
      /\ call' = "none" => Untold(d)'
      /\ arg' = d /\ call' \in {"up", "message"} => lifeCallback(d)' = call'
      /\ arg' = d /\ call' \in {"down", "destroyed"} =>
           lifeCallback(d)' = "down"
  <2>1. call' = "none" => arg' # d
    BY DEF ServerInv, CallStages
  <2> QED
    BY <2>1 DEF Untold, lifeCallback
<1>1. CASE TcpServer
  BY <1>1, Unconcerned DEF TcpServer
<1>2. CASE start
  BY <1>2, Unconcerned DEF start
<1>3. CASE StartLoop
  BY <1>3, Unconcerned DEF StartLoop
<1>4. ASSUME NEW c \in Conns, destroyConnection(c)
      PROVE  LifeStep(d)
  <2>1. ASSUME c # d
        PROVE  LifeStep(d)
    BY <1>4, <2>1, <1>a, <1>b, Unconcerned DEF destroyConnection, Untold
  <2>2. ASSUME c = d, ~isUp(c)
        PROVE  LifeStep(d)
    BY <1>4, <2>2, <1>a, <1>b, Unconcerned DEF destroyConnection
  <2>3. ASSUME c = d, isUp(c)
        PROVE  LifeStep(d)
    <3>1. lifeStage(d) = "up" /\ lifeCallback(d) = "none"
      BY <1>4, <2>3, <1>a, StageValues
         DEF destroyConnection, ServerInv, ConnectionStages, KeepsChannel
    <3>2. lifeStage(d)' = "down" /\ lifeCallback(d)' = "down"
      BY <1>4, <2>3, <1>b
         DEF destroyConnection, lifeStage, ServerInv, ConnectionStages,
             KeepsChannel
    <3> QED
      BY <3>1, <3>2 DEF LifeStep, Life!Next, Life!Down
  <2> QED
    BY <2>1, <2>2, <2>3
<1>5. ASSUME NEW c \in Conns, connectDestroyed(c)
      PROVE  LifeStep(d)
  <2>1. CASE c = d
    <3>1. lifeStage(d)' = lifeStage(d)
      BY <1>5 DEF connectDestroyed, lifeStage
    <3>2. lifeCallback(d) = "down" /\ lifeCallback(d)' = "none"
      BY <1>5, <2>1, <1>a, <1>b DEF connectDestroyed
    <3> QED
      BY <3>1, <3>2 DEF LifeStep, Life!Next, Life!Return
  <2>2. CASE c # d
    BY <1>5, <2>2, <1>a, <1>b, Unconcerned DEF connectDestroyed, Untold
  <2> QED
    BY <2>1, <2>2
<1>6. CASE destroyAcceptor
  BY <1>6, Unconcerned DEF destroyAcceptor
<1>7. ASSUME NEW ready \in SUBSET P!Reportable, poll(ready)
      PROVE  LifeStep(d)
  BY <1>7, Unconcerned DEF poll
<1>8. ASSUME NEW c \in Channels, HandleEvent(c)
      PROVE  LifeStep(d)
  BY <1>8, Unconcerned DEF HandleEvent
<1>9. CASE handlerReturns
  <2>1. CASE arg = d
    <3>1. lifeStage(d)' = lifeStage(d)
      BY <1>9 DEF handlerReturns, lifeStage
    <3>2. lifeCallback(d) # "none" /\ lifeCallback(d)' = "none"
      BY <1>9, <2>1, <1>a, <1>b DEF handlerReturns, Untold
    <3> QED
      BY <3>1, <3>2 DEF LifeStep, Life!Next, Life!Return
  <2>2. CASE arg # d
    BY <1>9, <2>2, <1>a, <1>b, Unconcerned DEF handlerReturns, Untold
  <2> QED
    BY <2>1, <2>2
<1>10. CASE RunFunctors
  BY <1>10, Unconcerned DEF RunFunctors
<1>11. CASE dropBatch
  BY <1>11, Unconcerned DEF dropBatch
<1>12. CASE EndIteration
  BY <1>12, Unconcerned DEF EndIteration
<1>13. ASSUME NEW c \in Conns, NEW f \in Fds, accept(c, f)
      PROVE  LifeStep(d)
  <2>1. life'[d] = "dead" <=> life[d] = "dead"
    BY <1>13, AcceptFacts DEF accept
  <2> QED
    BY <1>13, <2>1, <1>a, Unconcerned DEF accept, Untold
<1>14. CASE acceptFails
  BY <1>14, Unconcerned DEF acceptFails
<1>15. ASSUME NEW c \in Conns, Release(c)
      PROVE  LifeStep(d)
  <2>1. CASE c = d
    <3>1. ~Mapped(c) /\ arg # c
      BY <1>15 DEF Release, Referenced
    <3>2. lifeStage(d) \in {"halfClosed", "down"} /\ lifeCallback(d) = "none"
      BY <1>15, <2>1, <3>1, <1>a, StageValues
         DEF Release, ServerInv, LifeStages, Untold
    <3>3. lifeStage(d)' = "freed" /\ lifeCallback(d)' = "none"
      BY <1>15, <2>1, <3>1, <1>b DEF Release, lifeStage, Untold
    <3> QED
      BY <3>2, <3>3 DEF LifeStep, Life!Next, Life!Destroy
  <2>2. CASE c # d
    BY <1>15, <2>2, Unconcerned DEF Release
  <2> QED
    BY <2>1, <2>2
<1>16. ASSUME NEW c \in Conns, connectEstablished(c)
      PROVE  LifeStep(d)
  <2>1. CASE c = d
    <3>1. life[c] # "dead" /\ state_[c] = "kConnecting"
      BY <1>16 DEF connectEstablished, ServerInv, CallStages, KeepsChannel
    <3>2. lifeStage(d) = "new"
      BY <2>1, <3>1, StageValues
    <3>3. lifeStage(d)' = "up" /\ lifeCallback(d)' = "up"
      BY <1>16, <2>1, <3>1, <1>b DEF connectEstablished, lifeStage
    <3> QED
      BY <3>2, <3>3 DEF LifeStep, Life!Next, Life!Up
  <2>2. CASE c # d
    BY <1>16, <2>2, Unconcerned DEF connectEstablished, Untold
  <2> QED
    BY <2>1, <2>2
<1>17. ASSUME NEW c \in Conns, message(c)
      PROVE  LifeStep(d)
  <2>1. CASE c = d
    <3>1. lifeStage(d) \in {"up", "halfClosed"} /\ lifeCallback(d) = "none"
      BY <1>17, <2>1, <1>a, OpenWhenHandled DEF message
    <3>2. lifeStage(d)' = lifeStage(d) /\ lifeCallback(d)' = "message"
      BY <1>17, <2>1, <1>b DEF message, lifeStage
    <3> QED
      BY <3>1, <3>2 DEF LifeStep, Life!Next, Life!Message
  <2>2. CASE c # d
    BY <1>17, <2>2, <1>a, Unconcerned DEF message, Untold
  <2> QED
    BY <2>1, <2>2
<1>18. ASSUME NEW c \in Conns, handleClose(c)
      PROVE  LifeStep(d)
  <2>1. CASE c = d
    <3>1. lifeStage(d) \in {"up", "halfClosed"} /\ lifeCallback(d) = "none"
      BY <1>18, <2>1, <1>a, OpenWhenHandled DEF handleClose
    <3>2. lifeStage(d)' = "down" /\ lifeCallback(d)' = "down"
      BY <1>18, <2>1, <3>1, <1>b DEF handleClose, lifeStage
    <3> QED
      BY <3>1, <3>2 DEF LifeStep, Life!Next, Life!Down
  <2>2. CASE c # d
    BY <1>18, <2>2, <1>a, Unconcerned DEF handleClose, Untold
  <2> QED
    BY <2>1, <2>2
<1>19. ASSUME NEW c \in Conns, removeConnection(c)
      PROVE  LifeStep(d)
  <2>1. CASE c = d
    <3>1. lifeStage(d)' = lifeStage(d)
      BY <1>19 DEF removeConnection, lifeStage
    <3>2. lifeCallback(d) = "down" /\ lifeCallback(d)' = "none"
      BY <1>19, <2>1, <1>a, <1>b DEF removeConnection
    <3> QED
      BY <3>1, <3>2 DEF LifeStep, Life!Next, Life!Return
  <2>2. CASE c # d
    BY <1>19, <2>2, <1>a, <1>b, Unconcerned DEF removeConnection, Untold
  <2> QED
    BY <2>1, <2>2
<1>20. ASSUME NEW c \in Conns, runConnectDestroyed(c)
      PROVE  LifeStep(d)
  BY <1>20, Unconcerned DEF runConnectDestroyed
<1>21. CASE PeerConnects
  BY <1>21, Unconcerned DEF PeerConnects
<1>22. CASE PeerAborts
  BY <1>22, Unconcerned DEF PeerAborts
<1>23. CASE userKeeps
  BY <1>23, Unconcerned DEF userKeeps
<1>24. ASSUME NEW c \in Conns, userDrops(c)
      PROVE  LifeStep(d)
  BY <1>24, Unconcerned DEF userDrops
<1>25. ASSUME NEW c \in Conns, userShutsDown(c)
      PROVE  LifeStep(d)
  <2>1. CASE c = d /\ life[d] # "dead"
    <3>1. lifeStage(d) = "up"
      BY <1>25, <2>1, StageValues DEF userShutsDown
    <3>2. /\ lifeStage(d)' = "halfClosed"
          /\ lifeCallback(d)' = lifeCallback(d)
      BY <1>25, <2>1 DEF userShutsDown, lifeStage, lifeCallback
    <3> QED
      BY <3>1, <3>2 DEF LifeStep, Life!Next, Life!HalfClose
  <2>2. CASE life[d] = "dead"
    <3>1. /\ lifeStage(d)' = lifeStage(d)
          /\ lifeCallback(d)' = lifeCallback(d)
      BY <1>25, <2>2 DEF userShutsDown, lifeStage, lifeCallback
    <3> QED
      BY <3>1 DEF LifeStep, Life!vars
  <2>3. CASE c # d
    BY <1>25, <2>3, Unconcerned DEF userShutsDown
  <2> QED
    BY <2>1, <2>2, <2>3
<1>26. CASE UNCHANGED vars
  BY <1>26, Unconcerned DEF vars
<1> QED
  BY <1>1, <1>2, <1>3, <1>4, <1>5, <1>6, <1>7, <1>8, <1>9, <1>10, <1>11, <1>12,
     <1>13, <1>14, <1>15, <1>16, <1>17, <1>18, <1>19, <1>20, <1>21, <1>22,
     <1>23, <1>24, <1>25, <1>26
     DEF Next, LoopStep, OutsideStep, Environment

\* Users of every connection are told what ConnectionLife promises, whatever
\* the other connections and the server's destructor do.
THEOREM ImplementsLives == Spec => LivesSpec
<1>1. Init => \A c \in Conns : Life(c)!Init
  <2> SUFFICES ASSUME Init, NEW c \in Conns
               PROVE  Life(c)!Init
    OBVIOUS
  <2>1. lifeStage(c) = "new"
    BY Constants DEF Init, P!Init, lifeStage
  <2>2. lifeCallback(c) = "none"
    BY Constants DEF Init, lifeCallback
  <2> QED
    BY <2>1, <2>2 DEF Life!Init
<1>2. ServerInv /\ ServerInv' /\ [Next]_vars =>
        [\A c \in Conns : LifeStep(c)]_vars
  BY LifeSteps
<1> QED
  BY <1>1, <1>2, Invariance, PTL DEF Spec, LivesSpec
===============================================================================
