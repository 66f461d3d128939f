------------------------------ MODULE Connection ------------------------------
(***************************************************************************)
(* The life of one TcpConnection (tcpconnection.cc) from newConnection to  *)
(* its destruction, with its entry in TcpServer::connectionMap_            *)
(* (tcpserver.cc), its channel's registration, the loop thread that runs   *)
(* its handlers and functors, and other threads that hold a shared_ptr to  *)
(* it and call send() and shutdown().                                      *)
(*                                                                         *)
(* The connection runs on the base loop.  A functor is its kind; some hold *)
(* a shared_ptr, the ones bound to "this" do not.  Bytes are reduced to    *)
(* whether outputBuffer_ is empty: Output has the details.                 *)
(***************************************************************************)
EXTENDS Integers, Sequences, Functions

CONSTANTS
  Loop,      \* the loop thread
  Threads,   \* other threads with calls on the connection
  MaxQueue   \* bound: user code calls only while fewer functors are pending

ASSUME ConnectionAssumption ==
  /\ Loop \notin Threads
  /\ MaxQueue \in Nat

VARIABLES
  state_,
  reading, writing,  \* events_ of channel_
  added,             \* its index_ is kAdded
  mapped,            \* channels_ of the poller points to it
  output,            \* outputBuffer_ is not empty
  inMap,             \* connectionMap_ holds the connection
  holders,           \* the threads whose user code holds a shared_ptr
  pendingFunctor_,
  batch,             \* doPendingFunctors' vector, until the function returns
  done,              \* how many of its functors have run
  revents,           \* what handleEventWithGuard has yet to look at
  active,            \* channel_ is in what is left of activeChannels_
  at,                \* where the loop thread is
  looping,           \* inside loop()
  inCall,            \* the call each other thread is in the middle of
  downs,             \* history: calls of connectionCallback_ with DOWN
  closing,           \* history: connectDestroyed has been queued or called
  lateSend           \* history: sendInLoop ran, queued after that

channelVars == <<reading, writing, added, mapped>>
queueVars == <<pendingFunctor_, batch, done>>
eventVars == <<revents, active>>
histVars == <<downs, closing, lateSend>>
vars == <<state_, channelVars, output, inMap, holders, queueVars,
          eventVars, at, looping, inCall, histVars>>

\* Functors bound to a shared_ptr ("callback" is a call of
\* writeCompleteCallback_ or highWaterMarkCallback_), and functors bound to
\* "this".
Holding == {"connectDestroyed", "callback"}
Raw == {"sendInLoop", "shutdownInLoop"}
Functor == [kind: Holding \cup Raw, late: BOOLEAN]

\* The user's code runs on the loop thread in these positions: in the UP
\* callback, the message callback, the DOWN callback of handleClose or of
\* ~TcpServer, the functor "callback", outside loop(), and in the handlers of
\* other channels.
UserCode == {"up", "message", "closing", "destroying", "completed", "out",
             "events"}

TypeOK ==
  /\ state_ \in {"kConnecting", "kConnected", "kDisconnecting",
                 "kDisconnected"}
  /\ {reading, writing, added, mapped, output, inMap} \subseteq BOOLEAN
  /\ holders \subseteq Threads \cup {Loop}
  /\ pendingFunctor_ \in Seq(Functor)
  /\ batch \in Seq(Functor)
  /\ done \in 0 .. Len(batch)
  /\ revents \subseteq {"hup", "in", "out"}
  /\ at \in UserCode \cup {"accept", "poll", "dispatch", "functors", "end",
                           "crashed"}
  /\ {active, looping, closing, lateSend} \subseteq BOOLEAN
  /\ inCall \in [Threads -> {"none", "send", "shutdown", "wasShutDown"}]
  /\ downs \in Nat

\* newConnection has just built the connection, in the acceptor's handler.
Init ==
  /\ state_ = "kConnecting"
  /\ reading = FALSE /\ writing = FALSE /\ added = FALSE /\ mapped = FALSE
  /\ output = FALSE
  /\ inMap = TRUE
  /\ holders = {}
  /\ pendingFunctor_ = <<>> /\ batch = <<>> /\ done = 0
  /\ revents = {} /\ active = FALSE
  /\ at = "accept"
  /\ looping = TRUE
  /\ inCall = [t \in Threads |-> "none"]
  /\ downs = 0
  /\ closing = FALSE /\ lateSend = FALSE

-----------------------------------------------------------------------------
(* shared_ptr.                                                             *)

\* The callbacks are passed a shared_ptr; handleEvent holds the one tie_
\* gave; ~TcpServer holds one while it calls connectDestroyed.
OnStack == at \in {"accept", "up", "dispatch", "message", "closing",
                   "destroying"}

\* A functor holds what it is bound to until the queue or the vector it is in
\* goes.
HeldByFunctor ==
  \E q \in {pendingFunctor_, batch} :
    \E f \in Range(q) : f.kind \in Holding

\* The last shared_ptr takes the connection with it, at once; a new one is
\* only ever made from another, so it never comes back.
alive == inMap \/ holders # {} \/ OnStack \/ HeldByFunctor

-----------------------------------------------------------------------------
(* Channel and poller: see Poller.                                         *)

setEvents(r, w) ==
  /\ reading' = r
  /\ writing' = w
  /\ added' = (~added \/ r \/ w)
  /\ mapped' = (mapped \/ ~added)

disableAll == setEvents(FALSE, FALSE)

removeChannel ==
  /\ added' = FALSE
  /\ mapped' = FALSE
  /\ UNCHANGED <<reading, writing>>

\* queueInLoop of a functor of this kind.
functor(kind) == [kind |-> kind, late |-> closing]
queueInLoop(kind) == pendingFunctor_' = Append(pendingFunctor_, functor(kind))

-----------------------------------------------------------------------------
(* sendInLoop and shutdownInLoop, in user code or as functors.             *)

\* A direct write that takes everything, and writeCompleteCallback_ is set; one
\* that does not, or none, and the rest is buffered, with or without
\* highWaterMarkCallback_; one that fails with ECONNRESET, or takes everything
\* without a callback.
sendInLoop ==
  \/ /\ state_ = "kDisconnecting"
     /\ UNCHANGED <<channelVars, output, pendingFunctor_>>
  \/ /\ state_ # "kDisconnecting"
     /\ ~writing /\ ~output
     /\ queueInLoop("callback")
     /\ UNCHANGED <<channelVars, output>>
  \/ /\ state_ # "kDisconnecting"
     /\ output' = TRUE
     /\ IF writing THEN UNCHANGED channelVars ELSE setEvents(reading, TRUE)
     /\ queueInLoop("callback") \/ UNCHANGED pendingFunctor_
  \/ /\ state_ # "kDisconnecting"
     /\ ~writing /\ ~output
     /\ UNCHANGED <<channelVars, output, pendingFunctor_>>

\* shutdownInLoop: shutdownWrite() if EPOLLOUT is not registered, which is
\* the socket's business.
shutdownInLoop == UNCHANGED <<channelVars, output>>

-----------------------------------------------------------------------------
(* Other threads: send() and shutdown() test state_ first and act on it    *)
(* afterwards.                                                             *)

MayCall(t) ==
  /\ alive
  /\ t \in holders
  /\ Len(pendingFunctor_) < MaxQueue

loopSide == <<channelVars, output, inMap, batch, done, eventVars, at, looping>>

threadSend(t) ==
  /\ MayCall(t)
  /\ inCall[t] = "none"
  /\ state_ = "kConnected"
  /\ inCall' = [inCall EXCEPT ![t] = "send"]
  /\ UNCHANGED <<state_, holders, pendingFunctor_, loopSide, histVars>>

threadQueuesSend(t) ==
  /\ inCall[t] = "send"
  /\ queueInLoop("sendInLoop")
  /\ inCall' = [inCall EXCEPT ![t] = "none"]
  /\ UNCHANGED <<state_, holders, loopSide, histVars>>

threadShutdown(t) ==
  /\ MayCall(t)
  /\ inCall[t] = "none"
  /\ state_ = "kConnected"
  /\ inCall' = [inCall EXCEPT ![t] = "shutdown"]
  /\ UNCHANGED <<state_, holders, pendingFunctor_, loopSide, histVars>>

threadSetsState(t) ==
  /\ inCall[t] = "shutdown"
  /\ state_' = "kDisconnecting"
  /\ inCall' = [inCall EXCEPT ![t] = "wasShutDown"]
  /\ UNCHANGED <<holders, pendingFunctor_, loopSide, histVars>>

threadQueuesShutdown(t) ==
  /\ inCall[t] = "wasShutDown"
  /\ queueInLoop("shutdownInLoop")
  /\ inCall' = [inCall EXCEPT ![t] = "none"]
  /\ UNCHANGED <<state_, holders, loopSide, histVars>>

\* A thread lets go of its shared_ptr, outside calls.
threadDrops(t) ==
  /\ t \in holders
  /\ inCall[t] = "none"
  /\ holders' = holders \ {t}
  /\ UNCHANGED <<state_, pendingFunctor_, inCall, loopSide, histVars>>

-----------------------------------------------------------------------------
(* User code on the loop thread.                                           *)

\* It has the connection as the argument of the callback, or holds it.
HasConnection == alive /\ (OnStack \/ at = "completed" \/ Loop \in holders)

UserStep ==
  /\ at \in UserCode
  /\ HasConnection
  /\ UNCHANGED <<inMap, batch, done, eventVars, at, looping, inCall, histVars>>

userSends ==
  /\ UserStep
  /\ state_ = "kConnected"
  /\ Len(pendingFunctor_) < MaxQueue
  /\ sendInLoop
  /\ UNCHANGED <<state_, holders>>

userShutsDown ==
  /\ UserStep
  /\ state_ = "kConnected"
  /\ state_' = "kDisconnecting"
  /\ shutdownInLoop
  /\ UNCHANGED <<holders, pendingFunctor_>>

\* It stores a shared_ptr for itself or for another thread, or lets go of its
\* own.
userKeeps(h) ==
  /\ UserStep
  /\ h \notin holders
  /\ holders' = holders \cup {h}
  /\ UNCHANGED <<state_, channelVars, output, pendingFunctor_>>

userDrops ==
  /\ UserStep
  /\ Loop \in holders
  /\ holders' = holders \ {Loop}
  /\ UNCHANGED <<state_, channelVars, output, pendingFunctor_>>

-----------------------------------------------------------------------------
(* Handlers.                                                               *)

\* connectEstablished, up to connectionCallback_.
connectEstablished ==
  /\ at = "accept"
  /\ state_' = "kConnected"
  /\ setEvents(TRUE, writing)
  /\ at' = "up"
  /\ UNCHANGED <<output, inMap, holders, queueVars, eventVars, looping, inCall,
                 downs, closing, lateSend>>

\* A callback returns: to the walk over active channels, to the rest of
\* handleEventWithGuard, or to the functors.
Returns(from, to) ==
  /\ at = from
  /\ at' = to
  /\ UNCHANGED <<state_, channelVars, output, inMap, holders, queueVars,
                 eventVars, looping, inCall, histVars>>

\* epoll_wait reports the channel, or only others, or times out.  EPOLLERR,
\* whose handler only logs, is left out.
Reports(ready) ==
  \/ ready = {}
  \/ /\ added /\ alive
     /\ "in" \in ready => reading
     /\ "out" \in ready => writing

poll(ready) ==
  /\ at = "poll"
  /\ Reports(ready)
  /\ revents' = ready
  /\ active' = (ready # {})
  /\ at' = "events"
  /\ UNCHANGED <<state_, channelVars, output, inMap, holders, queueVars,
                 looping, inCall, histVars>>

\* handleEvent: tie_.lock(), which reads the channel.
handleEvent ==
  /\ at = "events"
  /\ active
  /\ active' = FALSE
  /\ at' = IF alive THEN "dispatch" ELSE "crashed"
  /\ UNCHANGED <<state_, channelVars, output, inMap, holders, queueVars,
                 revents, looping, inCall, downs, closing, lateSend>>

\* handleClose, up to connectionCallback_.
handleClose ==
  /\ state_' = "kDisconnected"
  /\ disableAll
  /\ downs' = downs + 1
  /\ at' = "closing"
  /\ UNCHANGED <<output, inMap, holders, queueVars, active, looping, inCall,
                 closing, lateSend>>

\* EPOLLHUP without EPOLLIN: closeCallback_.
handleHup ==
  /\ at = "dispatch"
  /\ "hup" \in revents /\ "in" \notin revents
  /\ revents' = revents \ {"hup"}
  /\ handleClose

\* EPOLLIN: handleRead, which reads some data and calls messageCallback_, or
\* fails, which it only logs,
handleRead ==
  /\ at = "dispatch"
  /\ "in" \in revents
  /\ revents' = revents \ {"hup", "in"}
  /\ at' \in {"message", "dispatch"}
  /\ UNCHANGED <<state_, channelVars, output, inMap, holders, queueVars,
                 active, looping, inCall, histVars>>

\* or reads the end of the stream.
handleReadEof ==
  /\ at = "dispatch"
  /\ "in" \in revents
  /\ revents' = revents \ {"hup", "in"}
  /\ handleClose

\* EPOLLOUT, looked at last: handleWrite empties outputBuffer_, and queues
\* writeCompleteCallback_ if it is set; or not.
handleWrite ==
  /\ at = "dispatch"
  /\ revents = {"out"}
  /\ revents' = {}
  /\ \/ /\ writing
        /\ output' = FALSE
        /\ setEvents(reading, FALSE)
        /\ queueInLoop("callback") \/ UNCHANGED pendingFunctor_
     \/ UNCHANGED <<channelVars, output, pendingFunctor_>>
  /\ UNCHANGED <<state_, inMap, holders, batch, done, active, at, looping,
                 inCall, histVars>>

\* removeConnection, called on its own loop, so removeConnectionInLoop runs
\* at once, and handleClose returns.
\* Mutants: connectDestroyed is not queued; it runs at once.
neverDestroys == UNCHANGED <<pendingFunctor_, channelVars>>
destroysAtOnce == removeChannel /\ UNCHANGED pendingFunctor_
queueDestroyed == queueInLoop("connectDestroyed") /\ UNCHANGED channelVars

\* Mutant: the entry stays in connectionMap_.
staysInMap == UNCHANGED inMap
erase == inMap' = FALSE

removeConnection ==
  /\ at = "closing"
  /\ erase
  /\ queueDestroyed
  /\ closing' = TRUE
  /\ at' = "dispatch"
  /\ UNCHANGED <<state_, output, holders, batch, done, eventVars,
                 looping, inCall, downs, lateSend>>

-----------------------------------------------------------------------------
(* Functors.                                                               *)

SwapPending ==
  /\ at = "events"
  /\ ~active
  /\ batch' = pendingFunctor_
  /\ pendingFunctor_' = <<>>
  /\ done' = 0
  /\ at' = "functors"
  /\ UNCHANGED <<state_, channelVars, output, inMap, holders, eventVars,
                 looping, inCall, histVars>>

\* The next functor of the batch.
NextFunctor == batch[done + 1]

RunNext(kind) ==
  /\ at = "functors"
  /\ done < Len(batch)
  /\ NextFunctor.kind = kind
  /\ done' = done + 1
  /\ UNCHANGED <<inMap, holders, batch, eventVars, looping, inCall>>

\* A functor bound to "this" finds the object gone.
runOnDestroyed(kind) ==
  /\ RunNext(kind)
  /\ ~alive
  /\ at' = "crashed"
  /\ UNCHANGED <<state_, channelVars, output, pendingFunctor_, downs,
                 closing, lateSend>>

runSendInLoop ==
  /\ RunNext("sendInLoop")
  /\ alive
  /\ sendInLoop
  /\ lateSend' = (lateSend \/ NextFunctor.late)
  /\ UNCHANGED <<state_, at, downs, closing>>

runShutdownInLoop ==
  /\ RunNext("shutdownInLoop")
  /\ alive
  /\ shutdownInLoop
  /\ UNCHANGED <<state_, pendingFunctor_, at, histVars>>

runCallback ==
  /\ RunNext("callback")
  /\ at' = "completed"
  /\ UNCHANGED <<state_, channelVars, output, pendingFunctor_, histVars>>

\* connectDestroyed of a connection still connected gives DOWN first; then,
\* and for any other, remove().
\* Mutant: the test of state_ is missing.
alwaysDown == TRUE
stillConnected == state_ = "kConnected"

\* setState(kDisconnected) and disableAll, up to connectionCallback_, which
\* here can do no more than keep or drop a shared_ptr.
goesDown ==
  /\ state_' = "kDisconnected"
  /\ downs' = downs + 1
  /\ at' = "destroying"

runConnectDestroyed ==
  /\ RunNext("connectDestroyed")
  /\ IF stillConnected
     THEN goesDown /\ disableAll
     ELSE removeChannel /\ UNCHANGED <<state_, downs, at>>
  /\ UNCHANGED <<output, pendingFunctor_, closing, lateSend>>

\* The end of the batch: doPendingFunctors returns, its vector goes, and the
\* while goes on or quit_ is set.
\* Mutant: the position in the vector is kept for the next batch.
keepsPosition == batch' = <<>> /\ UNCHANGED done
dropBatch == batch' = <<>> /\ done' = 0

BatchDone ==
  /\ at = "functors"
  /\ done = Len(batch)
  /\ dropBatch
  /\ at' \in {"poll", "out"}
  /\ looping' = (at' = "poll")
  /\ UNCHANGED <<state_, channelVars, output, inMap, holders, pendingFunctor_,
                 eventVars, inCall, histVars>>

\* ~TcpServer, after loop() has returned: connectDestroyed at once for a
\* connection still in the map.
destroyServer ==
  /\ at = "out"
  /\ inMap' = FALSE
  /\ closing' = TRUE
  /\ \/ /\ inMap /\ stillConnected
        /\ goesDown /\ disableAll
     \/ /\ inMap /\ ~stillConnected
        /\ at' = "end"
        /\ removeChannel
        /\ UNCHANGED <<state_, downs>>
     \/ /\ ~inMap
        /\ at' = "end"
        /\ UNCHANGED <<state_, channelVars, downs>>
  /\ UNCHANGED <<output, holders, queueVars, eventVars, looping, inCall,
                 lateSend>>

\* remove(), after the callback.
connectDestroyed ==
  /\ at = "destroying"
  /\ removeChannel
  /\ at' = IF looping THEN "functors" ELSE "end"
  /\ UNCHANGED <<state_, output, inMap, holders, queueVars, eventVars, looping,
                 inCall, histVars>>

-----------------------------------------------------------------------------
handlerReturns ==
  \/ Returns("up", "events")
  \/ Returns("message", "dispatch")
  \/ Returns("completed", "functors")
  \/ revents = {} /\ Returns("dispatch", "events")

LoopStep ==
  \/ connectEstablished
  \/ handlerReturns
  \/ \E ready \in SUBSET {"hup", "in", "out"} : poll(ready)
  \/ handleEvent
  \/ handleHup
  \/ handleRead
  \/ handleReadEof
  \/ handleWrite
  \/ removeConnection
  \/ SwapPending
  \/ \E kind \in Raw : runOnDestroyed(kind)
  \/ runSendInLoop
  \/ runShutdownInLoop
  \/ runCallback
  \/ runConnectDestroyed
  \/ BatchDone
  \/ destroyServer
  \/ connectDestroyed

UserCall ==
  \/ userSends
  \/ userShutsDown
  \/ \E h \in Threads \cup {Loop} : userKeeps(h)
  \/ userDrops

\* The rest of a call once it has begun.
CallContinues(t) ==
  \/ threadQueuesSend(t)
  \/ threadSetsState(t)
  \/ threadQueuesShutdown(t)

ThreadStep(t) ==
  \/ threadSend(t)
  \/ threadShutdown(t)
  \/ CallContinues(t)
  \/ threadDrops(t)

Next ==
  \/ LoopStep
  \/ UserCall
  \/ \E t \in Threads : ThreadStep(t)

Spec == Init /\ [][Next]_vars

\* epoll_wait returns after kPollTimeMs at the latest, every handler and
\* callback returns, and a thread goes on with a call it has begun.
FairSpec ==
  /\ Spec
  /\ WF_vars(LoopStep)
  /\ \A t \in Threads : WF_vars(CallContinues(t))

-----------------------------------------------------------------------------
(* Properties.  lateSend says that a sendInLoop which another thread queued *)
(* after the close has run: it may register the channel again, and what the *)
(* user is told is no longer what ConnectionLife promises.  OnlyLateCrash   *)
(* and DownOnlyWrites say what may happen then, and what may not.           *)

\* The user is told in this order: up, messages, down once, by handleClose or
\* by connectDestroyed, and no message after that, in any order of closing,
\* shutdown() here or in another thread, and ~TcpServer; the object lives as
\* long as it is up (tcpconnection.cc:55-74, 113-122, 216-243).
lifeStage ==
  IF lateSend \/ at = "crashed" THEN "undefined"
  ELSE IF ~alive THEN "freed"
  ELSE IF at = "accept" THEN "new"
  ELSE IF downs > 0 THEN "down"
  ELSE IF state_ = "kDisconnecting" THEN "halfClosed"
  ELSE "up"

lifeCallback ==
  IF lateSend THEN "none"
  ELSE IF at \in {"up", "message"} THEN at
  ELSE IF at \in {"closing", "destroying"} THEN "down"
  ELSE "none"

Life == INSTANCE ConnectionLife
          WITH stage <- lifeStage, callback <- lifeCallback

LifeSpec == Life!Spec

\* Functors bound to "this" before the connection was handed to
\* connectDestroyed find it when they run: the queue is first in first out
\* and the functor of connectDestroyed holds the last shared_ptr
\* (tcpconnection.cc:151-152, 241, tcpserver.cc:102-104).
EarlyFunctorsFindObject ==
  looping =>
    \A f \in Range(pendingFunctor_ \o SubSeq(batch, done + 1, Len(batch))) :
      f.kind \in Raw /\ ~f.late => alive

\* The poller and the list of active channels point to the channel only while
\* it exists (tcpconnection.cc:233).
RegisteredAlive == ~lateSend => (mapped \/ active => alive)

\* The connection is used after its destruction in two ways only, and both
\* need another thread that was inside send() or shutdown() when it closed: a
\* functor bound to "this" was queued after the close; or such a sendInLoop
\* still found the object, left output and so registered the channel again,
\* and epoll reports the channel, for writing or a hang-up, when the object
\* is gone (tcpconnection.cc:141-156, 198-211, 236-243, eventloop.cc:72-78).
OnlyLateCrash ==
  at = "crashed" =>
    \/ done > 0 /\ batch[done].kind \in Raw /\ batch[done].late
    \/ done = 0 /\ lateSend /\ revents # {} /\ "in" \notin revents

\* A connection that has gone down gets no message again and is not read
\* from, whatever comes late; and when the loop waits in epoll_wait its
\* channel is registered for nothing but the output of a send queued after
\* the close: otherwise it was removed in the iteration that closed it
\* (tcpconnection.cc:113-122, 198-211, 233, tcpserver.cc:97-105).
DownOnlyWrites ==
  downs > 0 =>
    /\ ~reading /\ at \notin {"up", "message"}
    /\ at = "poll" /\ added => lateSend /\ writing /\ output

\* A connection that went down is destroyed unless somebody keeps a
\* shared_ptr, the loop is left, or the program crashes.
ClosedIsFreed ==
  downs > 0 ~> \/ ~alive
               \/ holders # {}
               \/ ~looping
               \/ at = "crashed"

-----------------------------------------------------------------------------
(* What makes the safety properties inductive.                             *)

\* What each position of the loop thread implies for the connection's state.
Stages ==
  /\ inMap <=> ~closing
  /\ looping <=> at \notin {"out", "destroying", "end"}
  /\ batch # <<>> => at \in {"functors", "completed", "crashed"}
  /\ active => at = "events"
  /\ at = "accept" <=> state_ = "kConnecting"
  /\ at = "accept" => /\ holders = {} /\ downs = 0
                      /\ \A t \in Threads : inCall[t] = "none"
  /\ at \in {"accept", "up"} => ~closing
  /\ at \in {"destroying", "end"} => closing
  /\ at \in {"closing", "destroying"} => downs > 0
  /\ at = "closing" => revents \subseteq {"out"}
  /\ downs > 0 => closing \/ at = "closing"
  /\ closing /\ looping => downs > 0
  /\ closing \/ downs > 0 => state_ # "kConnected"
  /\ state_ = "kDisconnected" => downs > 0

\* connectDestroyed is queued after the close, and while it is to come, what
\* was bound to "this" before the close is in front of it.
IsDestroy(f) == f.kind = "connectDestroyed"
Early(f) == f.kind \in Raw /\ ~f.late

DestroyQueued ==
  \E i \in 1 .. Len(pendingFunctor_) : IsDestroy(pendingFunctor_[i])
DestroyAhead(i) == \E j \in i + 1 .. Len(batch) : IsDestroy(batch[j])

OfClose(f) == f.late \/ IsDestroy(f)

QueuedAfterClose ==
  ~closing =>
    /\ \A i \in 1 .. Len(pendingFunctor_) : ~OfClose(pendingFunctor_[i])
    /\ \A i \in 1 .. Len(batch) : ~OfClose(batch[i])

EarlyBeforeDestroy ==
  closing /\ looping =>
    /\ \A i \in 1 .. Len(pendingFunctor_) : Early(pendingFunctor_[i]) =>
         \E j \in i + 1 .. Len(pendingFunctor_) : IsDestroy(pendingFunctor_[j])
    /\ \A i \in done + 1 .. Len(batch) : Early(batch[i]) =>
         DestroyAhead(i) \/ DestroyQueued

\* After the close nothing brings the channel back but a late send, and
\* remove() comes in the same iteration.
ClosedForGood ==
  ~lateSend =>
    /\ DestroyQueued => at \in {"dispatch", "events"}
    /\ closing =>
         /\ ~active
         /\ at \notin {"message", "closing"}
         /\ at = "dispatch" => DestroyQueued /\ revents \subseteq {"out"}
         /\ mapped \/ added =>
              at = "destroying" \/ DestroyQueued \/ DestroyAhead(done)

\* What is registered, before and after the close and a late send: an open
\* connection for reading, one that has output for writing, and a channel
\* without events not at all, so that disableAll and disableWriting find it
\* added.
Registration ==
  /\ added => reading \/ writing
  /\ writing => output
  /\ at # "accept" /\ ~closing /\ downs = 0 => reading /\ added
  /\ downs > 0 => ~reading /\ at \notin {"up", "message"}
  /\ active => revents # {}
  /\ active \/ at = "dispatch" =>
       /\ "in" \in revents => downs = 0
       /\ "hup" \in revents \/ "in" \in revents \/ writing => added
  /\ at = "message" => revents \subseteq {"out"}
  /\ at = "closing" => ~writing

\* In every position of the loop thread, with other threads anywhere in send()
\* and shutdown(): the stage of the connection, its place in the map, what is
\* queued for it and what the poller knows of it fit together
\* (tcpconnection.cc:55-74, 141-256, tcpserver.cc:32-42, 61-106).
ConnectionInv ==
  /\ TypeOK
  /\ Stages
  /\ QueuedAfterClose
  /\ EarlyBeforeDestroy
  /\ ClosedForGood
  /\ Registration
=============================================================================
