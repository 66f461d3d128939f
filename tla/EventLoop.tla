------------------------------ MODULE EventLoop ------------------------------
(***************************************************************************)
(* One EventLoop object (muduo/net/src/eventloop.cc): the loop thread      *)
(* iterating poll - handlers - pending functors, and the other threads     *)
(* that call queueInLoop, runInLoop and quit on it.  User code runs on the *)
(* loop thread before and after loop(), in a channel's handler and in a    *)
(* functor, and may make the same calls from there.                        *)
(*                                                                         *)
(* A functor is the identity of one submission, so each is submitted once. *)
(* The loop thread's position inside loop() is "at"; inCall[t] names the   *)
(* call t is in the middle of: it has pushed its functor or set quit_, and *)
(* has yet to call wakeup().                                               *)
(***************************************************************************)
EXTENDS Integers, Sequences, FiniteSets, Functions

CONSTANTS
  Loop,          \* the thread that built the loop and runs loop()
  Threads,       \* the other threads
  Functors,      \* submissions to the loop
  Channels,      \* channels registered with the poller, wakeupChannel_ aside
  WakeupChannel  \* wakeupChannel_, on wakeupFd_

ASSUME EventLoopAssumption ==
  /\ Loop \notin Threads
  /\ WakeupChannel \notin Channels

VARIABLES
  quit_,
  callingPendingFunctors_,
  pendingFunctor_,  \* the vector mutex_ protects
  functors,         \* what is left of doPendingFunctors' local vector
  activeChannels_,  \* the channels poll returned whose handler has yet to run
  wakeupFd,         \* the eventfd's counter
  at,               \* where the loop thread is
  inCall,           \* for each thread, the call it has yet to end by wakeup()
  posted,           \* history: what entered pendingFunctor_, in order
  ran,              \* history: what doPendingFunctors ran, in order
  inlined,          \* history: what runInLoop ran at once
  dropped           \* history: what the destructor threw away

vars == <<quit_, callingPendingFunctors_, pendingFunctor_, functors,
          activeChannels_, wakeupFd, at, inCall, posted, ran, inlined, dropped>>

callVars == <<quit_, pendingFunctor_, inCall, posted, inlined>>
loopVars == <<callingPendingFunctors_, functors, activeChannels_, at, ran,
              dropped>>

Callers == Threads \cup {Loop}

\* Positions of the loop thread inside loop().
Looping == {"test", "poll", "events", "handler", "run", "functor"}

\* Positions in which the loop thread is in user code.
UserCode == {"idle", "handler", "functor", "exited"}

Positions == Looping \cup UserCode \cup {"destroyed"}

TypeOK ==
  /\ quit_ \in BOOLEAN
  /\ callingPendingFunctors_ \in BOOLEAN
  /\ pendingFunctor_ \in Seq(Functors)
  /\ functors \in Seq(Functors)
  /\ activeChannels_ \subseteq Channels \cup {WakeupChannel}
  /\ wakeupFd \in Nat
  /\ at \in Positions
  /\ inCall \in [Callers -> {"none", "queueInLoop", "quit"}]
  /\ posted \in Seq(Functors)
  /\ ran \in Seq(Functors)
  /\ inlined \subseteq Functors
  /\ dropped \in Seq(Functors)

\* The constructor.
Init ==
  /\ quit_ = FALSE
  /\ callingPendingFunctors_ = FALSE
  /\ pendingFunctor_ = <<>>
  /\ functors = <<>>
  /\ activeChannels_ = {}
  /\ wakeupFd = 0
  /\ at = "idle"
  /\ inCall = [t \in Callers |-> "none"]
  /\ posted = <<>>
  /\ ran = <<>>
  /\ inlined = {}
  /\ dropped = <<>>

-----------------------------------------------------------------------------
(* Calls: by the loop thread from user code, by another thread at any time *)
(* as long as the object exists.                                           *)

CanCall(t) ==
  /\ inCall[t] = "none"
  /\ at # "destroyed"
  /\ t = Loop => at \in UserCode

\* isInLoopThread(), evaluated by thread t.
isInLoopThread(t) == t = Loop

Fresh(f) == f \notin Range(posted) \cup inlined

\* emplace_back under mutex_.
\* Mutant: the functor goes to the front.
PushedInFront(f) == <<f>> \o pendingFunctor_
Pushed(f) == Append(pendingFunctor_, f)

\* queueInLoop up to the call of wakeup().  Only the loop thread reads
\* callingPendingFunctors_ (the other threads short-circuit), and only it
\* writes it, so push and test are one step.
queueInLoop(t, f) ==
  /\ CanCall(t)
  /\ Fresh(f)
  /\ pendingFunctor_' = Pushed(f)
  /\ posted' = Append(posted, f)
  /\ IF ~isInLoopThread(t) \/ callingPendingFunctors_
     THEN inCall' = [inCall EXCEPT ![t] = "queueInLoop"]
     ELSE UNCHANGED inCall
  /\ UNCHANGED <<quit_, inlined, wakeupFd, loopVars>>

\* runInLoop on the loop's own thread calls the functor at once; on any
\* other thread it is queueInLoop.
runInLoop(f) ==
  /\ CanCall(Loop)
  /\ Fresh(f)
  /\ inlined' = inlined \cup {f}
  /\ UNCHANGED <<quit_, pendingFunctor_, inCall, posted, wakeupFd, loopVars>>

\* quit up to the call of wakeup().
quit(t) ==
  /\ CanCall(t)
  /\ quit_' = TRUE
  /\ IF isInLoopThread(t)
     THEN UNCHANGED inCall
     ELSE inCall' = [inCall EXCEPT ![t] = "quit"]
  /\ UNCHANGED <<pendingFunctor_, posted, inlined, wakeupFd, loopVars>>

\* A read of the eventfd sets its counter to 0, or fails with EAGAIN when it
\* is 0 already.
readWakeupFd == wakeupFd' = 0

\* wakeup() reads the eventfd.
wakeup(t) ==
  /\ inCall[t] # "none"
  /\ inCall' = [inCall EXCEPT ![t] = "none"]
  /\ readWakeupFd
  /\ UNCHANGED <<quit_, pendingFunctor_, posted, inlined, loopVars>>

-----------------------------------------------------------------------------
(* The loop thread.                                                        *)

StartLoop ==
  /\ at \in {"idle", "exited"}
  /\ quit_' = FALSE
  /\ at' = "test"
  /\ UNCHANGED <<pendingFunctor_, inCall, posted, inlined, wakeupFd,
                 callingPendingFunctors_, functors, activeChannels_, ran,
                 dropped>>

\* The negated condition of the while.
\* Mutant: the loop tests looping_, which nothing clears.
neverEnds == FALSE
loopEnds == quit_

TestQuit ==
  /\ at = "test"
  /\ at' = IF loopEnds THEN "exited" ELSE "poll"
  /\ activeChannels_' = {}
  /\ UNCHANGED <<callVars, wakeupFd, callingPendingFunctors_, functors, ran,
                 dropped>>

\* epoll_wait returns with the channels in "ready" and the wakeup channel if
\* its counter is not 0.
Signalled == IF wakeupFd > 0 THEN {WakeupChannel} ELSE {}

PollEvents(ready) ==
  /\ at = "poll"
  /\ ready \cup Signalled # {}
  /\ activeChannels_' = ready \cup Signalled
  /\ at' = "events"
  /\ UNCHANGED <<callVars, wakeupFd, callingPendingFunctors_, functors, ran,
                 dropped>>

\* epoll_wait returns 0 after kPollTimeMs, or -1 with EINTR.
\* Mutant: kPollTimeMs is -1, and epoll_wait waits for a descriptor.
waitsForever == FALSE
timesOut == wakeupFd = 0

PollTimeout ==
  /\ at = "poll"
  /\ timesOut
  /\ at' = "events"
  /\ UNCHANGED <<callVars, wakeupFd, callingPendingFunctors_, functors,
                 activeChannels_, ran, dropped>>

\* The wakeup channel's handler is handleRead; any other runs user code.
HandleEvent(c) ==
  /\ at = "events"
  /\ c \in activeChannels_
  /\ activeChannels_' = activeChannels_ \ {c}
  /\ IF c = WakeupChannel
     THEN readWakeupFd /\ UNCHANGED at
     ELSE at' = "handler" /\ UNCHANGED wakeupFd
  /\ UNCHANGED <<callVars, callingPendingFunctors_, functors, ran, dropped>>

HandlerReturns ==
  /\ at = "handler"
  /\ inCall[Loop] = "none"
  /\ at' = "events"
  /\ UNCHANGED <<callVars, wakeupFd, callingPendingFunctors_, functors,
                 activeChannels_, ran, dropped>>

\* What the swap with the empty local vector leaves in pendingFunctor_.
\* Mutant: the vector is copied instead.
copiedOut == pendingFunctor_
swappedOut == <<>>

\* doPendingFunctors: the flag, and the swap under mutex_.
SwapPending ==
  /\ at = "events"
  /\ activeChannels_ = {}
  /\ callingPendingFunctors_' = TRUE
  /\ functors' = pendingFunctor_
  /\ pendingFunctor_' = swappedOut
  /\ at' = "run"
  /\ UNCHANGED <<quit_, inCall, posted, inlined, wakeupFd, activeChannels_,
                 ran, dropped>>

RunFunctor ==
  /\ at = "run"
  /\ functors # <<>>
  /\ ran' = Append(ran, Head(functors))
  /\ functors' = Tail(functors)
  /\ at' = "functor"
  /\ UNCHANGED <<callVars, wakeupFd, callingPendingFunctors_,
                 activeChannels_, dropped>>

FunctorReturns ==
  /\ at = "functor"
  /\ inCall[Loop] = "none"
  /\ at' = "run"
  /\ UNCHANGED <<callVars, wakeupFd, callingPendingFunctors_, functors,
                 activeChannels_, ran, dropped>>

\* The end of the for over functors.
\* Mutant: the for stops once quit_ is set.
allRunOrQuit == functors = <<>> \/ quit_
allRun == functors = <<>>

\* Mutant: the function goes on until pendingFunctor_ is empty.
BatchRepeats ==
  /\ at = "run"
  /\ functors = <<>>
  /\ functors' = pendingFunctor_
  /\ pendingFunctor_' = <<>>
  /\ callingPendingFunctors_' = (pendingFunctor_ # <<>>)
  /\ at' = IF pendingFunctor_ = <<>> THEN "test" ELSE "run"
  /\ UNCHANGED <<quit_, inCall, posted, inlined, wakeupFd, activeChannels_,
                 ran, dropped>>

\* Mutant: the flag stays set after the batch.
keepsCalling == UNCHANGED callingPendingFunctors_
endsCalling == callingPendingFunctors_' = FALSE

BatchDone ==
  /\ at = "run"
  /\ allRun
  /\ endsCalling
  /\ at' = "test"
  /\ UNCHANGED <<callVars, wakeupFd, functors, activeChannels_, ran, dropped>>

\* The destructor: pendingFunctor_ goes with the object.  The programs of the
\* repository destroy a loop when loop() has returned.
Destroy ==
  /\ at = "exited"
  /\ at' = "destroyed"
  /\ dropped' = pendingFunctor_
  /\ pendingFunctor_' = <<>>
  /\ UNCHANGED <<quit_, inCall, posted, inlined, wakeupFd,
                 callingPendingFunctors_, functors, activeChannels_, ran>>

-----------------------------------------------------------------------------
Call ==
  \/ \E t \in Callers, f \in Functors : queueInLoop(t, f)
  \/ \E f \in Functors : runInLoop(f)
  \/ \E t \in Callers : quit(t)
  \/ \E t \in Callers : wakeup(t)

LoopStep ==
  \/ TestQuit
  \/ \E ready \in SUBSET Channels : PollEvents(ready)
  \/ PollTimeout
  \/ \E c \in Channels \cup {WakeupChannel} : HandleEvent(c)
  \/ HandlerReturns
  \/ SwapPending
  \/ RunFunctor
  \/ FunctorReturns
  \/ BatchDone

Next ==
  \/ Call
  \/ LoopStep
  \/ StartLoop
  \/ Destroy

Spec == Init /\ [][Next]_vars

-----------------------------------------------------------------------------
(* Fairness.  A thread inside a call finishes it; user callbacks return;    *)
(* the loop thread keeps running.  Nothing obliges a program to start or    *)
(* destroy the loop, nor a channel to become ready.                         *)

CallsFinish == \A t \in Callers : WF_vars(wakeup(t))

\* poll returns because the wakeup channel is ready: no other is obliged to
\* become so.
PollSignalled == Signalled # {} /\ PollEvents({})

\* What the loop thread does without waiting for anybody.
PromptStep ==
  \/ TestQuit
  \/ PollSignalled
  \/ \E c \in Channels \cup {WakeupChannel} : HandleEvent(c)
  \/ HandlerReturns
  \/ SwapPending
  \/ RunFunctor
  \/ FunctorReturns
  \/ BatchDone

\* With the timeout of epoll_wait, the loop thread always goes on.
FairSpec == Spec /\ CallsFinish /\ WF_vars(PromptStep \/ PollTimeout)

\* The same, except that waiting kPollTimeMs out may last for ever.
PromptSpec == Spec /\ CallsFinish /\ WF_vars(PromptStep)

\* FairSpec of a program that does start its loop.
StartedSpec == FairSpec /\ WF_vars(StartLoop)

-----------------------------------------------------------------------------
(* Safety.                                                                 *)

Backlog == functors \o pendingFunctor_

\* Everything ever pushed is, in the order it was pushed, run, still in the
\* batch being run, still pending, or thrown away by the destructor: the swap
\* under the lock neither loses nor repeats nor reorders a functor that
\* another thread pushes while a batch runs (eventloop.cc:105-167).
Accounting == posted = (ran \o Backlog) \o dropped

\* loop() never leaves its while with a batch unfinished or an event
\* undispatched, however quit() interleaves with the iteration
\* (eventloop.cc:67-80): whoever sees the loop exited can rely on what was
\* swapped having run.
ExitsBetweenIterations ==
  at \notin Looping =>
    /\ functors = <<>>
    /\ activeChannels_ = {}
    /\ ~callingPendingFunctors_

\* The strengthening that makes Accounting and ExitsBetweenIterations
\* inductive: what each position of the loop thread implies.
Phases ==
  /\ at \notin {"run", "functor"} => functors = <<>>
  /\ at \notin {"events", "handler"} => activeChannels_ = {}
  /\ callingPendingFunctors_ <=> at \in {"run", "functor"}
  /\ at # "destroyed" => dropped = <<>>
  /\ at = "destroyed" => pendingFunctor_ = <<>>

\* In every position of the loop thread its flags, its local batch, the queue
\* and the histories fit together, whatever other threads do meanwhile
\* (eventloop.cc:57-167).
LoopInv == TypeOK /\ Phases /\ Accounting

\* A functor that the running batch queues waits for the next one: a batch
\* only shrinks until it is empty, so a functor that requeues itself cannot
\* keep the loop from polling (eventloop.cc:156-165).
BatchOnlyShrinks ==
  at \in {"run", "functor"} =>
    \/ functors' = functors
    \/ functors # <<>> /\ functors' = Tail(functors)

BatchNeverGrows == [][BatchOnlyShrinks]_vars

\* The abstract queue EventLoop implements.
Queue == INSTANCE CallbackQueue WITH
  submitted <- posted,
  queue <- Backlog,
  taken <- ran,
  disposed <- at = "destroyed"

\* EventLoop implements it: callbacks are taken in the order of submission,
\* also of submissions that race with the swap, at most once, and never after
\* the loop is gone (eventloop.h:43-44, eventloop.cc:105-115, 151-167).
QueueSpec == Queue!Spec

\* So functors run in the order of their submission, none is passed over, and
\* none runs twice, whatever threads submit them and whenever the loop is
\* left and entered again (eventloop.cc:105-115, 151-167).
RunInOrder == Queue!InOrder /\ Queue!NoneTwice

\* No wakeup() wakes the loop: whatever threads call it, and when, the eventfd
\* is never signalled and poll never reports its channel, so that only other
\* channels and the timeout end a wait (eventloop.cc:116-124).
NeverWoken == wakeupFd = 0 /\ WakeupChannel \notin activeChannels_

-----------------------------------------------------------------------------
(* Liveness.                                                               *)

\* A functor pending while the loop runs is run unless quit() comes first.
\* It rests on poll's timeout alone when no descriptor becomes ready
\* (eventloop.cc:12, 67-80).
PendingRunsUnlessQuit ==
  \A f \in Functors :
    (f \in Range(pendingFunctor_) /\ at \in Looping)
      ~> (f \in Range(ran) \/ quit_)

\* A quit() made while the loop runs makes loop() return, also from a thread
\* whose wakeup() does not reach poll (eventloop.cc:83-91).
QuitLeavesLoop == (quit_ /\ at \in Looping) ~> at = "exited"

-----------------------------------------------------------------------------
(* Statements of the source that its code does not live up to.             *)

\* "wake the thread of the loop" (eventloop.h:43, 46): a call of wakeup()
\* made while the loop is in poll gets it out of poll.
WakeupLeavesPoll == 
  (at = "poll" /\ \E t \in Callers : inCall[t] # "none") ~> at # "poll"

\* "leave the event loop" (eventloop.h:32): quit() makes the loop end.
QuitEndsLoop == quit_ ~> at \in {"exited", "destroyed"}
==============================================================================
