---------------------------- MODULE CallbackQueue ----------------------------
(***************************************************************************)
(* What EventLoop promises to a caller of queueInLoop: a single-consumer   *)
(* queue.  Callbacks are taken in the order they were submitted, each at   *)
(* most once, and nothing is taken once the queue has been disposed of.    *)
(* EventLoop implements it: see EventLoop!Queue and EventLoopProofs.       *)
(***************************************************************************)
EXTENDS Integers, Sequences, Functions

CONSTANT Functors

VARIABLES
  submitted,  \* every callback accepted so far, in order
  queue,      \* the callbacks accepted and not yet taken
  taken,      \* the callbacks handed to the consumer, in order
  disposed    \* the queue no longer exists

qvars == <<submitted, queue, taken, disposed>>

Init ==
  /\ submitted = <<>>
  /\ queue = <<>>
  /\ taken = <<>>
  /\ disposed = FALSE

Submit(f) ==
  /\ ~disposed
  /\ f \notin Range(submitted)
  /\ submitted' = Append(submitted, f)
  /\ queue' = Append(queue, f)
  /\ UNCHANGED <<taken, disposed>>

Take ==
  /\ ~disposed
  /\ queue # <<>>
  /\ taken' = Append(taken, Head(queue))
  /\ queue' = Tail(queue)
  /\ UNCHANGED <<submitted, disposed>>

Dispose ==
  /\ ~disposed
  /\ disposed' = TRUE
  /\ queue' = <<>>
  /\ UNCHANGED <<submitted, taken>>

Next ==
  \/ \E f \in Functors : Submit(f)
  \/ Take
  \/ Dispose

Spec == Init /\ [][Next]_qvars

-----------------------------------------------------------------------------
\* Whoever consumes the queue gets the callbacks in the order in which they
\* were submitted, with none left out, and none twice.
InOrder ==
  /\ Len(taken) <= Len(submitted)
  /\ \A i \in 1 .. Len(taken) : taken[i] = submitted[i]

NoneTwice == \A i, j \in 1 .. Len(taken) : taken[i] = taken[j] => i = j

\* What makes them inductive: the queue is what is left of the submissions.
QueueInv ==
  /\ {submitted, queue, taken} \subseteq Seq(Functors)
  /\ \A i, j \in 1 .. Len(submitted) : submitted[i] = submitted[j] => i = j
  /\ InOrder
  /\ ~disposed =>
       /\ Len(queue) = Len(submitted) - Len(taken)
       /\ \A i \in 1 .. Len(queue) : queue[i] = submitted[Len(taken) + i]
==============================================================================
