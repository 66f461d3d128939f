-------------------------------- MODULE Output --------------------------------
(***************************************************************************)
(* The sending half of one established TcpConnection, seen from its loop   *)
(* thread (tcpconnection.cc): send, sendInLoop, handleWrite, shutdown and  *)
(* shutdownInLoop, with the layout of outputBuffer_ and the bytes that     *)
(* reach the socket.                                                       *)
(***************************************************************************)
EXTENDS Integers, Sequences

CONSTANTS
  kCheapPrepend, kInitiaSize, Bytes, Zero,  \* of outputBuffer_: see Buffer
  Data,            \* the strings the user sends
  highWaterMark_,
  MaxAccepted      \* bound: bytes sent in a behaviour

ASSUME OutputAssumption ==
  /\ {kCheapPrepend, kInitiaSize, highWaterMark_, MaxAccepted} \subseteq Nat
  /\ Zero \in Bytes
  /\ Data \subseteq Seq(Bytes)

VARIABLES
  outputBuffer_,
  isWriting,   \* channel_->isWriting(): EPOLLOUT is registered
  state_,      \* "kConnected" or "kDisconnecting"
  fin,         \* shutdownWrite() has been called
  broken,      \* the peer has reset the connection
  accepted,    \* history: what sendInLoop took responsibility for
  taken,       \* history: what was written at once or retrieved as written
  wire,        \* history: what write() was given and accepted
  warned       \* history: highWaterMarkCallback_ has been queued since
               \* less than highWaterMark_ was pending

vars == <<outputBuffer_, isWriting, state_, fin, broken, accepted, taken, wire,
          warned>>

B == INSTANCE Buffer WITH
  ExtraBuf <- 0, MaxReadable <- MaxAccepted, buf <- outputBuffer_

Pending == B!Contents(outputBuffer_)

TypeOK ==
  /\ B!Valid(outputBuffer_)
  /\ isWriting \in BOOLEAN
  /\ state_ \in {"kConnected", "kDisconnecting"}
  /\ fin \in BOOLEAN
  /\ broken \in BOOLEAN
  /\ {accepted, taken, wire} \subseteq Seq(Bytes)
  /\ warned \in BOOLEAN

Init ==
  /\ outputBuffer_ = B!NewBuffer
  /\ isWriting = FALSE
  /\ state_ = "kConnected"
  /\ fin = FALSE
  /\ broken = FALSE
  /\ accepted = <<>>
  /\ taken = <<>>
  /\ wire = <<>>
  /\ warned = FALSE

-----------------------------------------------------------------------------
Upto(d, n) == SubSeq(d, 1, n)
From(d, n) == SubSeq(d, n + 1, Len(d))

\* sendInLoop writes at once only if nothing is waiting.
\* Mutant: it does not look.
writesAlways == TRUE
writesDirectly == ~isWriting /\ B!readableBytes(outputBuffer_) = 0

\* What ::write may take of d at once: nothing if it is not called, or if the
\* socket's buffer is full (EWOULDBLOCK).
Direct(d) == IF writesDirectly THEN 0 .. Len(d) ELSE {0}

\* The rest goes to outputBuffer_, and EPOLLOUT is registered.
\* Mutant: EPOLLOUT is left alone.
noEpollout(rest) == UNCHANGED isWriting
armEpollout(rest) == isWriting' = (isWriting \/ rest # <<>>)

\* The test for highWaterMarkCallback_: a backlog that lands on the mark before
\* it goes above it is not reported.
crossesMark(old, total) == total > highWaterMark_ /\ old < highWaterMark_

keepRest(rest) ==
  LET old == B!readableBytes(outputBuffer_)
  IN /\ outputBuffer_' =
          IF rest = <<>> THEN outputBuffer_ ELSE B!append(outputBuffer_, rest)
     /\ armEpollout(rest)
     /\ warned' = (warned \/ crossesMark(old, old + Len(rest)))

\* send in the connection's own thread, the peer being there: sendInLoop.
send(d) ==
  /\ state_ = "kConnected"
  /\ ~broken
  /\ Len(accepted) + Len(d) <= MaxAccepted
  /\ \E n \in Direct(d) :
       /\ taken' = taken \o Upto(d, n)
       /\ wire' = wire \o Upto(d, n)
       /\ keepRest(From(d, n))
  /\ accepted' = accepted \o d
  /\ UNCHANGED <<state_, fin, broken>>

\* The same after a reset: a direct write fails with ECONNRESET and d is
\* dropped, or, with output pending already, d is buffered.  (The other error
\* sendInLoop tests, EPIPE, comes with SIGPIPE, which ends a program that does
\* not ignore it; the repository leaves that to the program.)
sendBroken(d) ==
  /\ state_ = "kConnected"
  /\ broken
  /\ Len(accepted) + Len(d) <= MaxAccepted
  /\ IF writesDirectly
     THEN UNCHANGED <<outputBuffer_, isWriting, warned, accepted>>
     ELSE keepRest(d) /\ accepted' = accepted \o d
  /\ UNCHANGED <<state_, fin, broken, taken, wire>>

-----------------------------------------------------------------------------
\* shutdownInLoop, given whether EPOLLOUT is registered.
\* Mutant: it does not wait for the output.
finAtOnce(writing) == fin' = TRUE
shutdownInLoop(writing) == fin' = (fin \/ ~writing)

\* shutdown in the connection's own thread.
shutdown ==
  /\ state_ = "kConnected"
  /\ state_' = "kDisconnecting"
  /\ shutdownInLoop(isWriting)
  /\ UNCHANGED <<outputBuffer_, isWriting, broken, accepted, taken, wire,
                 warned>>

\* handleWrite when writeFd writes n > 0 bytes: they are retrieved, and if
\* that was all, EPOLLOUT goes, and a shutdown that was waiting is done.
\* Mutant: a partial write empties the buffer.
retrievedAll(n) == B!retrieveAll(outputBuffer_)
retrieved(n) == B!retrieve(outputBuffer_, n)

\* Mutant: a shutdown that found output pending is forgotten.
forgetShutdown == UNCHANGED fin
finishShutdown ==
  IF state_ = "kDisconnecting" THEN shutdownInLoop(FALSE) ELSE UNCHANGED fin

Wrote(n) ==
  LET left == retrieved(n)
      read == B!readableBytes(outputBuffer_) - B!readableBytes(left)
  IN /\ outputBuffer_' = left
     /\ taken' = taken \o Upto(Pending, read)
     /\ wire' = wire \o Upto(B!offered(outputBuffer_), n)
     /\ warned' = (warned /\ B!readableBytes(left) >= highWaterMark_)
     /\ IF B!readableBytes(left) = 0
        THEN /\ isWriting' = FALSE
             /\ finishShutdown
        ELSE UNCHANGED <<isWriting, fin>>
     /\ UNCHANGED <<state_, broken, accepted>>

\* The socket is writable: write() takes at least one of the bytes it is
\* offered.  With none offered it returns 0, and handleWrite does nothing.
handleWrite ==
  /\ isWriting
  /\ ~broken
  /\ \E n \in 1 .. Len(B!offered(outputBuffer_)) : Wrote(n)

\* The peer resets the connection; from here on handleWrite changes nothing.
Reset ==
  /\ ~broken
  /\ broken' = TRUE
  /\ UNCHANGED <<outputBuffer_, isWriting, state_, fin, accepted, taken, wire,
                 warned>>

Next ==
  \/ \E d \in Data : send(d)
  \/ \E d \in Data : sendBroken(d)
  \/ shutdown
  \/ handleWrite
  \/ Reset

Spec == Init /\ [][Next]_vars

\* EPOLLOUT is level-triggered: while it is registered and the socket takes
\* bytes, handleWrite keeps being called.
FairSpec == Spec /\ WF_vars(handleWrite)

-----------------------------------------------------------------------------
(* Properties.                                                             *)

\* EPOLLOUT is registered exactly while output waits: never data without it,
\* which would stay in the buffer, nor it without data, which would spin
\* (tcpconnection.cc:76-111, 170-213).
ArmedWhilePending == isWriting <=> Pending # <<>>

\* The bytes consumed and the bytes pending are the bytes accepted, in order:
\* a direct write never overtakes what is buffered (tcpconnection.cc:84-90,
\* 170-213).
ConsumedInOrder == accepted = taken \o Pending

\* The connection is half-closed once shutdown() has been called and the last
\* byte it accepted has been consumed, never before and no later: neither is a
\* byte cut off, nor a shutdown that found output pending forgotten
\* (tcpconnection.cc:96-99, 164-168, 236-253).
FinExactly == fin <=> state_ = "kDisconnecting" /\ Pending = <<>>

\* No byte is consumed that was not written, whatever part of what it is given
\* write() takes, and what went out is what was consumed as long as their
\* lengths agree: writeFd sends wrong bytes only in addition to the right
\* ones, so that a connection which was half-closed after as many bytes as it
\* accepted has sent just those (tcpconnection.cc:84-90, 170-195,
\* buffer.cc:50-59, buffer.h:39-54).
WireIntact ==
  /\ Len(wire) >= Len(taken)
  /\ Len(wire) = Len(taken) => wire = taken

\* After any send, write or shutdown what is registered, what was sent and what
\* is pending agree, and a warning stands only while the backlog is at the
\* mark or above it; together these are inductive (tcpconnection.cc:76-213,
\* 236-253).
OutputInv ==
  /\ TypeOK
  /\ ArmedWhilePending
  /\ ConsumedInOrder
  /\ FinExactly
  /\ WireIntact
  /\ warned => Len(Pending) >= highWaterMark_

-----------------------------------------------------------------------------
\* "The rest is kept in the buffer, EPOLLOUT is registered, and handleWrite is
\* called to send all of the data" (tcpconnection.cc:197-199): what was
\* buffered on a connection that works reaches the peer, and nothing else.
BufferedIsSent == Pending # <<>> ~> (wire = accepted \/ broken)
==============================================================================
