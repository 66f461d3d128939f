# A verification of cmuduo in TLA+

cmuduo is a small C++ network library after muduo: one event loop per thread,
`epoll`, non-blocking connections with input and output buffers, and callbacks.
This directory models its core, checks the model with TLC and proves the main
invariants with TLAPS. Paths below are relative to `src/muduo/net/src/` unless
they say otherwise; headers are in `src/muduo/net/include/`.

## The system

| part | state | operations | works with |
|---|---|---|---|
| `EventLoop` (eventloop.cc) | `quit_`, `pendingFunctor_` under `mutex_`, `callingPendingFunctors_`, `activeChannels_`, the eventfd | `loop`, `quit`, `runInLoop`, `queueInLoop`, `wakeup`, `doPendingFunctors` | other threads, through the queue and the eventfd; `Poller` |
| `Channel`, `EpollPoller` (channel.cc, epollpoller.cc) | `events_`, `index_`, `tie_`; `channels_`; the kernel's interest list | `enable*`, `disable*`, `remove`, `handleEvent`; `updateChannel`, `removeChannel`, `poll` | owners of channels call it, the loop walks what `poll` reports |
| `Buffer` (buffer.h, buffer.cc) | a vector and two indices | `append`, `retrieve*`, `readFd`, `writeFd`, `makeSpace` | `TcpConnection` has two |
| `TcpConnection` (tcpconnection.cc) | `state_`, the buffers, the channel, user callbacks | `send`, `shutdown`, the handlers, `connectEstablished`, `connectDestroyed` | its loop, its channel, the server, user code in any thread |
| `TcpServer` (tcpserver.cc) | `connectionMap_`, `started_`, `nextConnId_` | `start`, `newConnection`, `removeConnection`, the destructor | `Acceptor`, the pool, its connections |
| `Acceptor`, `Socket` (acceptor.cc, socket.cc) | the listening channel | `listen`, `handleRead` | `TcpServer::newConnection` |
| `EventLoopThreadPool`, `EventLoopThread`, `Thread` | the threads, `loops_`, `next_`, `loop_` | `start`, `startLoop`, `threadFunc`, `getNextLoop`, `join` | one semaphore and one condition variable per thread |
| `Logger`, `TimeStamp`, `InetAddress`, `CurrentThread` (src/muduo/base) | the logger's level | formatting | everything |
| examples (src/example) | rooms, players, turns of a game | callbacks | `TcpServer` |

What is hard here: user code and other threads call into a loop in the middle
of its iteration; `quit()` races with the start, the iterations and the end of
`loop()`; handlers and functors change the registrations of the channels whose
events are being walked; objects live as long as a `shared_ptr` to them, but
some functors hold a raw `this`; `state_` of a connection is tested in one step
and used in another; a level-triggered `epoll` needs EPOLLOUT to be registered
exactly while output waits; and the index arithmetic of the buffer. What makes
each part correct, and where it could go wrong, is listed under "hazards" in
`PROJECT.json`, each with the properties that cover it.

## Modules

Each component module is parameterised by CONSTANTS; its `MC` module and `.cfg`
files give them small values. A refinement is stated with
`INSTANCE`, with a mapping where the abstract state is not the module's own.

**EventLoop** (abstract specification: **CallbackQueue**; proofs:
**EventLoopProofs**). One loop object. `at` is the position of
the loop thread: outside `loop()` (`idle`, `exited`), at the test of `quit_`, in
`poll`, walking events, in a handler, running the batch, in a functor, or
`destroyed`. Other threads may call `queueInLoop` and `quit` at any time, and
user code on the loop thread in any position where user code runs. A call from
another thread takes two steps, the push (or the assignment to `quit_`) and
`wakeup()`, so that the loop can run in between. `doPendingFunctors` is the
swap, one step per functor, and the return. A functor is the identity of one
submission; `posted`, `ran`, `inlined` and `dropped` are histories. `wakeup()`
reads the eventfd, as the code does. CallbackQueue is what a caller of
`queueInLoop` may count on: callbacks are taken in order of submission, each at
most once, none after the loop is gone.

**Poller** (proofs: **PollerProofs**). The channels of one loop, the map
`channels_`, the kernel's entries (`ptr`, `mask`) and the walk over
`activeChannels_`. The owners of channels are reduced to the calls they make,
with the two rules the library's owners keep (Server shows that they do): no use
after `remove()`, and `remove()` only in a functor or outside `loop()`. Descriptors are closed and
handed out again. `epoll_ctl` returns the errors that `update()` turns into
LOG_FATAL, which ends the process (`exited`). `updateChannel` tells `kDeleted`
from `kNew` as the code does, but no statement of the code assigns it:
`disableAll` leaves `index_` at `kNew` and the channel in the map.

**Buffer** (abstract specification: **ByteQueue**; proofs: **BufferProofs**).
A buffer is a record and a member function an operator on it, so that Output
uses the same operators. `readFd` splits what `readv` returns between the
vector and `extrabuf`; `makeSpace` grows or moves. `offered` is what `writeFd`
hands to `write()`. ByteQueue: bytes leave in the order they came, unchanged.

**Output** (proofs: **OutputProofs**). The sending half of an established
connection on its own thread, over a Buffer: `send` with a direct write of any
length, `handleWrite` with a write of any length, `shutdown`, a reset by the
peer. `accepted`, `taken` and `wire` are histories: what `sendInLoop` took on,
what was written at once or retrieved as written, and the bytes `write()` was
really given. A broken connection is one whose write fails with ECONNRESET;
EPIPE comes with a SIGPIPE, which nothing in the repository ignores, so the
process does not outlive it.

**Connection** (abstract specification: **ConnectionLife**; proofs:
**ConnectionProofs**). The life of one
connection on the base loop: `connectionMap_`, the registration of its channel,
the position of the loop thread, the queue of functors with what each is bound
to (a `shared_ptr`, or a raw `this`), the threads whose user code holds a
`shared_ptr`, and `send()` and `shutdown()` by other threads in two or three
steps each. `alive` says whether a `shared_ptr` is left. Bytes are reduced to
"output is waiting". User code may run in any callback, and in the handlers of
other channels. A use of the destroyed object leads to `at = "crashed"`.
`closing` and `lateSend` are histories. ConnectionLife is what user code sees:
it is told once that the connection is up, gets messages, is told at most once
that it is down, and gets nothing more.

**Server** (composes with **Poller** and **ConnectionLife**; proofs:
**ServerProofs**). A server
without pool threads, its acceptor, the descriptors of the process and several
connections, from the constructor to the end of `~TcpServer`, which may come
whenever the loop has returned. It shares the variables of Poller: the channels
of the acceptor and the connections are channels there, and `PollerSpec` says
that their owners keep the rules which Poller only assumes. A connection is its
channel, its `state_`, its name and its place in the map, the functors and the
hands of user code; `held` is what user code keeps. The last `shared_ptr` takes
the object with it at once (`Settled`, `Release`). Functors other than
`connectDestroyed` are in Connection. `LivesSpec` says that each connection of a
server lives as ConnectionLife allows: the abstract specification is
instantiated once for each of them, and every step of the server is a step of
ConnectionLife, or none, for all. Peers connect and give up as they like.
`accept()` takes the lowest free descriptor, and fails when there is none: the
peer then goes on waiting. With one free it may fail because of the peer's
connection, which then leaves the backlog.

**ServerStart** (proofs: **ServerStartProofs**). `TcpServer::start` by several
threads, `EventLoopThreadPool::start`, `Thread::start` with its semaphore,
`EventLoopThread::startLoop` and `threadFunc`, up to `Acceptor::listen`. Whether
a `threadInitCallback_` is set is chosen at the start; `Calls` is how often the
pool then has to call it.

**Game** (proofs: **GameProofs**). The example server src/example/game.cc on its
one loop: players wait, are paired in rooms, send commands in turn and leave at
any time. A handler is one step. A message is its first byte, which is all the
code looks at; texts sent to the players are left out.

## Runs

| run | configuration | holds |
|---|---|---|
| event_loop | MCEventLoop.cfg: 2 threads, 3 functors, 1 channel | LoopInv, Accounting, ExitsBetweenIterations, BatchNeverGrows, refinement of CallbackQueue (QueueSpec); PendingRunsUnlessQuit, QuitLeavesLoop |
| poller | MCPoller.cfg: 3 channels, 2 descriptors | PollerInv, KernelAgrees, NeverFatal, NoDanglingPointer |
| buffer | MCBuffer.cfg: reserve 1, size 3, extrabuf 2, two byte values | BufferInv, MovesToLowerAddress, GrowthBounded, refinement of ByteQueue (QueueSpec) |
| output | MCOutput.cfg: up to 6 bytes in sends of 1 to 3, mark 3 | OutputInv, ArmedWhilePending, ConsumedInOrder, FinExactly, WireIntact |
| connection | MCConnection.cfg: 2 other threads | ConnectionInv, EarlyFunctorsFindObject, OnlyLateCrash, DownOnlyWrites, refinement of ConnectionLife (LifeSpec), ClosedIsFreed |
| server | MCServer.cfg: 3 connections, 3 descriptors, backlog 2 | ServerInv, MapHoldsOpen, DestroyedLeavesNothing, OpenIsWatched, refinement of Poller (PollerSpec) and, by each connection, of ConnectionLife (LivesSpec), AcceptsWhenRoom |
| server_start | MCServerStart.cfg: 5 callers, 0 to 2 pool threads | StartInv, ListenOnce, AloneListens |
| game | MCGame.cfg: 3 players | GameInv, RoomsPaired, GameOver, GameProgress |

The first invariant of each of these runs is the inductive invariant of the
proofs (see below); its first conjunct is the module's type invariant, TypeOK.

Four runs each check one statement of the source's comments that the code does
not live up to; TLC finds a counterexample:

| run | statement | what the code does |
|---|---|---|
| event_loop_wakeup | WakeupLeavesPoll: `wakeup()` wakes the loop's thread (eventloop.h:43, 46) | it reads the eventfd where it should write, so a loop in `epoll_wait` sleeps on, up to `kPollTimeMs` = 10 s |
| event_loop_lost_quit | QuitEndsLoop: `quit()` ends the loop (eventloop.h:32) | `loop()` resets `quit_`, so an earlier `quit()` is lost |
| output_sent | BufferedIsSent: `handleWrite` sends all the buffered data (tcpconnection.cc:197-199) | `writeFd` offers `writableBytes()` bytes: what lies behind the data goes out too, or, with the vector exactly full, nothing ever does |
| server_start_hang | StartListens: the main loop runs the acceptor (tcpserver.h:47, 52) | `startLoop` waits on a local variable that stays `nullptr`, so `start()` with pool threads never returns |

With `offered` the readable bytes, which is what `writeFd` must be meant to
write, BufferedIsSent holds: the counterexample comes from that line alone.

PendingRunsUnlessQuit stops at `quit()`: what is queued after the swap and
before the loop tests `quit_` stays in the queue (it is run if `loop()` is
called again, and dropped by the destructor otherwise).

`output` holds in spite of output_sent: most of its properties speak of what
the connection accounts as sent. WireIntact is the one about the wire. It bounds
that fault: never less goes out than the connection accounts for, and while it
is no more, it is the right bytes.

No property says when the high-water callback must come. `Output` has its guard
(`crossesMark`, tcpconnection.cc:203), by which a backlog that stops exactly at
the mark and grows from there is never reported; whether it should be, no text
of the repository says.

AcceptsWhenRoom says that the server does not starve its peers: either there
is, again and again, no peer waiting, no descriptor free or no loop running, or
one peer after the other is taken off the backlog. OpenIsWatched is the safety
beside it: the kernel never stops watching the acceptor or an open connection.

AloneListens is about a server without pool threads. With them StartListens
fails: see server_start_hang.

### Bounds, and why they are enough

- EventLoop: three submissions give a batch, a functor queued while it runs and
  one that races with the swap; a second thread gives two producers. The number
  of functors bounds the histories. Restarts of `loop()` are unbounded.
- Poller: with two descriptors and three channels one descriptor changes hands
  while another channel stays registered. No history, so no other bound.
- Buffer: sizes are shrunk so that a string of three bytes can fill the vector,
  spill over extrabuf, move and grow in one call. `MaxReadable` = 4 bounds the
  backlog; the proofs cover all sizes.
- Output: `MaxAccepted` bounds the bytes of a behaviour; six bytes over a
  vector of three cells move and grow it, and the mark of three is passed, hit
  and missed.
- Connection: `MaxQueue` = 1 stops user code from calling while a functor is
  pending, yet two threads and the handlers still put several there.
- Server: three connections and descriptors for the listener and two of them,
  so that two are open at once and close in the same iteration, a third takes
  over a descriptor, and `accept()` runs out of them while a peer waits.
  `MaxConns` bounds the objects of a behaviour; the proofs cover any number.
- ServerStart: five callers, because the four that lose the race leave little
  state; two pool threads, although the start of the first never ends.
- Game: three players make a room and one who waits, comes late, or is paired
  with somebody who has left. Health 4 with damages of 1 and 2, magic for two
  attacks and one potion of each kind reach every end of a game: no magic, no
  potion, a drink that meets the limit, a blow larger than what is left. Players
  are alike, so TLC counts states up to their permutations.

`CHECK_DEADLOCK FALSE` stands in the configurations of systems that may stop:
a destroyed loop, a connection with all its bytes sent or that is gone, a
server that is started or destroyed, players that have left. The poller and the
buffer never stop, and are checked.

Every property of a passing run has a mutant: an operator beside the
definition it replaces, marked "Mutant" in its comment, that changes the code
the way a plausible mistake would and makes TLC find the property violated.

### Fairness

- EventLoop, `FairSpec`: the loop thread keeps running, handlers and functors
  return, `epoll_wait` returns after `kPollTimeMs` at the latest, and a thread
  inside a call finishes it. Nothing makes a program start, quit or destroy its
  loop, nor a channel become ready. `PromptSpec` takes the timeout away (waiting
  ten seconds is not being woken); `StartedSpec` adds that the program does call
  `loop()`.
- Output, `FairSpec`: EPOLLOUT is level-triggered, so while it is registered
  and the socket takes bytes, `handleWrite` is called again and again.
- Connection, `FairSpec`: the same for the loop thread; a thread inside
  `send()` or `shutdown()` finishes it. No thread has to drop its pointer.
- Server, `FairSpec`: the loop thread goes on as long as it is in `loop()`, and
  user callbacks return. No peer has to come or go, no user has to drop a
  pointer, and nothing makes a program leave or enter the loop: AcceptsWhenRoom
  gives up when the loop is left.
- ServerStart, `FairSpec`: threads go on with what they began, and the main
  thread calls `start()` and then `loop()`, as in src/example/testserver.cc.

### Late sends in Connection

`lateSend` marks the behaviours in which a `sendInLoop` runs that another thread
queued after the server had dropped the connection. `send()` tests `state_`, the
connection closes, and then the functor is queued behind `connectDestroyed`.
When it runs on an object somebody still holds, it can buffer its data and
enable EPOLLOUT, which registers the channel again, under a connection the user
was told is down; that connection may be closed a second time, or be destroyed
with its channel registered. When nobody holds the object the functor uses it
after its destruction.

The safety properties say how far this goes, instead of leaving it out:

- OnlyLateCrash: an object that is gone is used by a late functor, or because
  epoll reports a channel that a late send has registered, for writing or a
  hang-up; by nothing else.
- DownOnlyWrites: after DOWN there is no message and no reading, with or
  without late sends, and while the loop waits in `epoll_wait` the channel is
  registered only for output a late send has left.
- EarlyFunctorsFindObject: what was queued before the close finds the object.

Only the refinement stops there: after a late send what the user is told is no
longer what ConnectionLife promises (DOWN may come twice), so `lifeStage` is
"undefined" from then on. The server of the Server module has no other threads,
so its connections have no late sends.

What the code does there, and what a thread that calls `quit()` does to a loop
whose owner destroys it as soon as `loop()` returns (eventloop.cc:89), is listed
as a hazard and not as a finding, because no text of the repository speaks of it.

## Proofs

TLAPS checks, for every value of the constants that satisfies the named
assumptions of the modules, what follows. Every module has a theorem
`Invariance`, that its inductive invariant always holds; TLC checks the same
formula in the module's run. The other theorems follow from it, from the step
lemmas it rests on, or from a refinement.

- **EventLoopProofs**: `LoopInv` = TypeOK, Phases and Accounting is inductive.
  Phases says what each position of the loop thread implies, for example that
  the local vector is empty outside `doPendingFunctors`; without it neither
  Accounting (the swap replaces that vector) nor ExitsBetweenIterations is
  inductive. The refinement of CallbackQueue maps the queue to the rest of the
  batch followed by `pendingFunctor_`: the swap is a stutter, a functor that
  runs is a Take, and two lemmas say what pushing and taking do to that
  concatenation. CallbackQueue's own invariant, that what was taken and what is
  waiting make up what was posted, then gives RunInOrder by the refinement:
  the order of functors is proved of the queue, and EventLoop inherits it.
  NeverWoken, that no `wakeup()` ever signals the eventfd, is inductive by itself.
- **PollerProofs**: `PollerInv` adds to the checked invariants that live
  channels have different descriptors, what an entry of the map and of the
  kernel implies, what `index_` implies, that a removed channel is unmapped, and
  that the channels still to be walked are live and mapped. The last needs the
  rule that nothing is removed during the walk.
- **BufferProofs**: lemmas on what each operator does to the readable bytes, up
  to `AppendFacts` and `ReadFdFacts`; `BufferInv` is the order of the indices
  with the bound on growth. Moving bytes to a lower address and the refinement
  of ByteQueue follow.
- **OutputProofs**: `OutputInv` is the conjunction of the checked invariants
  with that a warned backlog is at the mark at least. Each action is reduced to
  what it does to the pending bytes by the lemmas of BufferProofs, which is instantiated for
  `outputBuffer_`. FinExactly is an equivalence: the half-close comes
  when all output is consumed, not before, and with no step in between.
  WireIntact says how far the fault of output_sent goes. `writeFd` offers the
  pending bytes first (OfferedFacts), so the wire never has less than was
  consumed, and as long as it has no more, it has the right bytes.
- **ConnectionProofs**: `ConnectionInv` has five parts beside the types. Stages
  says what each position of the loop thread implies for the connection; the
  middle of it is that the connection is in the map exactly until
  `connectDestroyed` is queued or called. QueuedAfterClose and
  EarlyBeforeDestroy order the queue: before the close nothing of the close is
  in it, and after it, whatever was bound to `this` before stands in front of
  `connectDestroyed`, which holds the object. ClosedForGood is about the
  channel: as long as no late send has run, a closed connection is out of the
  poller, or its `connectDestroyed` is still to run in the same iteration.
  Registration holds with late sends too: what is registered is reading before
  DOWN and output after it, and every handler that disables or removes the
  channel finds it registered, so that none of them toggles `index_` the wrong
  way. Both together give DownOnlyWrites. OnlyLateCrash goes through the steps
  that can use a destroyed object one by one: by EarlyFunctorsFindObject the
  functor that does was queued late, and an event that does is, by RegisteredAlive,
  behind a late send and, by Registration, not for reading. For the refinement,
  the step that takes the last `shared_ptr` away comes only after DOWN, or to a
  connection the user has half-closed, and nothing brings an object back.
- **ServerStartProofs**: at most one caller is past the test of `started_`, and
  the counts of callbacks and listens follow from where it is. At most one pool
  thread is being started, so that its semaphore and its id belong together
  (TidKnown).
- **ServerProofs**: `ServerInv` says, beside `PollerInv`, what each stage of the
  server and each call in progress implies, that names are counted by the
  connections that have been made, and, as the middle of it, that a live
  connection's channel is registered or removable exactly as long as somebody is
  still to call `remove()` for it: the map, a queued functor, or `~TcpServer` in
  the middle of `connectDestroyed`. From that follows that no step uses a
  removed channel or removes one during the walk, which is the refinement of
  Poller, and that nothing is left when the map is empty. The instances of
  Poller in Server and in PollerProofs are shown to be the same formulas, so that
  PollerProofs' own inductive step serves here; what PollerProofs proves of any
  owners thereby holds under a whole server (LoopIsSound). Two parts are about
  open connections: none but the one being accepted is in `kConnecting`, and
  each of them, as the listening acceptor, has cached that it is registered for
  reading. With Poller's invariant the kernel then knows it too (OpenIsWatched).
  For LivesSpec a step lemma says of each action which connection it is about
  and what that one's user is told; for every other connection it is a stutter
  of ConnectionLife.
- **GameProofs**: `GameInv` adds to RoomsPaired and GameOver who waits and that
  players without a room are unharmed. GameProgress needs that damage is at
  least 1 and that a potion gives back less than it is counted for. From the
  same account of a command follow PlayedInTurn (nobody but the one on turn uses
  up anything, only his rival loses health, and each command ends the turn) and
  OneGameEach (who has a room keeps it and his opponent, and a closed room stays
  closed).

The assumptions are only about constants: the loop's thread is not one of the
others, sizes are natural numbers, `Null` is not a channel, the process may have
a descriptor, damages are positive.

Every safety property the runs check is proved, and every refinement.
Model-checked only is liveness, which is out of the prover's reach:
PendingRunsUnlessQuit and QuitLeavesLoop (EventLoop), ClosedIsFreed
(Connection), AcceptsWhenRoom (Server), AloneListens (ServerStart). Proved and
in no run, because another property of the run implies them or they were
checked while they were written: RunInOrder, NeverWoken, HandlesOnlyRegistered,
TidKnown (a part of StartInv), PlayedInTurn, OneGameEach.

Recursion over data is avoided rather than proved about: no module with a
theorem has a recursive operator, and what sequences concatenate to is stated
with `\o`, `SubSeq` and lengths.

## Not modelled

- `Logger`, `TimeStamp`, `InetAddress`, `CurrentThread`: formatting, or nothing
  that changes over time. That LOG_FATAL exits is in Poller.
- The examples other than the game, apart from the order of calls in `main`.
- `getNextLoop` over pool threads, connections on their loops,
  `~EventLoopThread`, the end of `threadFunc`, `Thread::join` and the detaching
  destructor: a server with pool threads never starts (server_start_hang), and
  nothing else makes threads.
- EPOLLERR (its handler logs), EPOLLPRI apart from EPOLLIN, socket options.
- SIGPIPE, which ends the process; failures of `accept()` that keep the peer
  waiting while descriptors are free (ENFILE, ENOMEM).
- The bytes of a send from another thread: its functor keeps a pointer into the
  caller's string (tcpconnection.cc:151-152), and what a `shutdown()` behind it
  drops.
- The overflow of `nextConnId_` after 2^31 - 1 connections.

## Plan

The core came first: the loop and its queue, because every callback depends on
it; then the poller and the buffer, on which the connection stands; then the two
halves of the connection, the start of the server, the server with several
connections, and the game on top of it. What is left, in this order:

1. **Connection** with what other threads send: order of sends per thread, what
   `kDisconnecting` drops, the pointer into a string that is gone.
2. **Reactor**: EventLoop composed with Poller, so that the events of a loop are
   those of its registered channels, and the wakeup channel is one of them.
3. **EventLoopThread** and **Thread** by themselves, with `startLoop` as an
   operation that may be repaired: publication of `loop_`, `~EventLoopThread`,
   `join` and `detach`; `getNextLoop` with its off-by-one.
4. **Game** over **Server**: the connections that rooms and players keep for
   ever, and the descriptors with them.

Proofs still worth having: that Connection's registration of its channel is a
refinement of Poller, as Server's is; that a functor of Connection runs in the
order CallbackQueue promises, which would let Connection take its queue from
there; and, when a module above is added, its inductive invariant.
