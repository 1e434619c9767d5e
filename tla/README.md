# Mage in TLA+

A verification development for *mage*, an inter-process communication library
(`src/mage/core`, `src/mage/public`). It holds TLA+ models of the parts of the
library that are concurrent and distributed, the TLC configurations that
model-check them on small networks, and proofs, checked by TLAPS, of what holds
for networks of any size.

## 1. The system

Processes form a network of **nodes** joined by sockets. A **message pipe** has
two **endpoints**, each the other's *peer*. An application holds **handles** to
endpoints; it sends messages over a handle (through a `Remote`) or binds a
`Receiver` to it. A message may carry handles, which moves the endpoints they
denote to wherever the message goes. The endpoint left behind becomes a
**proxy** that forwards to the new one.

### Components

| component | state | operations | how it meets the others |
|---|---|---|---|
| `Endpoint` (`endpoint.cc`, `endpoint.h`) | `state` (queueing, bound, proxying), `incoming_message_queue_`, `delegate_`, `delegate_task_runner_`, `peer_address`, `proxy_target`, under `lock_` | `AcceptMessage...`, `PostMessageToDelegate`, `TakeQueuedMessages`, `RegisterDelegate`, `SetProxying` | called by `Node` on any thread; posts tasks to the receiver's thread |
| `Node`, routing (`node.cc:181-280, 461-680`) | `local_endpoints_` | `SendMessage`, `SendMessagesAndRecursiveDependents`, `OnReceivedUserMessage`, `PrepareToForwardUserMessage` | locks endpoints, writes channels; `Core` creates endpoints for it |
| `Node`, invitations (`node.cc:73-179, 298-459`) | `node_channel_map_`, `pending_invitations_`, `has_accepted_invitation_` | `SendInvitationAndGetMessagePipe`, `AcceptInvitation`, `OnReceivedInvitation`, `OnReceivedAcceptInvitation` | renames channels; flushes the reserved endpoint; reports to `Core` |
| `Core` (`core.cc`) | `handle_table_`, `next_available_handle_`, two invitation callbacks, `origin_task_runner_` | `PopulateEndpointDescriptor`, `Recover...FromEndpointDescriptor`, registration, callbacks | between bindings and `Node` |
| `Channel` (`channel.cc`) | a socket | `Start`, `SendMessage`, `OnCanReadFromSocket` | written from any thread; read on the IO thread, which calls `Node::OnReceivedMessage` |
| messages (`message.h`) | a buffer: header, body, endpoint descriptors; recovered pipes | building, `GetEndpointDescriptors`, `QueuePipe`, `TakeNextPipe` | what channels carry |
| bindings (`remote.h`, `receiver.h`, `classes.tmpl`) | `bound_`, `local_handle_`, the stub a `Receiver` owns | `Bind`, `Unbind`, method calls, dispatch | the application's side of a pipe |
| `api.cc`, generator, utilities, demo | none that matters here | pass-through, code generation, logging | |

`//base` (task loops, threads, mutexes) is not in the repository; it is modelled
from the way the code uses it: a mutex excludes, a task loop runs its tasks in
order, an IO loop reads sockets.

### What is hard

* **Interleaving.** Application threads and the IO thread meet at an endpoint's
  lock: one decides to queue while another binds or moves the endpoint.
* **Locks held across calls.** The flush of `SendMessagesAndRecursiveDependents`
  takes and frees the locks of dependents turn by turn while its caller holds
  another lock.
* **Ordering over the wire.** The message that introduces an endpoint must come
  before any message for it; a proxy must not let later messages overtake
  those it was left with.
* **Names and routes.** Temporary node names are replaced during an acceptance;
  endpoint names change with every hop; peers never change; proxies form chains.
* **Descriptors that go stale** in messages that wait.
* **Callbacks**: one slot each for two asynchronous events.
* **Sockets**: full buffers, partial writes and reads, a dead peer.

`PROJECT.json` lists each hazard at its line with the properties that cover it.

### What makes each component correct

* `Endpoint`: no CHECK fails; nothing is stranded in the queue of an endpoint
  that is no longer queueing; every accepted message is released once and, where
  the code promises it, in order; an introduction comes first.
* `Node`, routing: every lookup a handler makes succeeds; each end of a pipe has
  one home; a proxy leads on; a message reaches the receiver at the other end of
  its pipe, once, in order; eventually.
* `Node`, invitations: the acceptance finds what the invitation left; what was
  queued meanwhile is delivered first; the inviter is told.
* `Core`: a handle denotes one endpoint for good; tables are not accessed by two
  threads at once; an acceptance is reported as what it is, once.
* `Channel`: whole messages, in order; an abort has a cause; what is begun arrives.
* Messages: the stub reads what the proxy was called with, wherever it is.
* Bindings: a message is dispatched only to a live receiver, on its thread.

## 2. The modules

| module | what it is |
|---|---|
| `Pipe` | abstract specification: a FIFO that accepts and releases messages |
| `Endpoint` | one endpoint, its senders and its owner, one action per step between `Lock()` and `Unlock()`; the properties of an endpoint; the refinement of `Pipe` |
| `EndpointProofs` | theorems about `Endpoint` |
| `Node` | a network of processes: nodes, channels, invitations, endpoints, threads |
| `NodeProperties` | the properties of a network |
| `NodeProofs` | theorems about `Node`: what each place may hold, and routes |
| `NodePlaces`, `NodePlaceProofs` | theorems about `Node`, continued: what is in one place only |
| `MCNode` | topologies, roles of ends and a connected initial state for TLC |
| `Core` | the tables of one process, and every access of its threads to them |
| `CoreProofs` | theorems about `Core` |
| `Channel`, `MCChannel` | two processes and the socket between them, one action per system call; the refinement of two `Pipe`s; an instance for TLC |
| `ChannelProofs` | theorems about `Channel` |
| `FlattenLemmas` | what `FlattenSeq` does to a sequence that grows: lemmas for `ChannelProofs` and `NodeProofs` |
| `Message` | one method call: from the proxy's buffer to the stub's arguments |
| `MessageProofs` | theorems about `Message` |

Each module looks at the program at one grain, and leaves to the others what they
look at. `Node` is the composition: it uses endpoints whose locked steps are atomic
(`Endpoint` takes them apart), wires that are FIFOs of whole messages (`Channel`
shows when they are), tables that are read and written atomically (`Core` takes
the accesses apart), handles that are as good as endpoint names (`HandlesUnique`
of `Core`), and messages that say what was written in them (`Message`).

### `Endpoint`

*Senders* are the IO thread (`Node::OnReceivedUserMessage`) and threads whose
handle is the endpoint's local peer (`Node::SendMessage`, `node.cc:240-279`).
Each locks, observes `state`, and then queues, posts or forwards and unlocks.
The *Owner* does the one thing an endpoint is for, its `plan`:

* `"bind"`: `RegisterDelegate`, one action per assignment, one per turn of the
  drain loop (`SetBound`, `SetDelegate`, `SetRunner`, `DrainOne`, `Bound`).
* `"send"`: the turn of the flush loop that moves the endpoint inside a message
  (`Take`, `SetProxying`, `Introduce`, `UnlockDependent`, then `FlushOne`).
* `"invite"`: `OnReceivedAcceptInvitation` (`SetProxying`, `Take`, `FlushOne`,
  `Flushed`), with the lock held throughout.

`RunTask` is `DispatchMessageIfStillAlive`; `DestroyDelegate` is the death of the
`Receiver`, which tells the endpoint nothing. The lock is a variable, and actions
do not check it beyond acquiring it: mutual exclusion is a consequence, and the
mutants that drop or move a `Lock()` show that the properties depend on it.
A CHECK is a guard, and `ChecksHold` says that it never stops a thread.

`ImplementsPipe` maps an endpoint to `Pipe`: it accepts what senders give it and
releases what is dispatched or written. `Guarded` says of every thread that it holds the
lock exactly while it is between `Lock()` and `Unlock()`, on whichever path through the
cases of `state`. The code promises an order for the plans
`"bind"` and `"invite"`; of an endpoint moved inside a message it does not keep
the order (section 5), so nothing counts as released of it (`Promised`).

### `Node`

Endpoints, channels and pending invitations are functions per node; the handle
table is one-to-one with endpoints, so a handle is written as its endpoint's name.
Random names are fresh by construction, and a name records which end of which
pipe it stands for: that is how properties speak of "the same end". A handler
that runs under one endpoint's lock is one action. A thread inside
`SendMessagesAndRecursiveDependents` is a `call`, with the lock its caller holds
and the messages still to write; each turn (`FlushOne`) and the return
(`FlushDone`) are actions, so everything else can run in between.

| code | action |
|---|---|
| `Core::CreateMessagePipes` | `CreateMessagePipes` |
| `Core/Node::SendInvitationAndGetMessagePipe` | `SendInvitation` |
| `Node::AcceptInvitation` | `AcceptInvitation` |
| `Node::OnReceivedInvitation`, `Core::OnReceivedInvitation` | `OnReceivedInvitation` |
| `Node::OnReceivedAcceptInvitation` up to its flush; the rest | `OnReceivedAcceptInvitation`; `FlushOne`, `FlushDone` (`Report`) |
| `Node::SendMessage`: remote peer, proxying local peer, other local peer | `SendToRemotePeer`, `SendThroughProxy`, `SendToLocalPeer` |
| one turn of `SendMessagesAndRecursiveDependents` | `FlushOne` |
| `Node::OnReceivedUserMessage`: bound or queueing, proxying | `OnReceivedUserMessage`, `ForwardUserMessage` |
| `Endpoint::RegisterDelegate` | `Bind` |
| a task on an application thread | `RunTask` |

An application of the model uses a handle from one thread at a time, does not
send a handle over its own pipe or one that is bound, does not send to a node it
has no channel to (the crash documented in
`docs/design_limitations.md:102-108`), and does not invite and accept in one
process (`node.cc:152-157`, "unsupported").

**Regimes.** Two of the disagreements of section 5 break properties of many
behaviours. Two constants switch the behaviours that lead to them on and off, so
that the rest is checked without them:

* `EarlyHandles = FALSE`: no handles over a pipe whose other end is still
  reserved for an invitee. Together with one move per pipe and one application
  thread per process, this leaves nobody who could send through an endpoint
  while another thread is flushing it, so pipes are FIFO (`NodeFifo`). With a
  second thread, or with the IO thread flushing handles after an acceptance, the
  first disagreement of section 5 applies; `NodeLive` therefore checks that
  nothing is lost and everything is delivered, not the order.
* `Reforward = FALSE`: an end of a pipe that has carried handles moves once, and
  a pipe whose end has moved again carries handles only once every message that
  carries one of its ends has been written, so that no handle-bearing message
  waits on an endpoint that is moved on.

The runs `NodeOvertaken` and `NodeReforward` switch them on and show why.

### `Core`

One process, inviter or invitee, with any number of application threads and an IO
thread. A call of the library is a *path*: the accesses it makes to the process's
tables, in the order of the code (`CreatePath`, `InvitePath`, `SendPath`, ...,
`AcceptPath`, `ReceivePath`, `InvitedPath`). `Table` says what a step accesses,
`Writes` whether it changes it, `Locked` whether it is made under the table's lock.
A locked step is atomic, except that `GetNextMessagePipe` reads the counter and
increments it under one lock (`readNext`, `writeNext`). A lookup that must succeed
(a CHECK, or an iterator used without one) is a guard, and `ChecksHold` says that
it is never in the way.

`returned` holds the handles an application has, with their endpoints and peers, so that
what a send looks up is the name it would be: `PopulateEndpointDescriptor` and
`Core::SendMessage` find the handles (`FindCarried`), `Node::SendMessage` the endpoint
that is sent, the peer and the channel (`FindChannel`), and, once the message is for this
node, recovery finds a handle of the endpoint's name. `queued` holds the endpoints in
messages that were sent here and wait here: the flush after an acceptance may take any
of them (`TakeQueued`). One turn of its loop stands for all: each turn looks up the
endpoints of one message (node.cc:502) and writes to the same channel. `announced` holds
the endpoints other processes may send to, because a message or an invitation told them
the name. A channel is written by its key (`Route`): it must be the one the call has
found or renamed. What is left out: endpoints in messages that were *received* here, queued
and moved on. For those the lookup of node.cc:502 can fail (`NodeReforward`, section 5).

| code | steps |
|---|---|
| `Core::GetNextMessagePipe` | `ReadNext`, `WriteNext` |
| `Core::RegisterLocalHandleAndEndpoint`, `Node::RegisterEndpoint` | `Look` (`checkHandle`), `InsertHandle`, `InsertEndpoint` |
| `Core::SendInvitationAndGetMessagePipe`, `Node::SendInvitationAndGetMessagePipe` | `SetCallback`, `InsertChannel`, `InsertPending`, `SendInvitation` |
| `Node::OnReceivedAcceptInvitation` and its flush | `TakePending`, `Look` (`findReserved`), `RenameChannel`, `TakeQueued`, `Look` (`findDependent`), `WriteChannel` |
| `Core::OnReceivedAcceptInvitation` | `TestCallback`, `MoveCallback` |
| `Core::AcceptInvitation`, `Node::AcceptInvitation` | `SetJoinCallback`, `InsertInitial`, `StartChannel` |
| `Node::OnReceivedInvitation`, `Core::OnReceivedInvitation` | `RenameInitial`, `InsertInvited`, `SendAcceptance`, handle steps, `Report` |
| `PopulateEndpointDescriptor`, `Core::SendMessage`, `Node::SendMessage`, `RecoverExistingMessagePipe...`, `AcceptMessage` | `Look`, `FindCarried`, `FindChannel`, `WriteChannel` or `Deliver` |
| `Node::OnReceivedUserMessage`, `PrepareToForwardUserMessage` | `Look` (`findTarget`, `findRecovered`), handle steps, `WriteChannel` |

Two accesses *race* when two threads are about to make them, to one table, one
of them writes, and they are not both made under its lock. `TablesGuarded` says
which tables are free of races (of `node_channel_map_` only that it has no two writers:
`node.cc:212` reads it without the lock; the slot of the inviter's callback has no lock
at all, section 5); `EndpointsGuarded`, which the code violates, is
what `node.h:85-86` claims of `local_endpoints_`. A race is undefined behaviour in
C++; the models give an unlocked read the value before or after the write.

### `Channel`

Two processes, the inviter and the invitee, at the grain of `write` and `recvmsg`.
A thread takes the map's lock and begins a message (`SendMessage`; the invitation
is written without the lock, `SendInvitation`); the kernel takes a write in
chunks as the socket has room (`WriteChunk`), the write completes and the lock is
freed (`Wrote`), or it fails (`WriteFails`). The IO thread reads a header and a
body (`ReadHeader`, `ReadBody`); less than asked for fails a CHECK
(`ReadPartOfHeader`, `ReadPartOfBody`), and a failed CHECK ends the process. What
the IO thread has read may make it write (`relay`): the invitee's acceptance; on the
acceptance, what waited for it at the inviter, each message under the map's lock
(`node.cc:455, 540-543`); or a message for a proxy (`Forwards`). A process may be killed (`Kill`).

How the embedder sets the sockets up matters and is a variable, `setup`: blocking
or not (`mage_test.cc:146, 165`), with a copy of the other's end left open
(`demo/parent.cc:18-28`), whether the inviter's application sends before the acceptance
(`queued`, as the demo does at `parent.cc:35-37`), and which processes relay to the other.
The stream is written as cells that say which byte of which message they are;
`Decoded` is what the reader makes of what it read.

### `Message`

One method call, one argument per step. The buffer is a sequence of cells, one per
number, word of payload or descriptor; a pointer holds the distance from its own
cell. `Allocate`, `WriteArgument`, `WriteEndpoints`, `FinalizeSize` are the
generated proxy (`classes.tmpl:89-161`); `DeliverLocally`, `Transmit`, `Deliver`,
`Forward` are what nodes and channels do to a buffer and to the handles queued on
it; a message that is queued, where it was sent or in a process it has come to, may be
moved on with its endpoint (`Transmit` again), and `FlushFails` is the CHECK of
`node.cc:502` for names the process does not know; `Dispatch`, `ReadArgument`, `Invoke` are the generated stub
(`classes.tmpl:191-237`). Every call with up to `MaxArguments` arguments is an
initial state.

## 3. The runs

| run | bounds | what it shows |
|---|---|---|
| `Endpoint` | 2 senders, 4 messages, 3 plans | `Guarded`, `ChecksHold`, `NoneStranded`, `IntroducedFirst`, `NoLossNoDup`, `InOrder` (bind, invite); `StateIsFinal`; `ImplementsPipe`; `Delivery` |
| `NodeFifo` | parent and child from cold start, 3 pipes, 4 messages, 2 handles a message | `TypeOK`, `PeerIsLocalOrRemote`, `InOrder`, `NoLossNoDup` |
| `NodeMoves` | the same, 2 pipes, 3 messages, 3 moves, early handles | `ReceptionReady`, `DependentsReady`, `HandlesAreDirect`, `OneHome`, `RightReceiver`, `RoutesAreFinal` |
| `NodeStar` | connected, 3 nodes, 3 pipes, 4 messages, 3 moves | `NoOrphans`, `ProxiesLeadOn` |
| `NodeLive` | parent and child from cold start, 2 threads a process, 3 messages, 2 moves | `NoLossNoDup`; `Delivery`, `AcceptanceReported` |
| `Channel` | 3 messages one way and 2 the other, of 2 or 3 bytes, over a socket of 2; 2 threads on one side; 8 setups; the invitee may be killed | `TypeOK`, `StreamIsWhole`, `AbortsForCause`; `ImplementsPipes`, `Delivered`, `DeathSpreads` |
| `Core` | 2 application threads and the IO thread, 2 calls, 2 invitations, 1 message; inviter or invitee | `TypeOK`, `ChecksHold`, `HandlesUnique`, `TablesGuarded`; `CallsReturn`, `AcceptanceReported` |
| `Message` | 3 arguments, arrays of up to 2 words, 2 handles, 2 processes away | `TypeOK`, `ArgumentsArrive`, `PointersSound`; `Invoked`, which excepts the calls of which section 5, 2 says that a CHECK stops them |
| `NodeOvertaken` | parent and child, early handles | `InOrder` fails |
| `NodeReforward` | parent and child, 3 moves, re-forwarding | `DependentsReady` fails |
| `InvitationCallback` | as `Core` | `ReportedMeansAccepted` fails |
| `EndpointsTable` | as `Core` | `EndpointsGuarded` fails |

**Why the bounds are enough.**

* `Endpoint`: four messages let one be queued before the owner starts, one while it
  works, and one from each sender after it.
* `Node`: a second pipe is what the first can carry; a third is what the second can
  carry, or the pipe messages wait on while it moves. Three messages let one carry
  an end, one be queued on it and one chase it; three moves bring an end back to a
  node it has been at. Two nodes suffice for everything but the case in which a
  node forwards between two others, which `NodeStar` adds. Its start
  (`ConnectedInit`: invitations have been accepted and reported) is one the other
  runs reach from cold start. Where a run assigns roles (`FirstSides` are sent on,
  `SecondSides` bound or moved), the other roles are those of the mirrored pipe.
* `Channel`: a message of 2 is one write, one of 3 is cut; a socket that holds 2 is
  full after one message and in the middle of the next. Two writers on one side
  meet at the lock, and a relay meets both. Of the setups, those with blocking sockets try
  every choice of who relays without a flush, and a flush with an invitee that relays or
  does not; those without blocking are the demo's and one in which the inviter does all.
* `Core`: the races and the callback need two threads in a call; the handles need
  two at the counter. Two invitations are what one slot cannot serve.
* `Message`: three arguments place an array between two others and order two
  handles; one of the arrays is empty. Two processes forward once; a third would
  forward again what `Inchworm` has already moved on. A message is queued at every
  process on its way, or goes on at once. `Invoked` does not say that every call is
  invoked: one that carries handles, was queued in a process it had come to and moves on
  (`Reforwarded`) may be stopped by `node.cc:502`, and no other is
  (`StopsOnlyReforwarded`).

Deadlock is not checked: an application that has used its bounds stops, and so
does a process that has aborted. `Delivery`, `Delivered`, `CallsReturn` and
`Invoked` would fail if a thread stopped in the middle of a call.

**Fairness.**

* `Endpoint`, `Node`: a thread inside a library call goes on (weak fairness of the
  steps between `Lock()` and `Unlock()`, of `Flush`): nothing in the code waits
  except for locks, and those are held for finitely many steps. Task loops run
  what they were given (`RunTask`) and the IO loop reads a socket that has
  something to read (`IOThread`): that is what `//base`'s loops are for. There is
  no fairness for what an application chooses to do, nor for acquiring an
  endpoint's lock to start something new.
* `Channel`: a write that can go on does, the IO loop reads what is readable; and an
  IO thread that waits for a lock which is free again and again gets it (strong
  fairness, the one a mutex gives). Nothing for the application, nor for death.
* `Core`: a thread in a call takes its next step unless a lock is held, and no lock
  is held for longer than one or two steps; the IO thread reads what has arrived.
* `Message`: the one thread of the call goes on.

Every property of every passing run has a mutant of the code (an unlock moved,
a drain that stops early, a rename forgotten, a lock not taken, a pointer with
the wrong base) that violates it.

## 4. The proofs

`EndpointProofs` proves, for any set of senders, any set of plans and any number
of messages:

| theorem | statement |
|---|---|
| `TypeCorrect` | `Spec => []TypeOK` |
| `AlwaysGuarded` | `Spec => []Guarded` |
| `ChecksNeverFail` | `Spec => []ChecksHold` |
| `NothingStranded` | `Spec => []NoneStranded` |
| `IntroductionIsFirst` | `Spec => []IntroducedFirst` |
| `StatesAreFinal` | `Spec => StateIsFinal` |
| `NothingOvertakes` | `Spec => []InOrder` |
| `NothingLost` | `Spec => []NoLossNoDup` |
| `EndpointImplementsPipe` | `Spec => ImplementsPipe` |

Assumptions: the owner, the senders and the value for "no thread" are distinct
(`ThreadsAssumption`), plans are the three of the code (`PlansAssumption`), and
the bound is a natural number (`BoundAssumption`).

**The argument.** `ChecksHold` and `NoneStranded` are not inductive: whether the
owner may assign the delegate depends on who holds the lock, and that on where
every thread is. The inductive invariant `Control` says so: a sender is between
`Lock` and `Unlock` exactly while it holds the lock, and acts on the state it saw
(`SendersLock`); for each plan, where the owner is determines whether it holds
the lock, what the state is, and what is empty (`BindPath`, `SendPath`,
`InvitePath`). Each action preserves each part; the other properties of control
follow. `InOrder`, that what was released followed by what is under way *is* what
was accepted, is then inductive relative to `Control`: every action either moves
a message across the boundary of two neighbouring places (`tasks`, `taken`,
`queue`, a sender's hand) or appends it at both ends. The facts about
concatenation are lemmas of their own. The refinement follows: a step that
releases a message releases the first of those that are pending.

An endpoint that is moved inside a message keeps no order, so `InOrder` cannot carry
`NoLossNoDup` there. What does (`Keeps`) is that every accepted message is in one of
the places and that the lengths of the places add up to the number of accepted
messages: a line as long as the set of what it holds repeats nothing. Each action
moves one message from a place to another, or adds it to both sides.

`CoreProofs` proves of `Core`, for any set of application threads, either role and
any number of calls, invitations and messages:

| theorem | statement |
|---|---|
| `Invariance` | `Spec => []IInv`, the inductive invariant |
| `CoreTypes` | `Spec => []TypeOK` |
| `LookupsSucceed` | `Spec => []ChecksHold`: the lookups of `Finds`, on the paths of the module |
| `HandlesStayUnique` | `Spec => []HandlesUnique` |
| `GuardsSuffice` | `Spec => []TablesGuarded` |

Assumptions: the IO thread, the application's threads and the value for "no thread"
are distinct (`ThreadsAssumption`), a process is an inviter or an invitee
(`RolesAssumption`), and the bounds are natural numbers (`BoundsAssumption`).

**The argument.** None of the four is inductive: that a handle is fresh when it is stored
depends on what every other thread holds in its hands. `IInv` therefore says of
each thread, by its job and its place on the path, how many handles it has made
(`Created`), stored (`Stored`) and entered with their endpoints (`Entered`), and of
each of them whether it is in the tables (`Kept`); nobody's are anybody else's
(`Distinct`), and all are below the counter (`Fresh`). A new handle is fresh because
a thread between its read of the counter and its write holds the counter's lock
(`Counter`). `Invited` says how far each invitation is (channel, then pending, then
written, then accepted), `Joins` the same of being invited. `Targets` says what each call is about: the handle it
was begun with, the endpoint it carries, the one in the message it handles, the channel it
has found are in the tables by the step that looks for them (`Aimed`), as are the endpoints
that are queued, announced or peers of handles the application has. Tables only grow, but
for the channels under temporary names (`Stays`), so what a call was given stays
where it is. There is one lemma per
part of `IInv` and per access that disturbs it; all others are covered by the lemma
of a frame (`CounterFrame`, `RegistrationFrame`, `InvitedFrame`, `JoinsFrame`).
`ChecksHold` then follows from the place of the call and `Targets`, and `TablesGuarded` from
which steps take a lock and, for the two tables the invitee writes without one,
from `Joins`: its application's call is past them when the IO thread begins.

`ChannelProofs` proves of `Channel`, for any application threads on either side, any
sizes of messages, chunks and sockets, all setups, any number of messages and
whoever may be killed:

| theorem | statement |
|---|---|
| `InductiveInvariant` | `Spec => []IndInv`, the inductive invariant |
| `TypeCorrect` | `Spec => []TypeOK` |
| `StreamIsAlwaysWhole` | `Spec => []StreamIsWhole` |
| `AbortsOnlyForCause` | `Spec => []AbortsForCause` |
| `ChannelImplementsPipes` | `Spec => ImplementsPipes` |

Assumptions: every message is larger than its header, the control messages are
written at once and sockets and bounds are positive (`SizesAssumption`); the two
processes are distinct, no thread is the value for "no thread", and each process may
write at least its control message (`ProcessesAssumption`); setups are those the
code can be used with (`SetupsAssumption`).

**The argument.** `StreamIsWhole` says what is in the stream but not who may add to it.
`IndInv` has, for each direction: what is carried (read, in the buffer, in the
socket), followed by the rest of the message of the one thread that is not done, is
the stream of all messages begun (`StreamKept`); that thread writes the newest
message, alone, and has the lock unless the message is its process's first
(`WritersApart`); what was handed on is the messages 1, 2, ... in order, and a header
in the buffer is the next one's (`ReadInOrder`). The exception for the first message
is the point where the code takes no lock: `SendInvitation`, and the acceptance,
written from the IO thread. `Handshake` is why it does no harm: nobody else may send
before the first message has been read or written in full. A chunk then moves the cut
between what is carried and what is left, a read moves the cut before it, and a
message is begun only when nothing is left. `AbortsForCause` follows because a reader
that finds less than it asks for finds a part of a message, and only a message larger
than a chunk is ever in a socket in part (`HeldWhole`).

The stream is made with `FlattenSeq`, a recursive function. `FlattenLemmas` shows that
the function exists and that appending to the argument appends to the result, by
induction over the natural numbers in the form of a set (`NatSetInduction`, from the
well-foundedness of `<`), which needs no operator parameter.

`MessageProofs` proves of `Message`, for any payloads and handles, any number of
arguments, lengths of arrays and processes on the way:

| theorem | statement |
|---|---|
| `InductiveInvariant` | `Spec => []IndInv`, the inductive invariant |
| `TypeCorrect` | `Spec => []TypeOK` |
| `ArgumentsAlwaysArrive` | `Spec => []ArgumentsArrive` |
| `StopsOnlyReforwarded` | `Spec => [](place = "aborted" => Reforwarded)` |
| `PointersAlwaysSound` | `Spec => []PointersSound` |

Assumption: the bounds are natural numbers (`BoundsAssumption`).

**The argument.** `ArgumentsArrive` speaks of the last state only, and `PointersSound`
of where pointers lead, not of what is there. `IndInv` is the layout of the buffer
against the arguments of the call, from the first step on: each value is in its
parameter; each array is where its parameter points, with its elements, after the
arrays of the arguments before it (`ArraysIn`, `ArraysInLine`); the descriptors are
those of the handles among the arguments, in their order (`HandlesListed`, which
counts the handles before an argument: `Rank`), and stand last (`DescriptorsIn`), all
as many names further as processes were left behind (`Level`). What is queued on a
message where it arrived is a handle for each descriptor that the stub has not yet
come to (`Queued`), and what the stub has read is the first arguments (`ReadBack`).
A step changes one region of the buffer and `LayoutKept` says that what stands in the
others stays; that pointers are relative to their cells and only grow the buffer is
what makes its premises true. `StopsOnlyReforwarded` follows from `Level`: at home the
endpoints that descriptors name are the caller's, and a message that is forwarded at once
crawls on to the names of the process it is in. The layout is a set of operators on a buffer and the
arguments, so that what is said of the new buffer is the same formula.

`NodeProofs` proves of `Node`, for any nodes, threads and invitations, and any number
of pipes, messages, handles and moves, in both regimes:

| theorem | statement |
|---|---|
| `InductiveInvariant` | `Spec => []IndInv`, the inductive invariant |
| `TypeCorrect` | `Spec => []TypeOK` |
| `RightReceiverAlways` | `Spec => []RightReceiver` |
| `NoOrphansEver` | `Spec => []NoOrphans` |
| `ProxiesAlwaysLeadOn` | `Spec => []ProxiesLeadOn` |
| `RoutesNeverChange` | `Spec => RoutesAreFinal` |

and `NodePlaceProofs`, with the lemmas of `NodePlaces`:

| theorem | statement |
|---|---|
| `AlwaysInPlace` | `Spec => [](IndInv /\ PlaceInv)`, the inductive invariant |
| `NothingLostNorDuplicated` | `Spec => []NoLossNoDup` |
| `OneHomeAlways` | `Spec => []OneHome` |
| `HandlesStayDirect` | `Spec => []HandlesAreDirect` |
| `ReceptionAlwaysReady` | `Spec => []ReceptionReady` |
| `OnlyReceivedFail` | `Spec => []ReadyOrElsewhere` |
| `PeerReachedOneWay` | `AtMostTwoNodes => (Spec => []PeerIsLocalOrRemote)` |
| `DependentsAlwaysReady` | `AtMostTwoNodes /\ ~Reforward => (Spec => []DependentsReady)` |

Assumptions: names of nodes, temporary names, the initial channel's name and the
value for "none" are distinct, an invitee accepts once and no node both invites and
accepts (`NodesAssumption`); the thread that called `Init` is one of the application's
and the IO thread is not (`ThreadsAssumption`); the bounds are natural numbers
(`BoundsAssumption`).

**The argument.** A message goes to whoever the name in it stands for, so
`RightReceiver` depends on what all names lead to: those in endpoints (`peer`,
`target`), in descriptors, in messages wherever they wait, in calls, tasks and
pending invitations. `IndInv` says of each of these places what may be in it
(`SoundEndpoints`, `Carried`, `RoutedMail`, `QueuedMail`, `Outgoing`, `Tasks`,
`Invites`, `Accepts`): a peer is an endpoint of the other end that exists somewhere; a
descriptor goes from a stage of an end to a later stage of the same; what waits for an
end was sent on the other. `NoOrphans` and `ProxiesLeadOn` need each other, and the
calls: a proxy, or a thread in the flush loop, writes to its target's node, and the
target is there or introduced on that same wire before (`Reaches`, `WiresOrdered`). That
is what the flush in turns has to get right: what was queued on a dependent may be
written only after the message that introduces it. An acceptance renames a channel and
retargets what was queued for the invitee; that it retargets to the right end is
`PendingFor`, and that the temporary name is not given away meanwhile is `Engaged`.

Tables and wires only grow in ways that keep all of this (`Grows`, `WireSteps`,
`Steady`): the lemmas of the first sections say so once, for states given as values,
without any action. Each action then has one lemma, that what it writes is sound
(`StepsSoundly`), and nothing is said of what it leaves alone.

**The argument of `NodePlaceProofs`.** That a message is not lost or handed on twice,
that an end has one home, that a lookup finds what it looks for: each depends on
something being in one place only. `IndInv` says what a place may hold, not that no
other holds it too. So everything that can be held once is a *mark*: a message by its
number, an end that is handed over (by a descriptor, an invitation or the task that
gives an invitee its pipe), an invitation by the name it will end. The places (wires,
queues, calls, tasks, what receivers got) are *boxes* that hold sequences of sets of
marks (`Stored`). No mark is in two of them (`Once`). Every step is a combination of
three: put something new at the end of a box, drop the first thing of one, pour boxes
into another; `PostOnce`, `DropOnce` and `PouredOnce` say that a mark that was in one
place is in one place still and none is lost. The last is the flush, which takes what
was queued on all dependents of a message and puts it, joined by `FlattenSeq`, before
what the call has left.

`PlaceInv` relates the boxes to the rest of the state. The messages sent are those that
are somewhere (`Accounted`). An end that a handle in use stands for is in no box, and has
no second handle (`HeldOnce`). An end that is in no message has one endpoint that is
not a proxy, one that is has none, and a reserved one is neither (`AllAtHome`). And each
thing that waits is ready for what will be done with it: descriptors in a call or queue
are of endpoints that still queue, here, unless the message came from another node and
they are of endpoints there (`Fresh`, `Stale`); the pipes recovered with a message are
endpoints of this node nobody else uses (`PipesReady`); a task has its receiver;
an acceptance on a wire has its pending invitation, with its endpoint and temporary
channel (`InvitesPending`, `PendingReady`, `Introductions`); a proxy has a channel to its
target (`ProxiesReady`). A step moves ends in a set `S` only, and whatever waits and names
none of them stays ready (`AllStayReady`): that nothing else names them is `Once`.
There is again one lemma per action. `NoLossNoDup` and `OneHome` then count: a
message's place is the one box its mark is in.

`PeerReachedOneWay` is about two nodes, as its hypothesis says. There, whoever is
not here is known: nodes meet by an invitation and its answer, before anything else is
on the wire between them (`Meetings`), and keep knowing each other (`PeersKnown`). With
three nodes a pipe can reach a node whose peer it has never met: that is the limitation
documented in `docs/design_limitations.md:102-108`.

`DependentsAlwaysReady` is about two nodes that keep the rule of `Reforward = FALSE`
(section 2). That the handles of a message about to be written are here says nothing
of what is queued on *their* endpoints, which is written next and may have been queued
with handles of another node. So `Tame` says where messages with handles may wait
(`AllTame`): in a call, only with handles of its own node; on an endpoint, with others
only if the endpoint's end is *guarded* (`Guarded`). An end is guarded once handles
travel to it, its pipe has moved and none of its endpoints is *pinned*, that is, named
by a message that waits at its node. What is guarded stays guarded (`GuardsStay`),
because a send pins only ends whose pipe has carried no handles or not moved
(`MayPin`): that is what the rule is for. So no endpoint is moved with foreign handles
queued on it, and what is poured from one that is moved is its node's own
(`FlushedGuards`). When a sender's peer is
not available to it, the pipe has moved, and the peer's end is not pinned
(`CarryGuards`); that this can be read off the number of moves is `Naming`: an end of a
pipe that has never moved has no second name, and one move names one end. Two nodes
are needed where a user message arrives: its sender's acceptance came first, so nothing
is reserved for an invitee any more (`ReservedNotReached`).

**Model-checked only.** Liveness: the prover has no support for fairness. Of `Node`:
`InOrder`, which is true only where nothing moves while it is flushed (`NodeFifo`;
`NodeOvertaken` refutes it elsewhere). `DependentsReady` is proved for two nodes and
`Reforward = FALSE`; `NodeReforward` refutes it when messages with handles are moved on,
and `OnlyReceivedFail` proves, for any network, that those are the only messages it
fails for.

## 5. Where the code and its documentation disagree

1. **A moved endpoint lets messages overtake** (`NodeOvertaken`).
   `node.cc:546-547` unlocks a dependent, now proxying, before the messages taken
   from its queue (`node.cc:524`) are written. `endpoint.h:129-130`, of an
   endpoint that is bound later: "these messages will be forwarded, in order".
   `mage_test.cc:1370-1372` gives up the order "between distinct message pipes" only.
2. **A handle-bearing message cannot be moved on** (`NodeReforward`).
   A message received from another node and queued keeps its descriptors as they
   were written there. When its endpoint is moved, the lookup at
   `node.cc:501-502` is for a name this node never had, and the CHECK aborts.
   `endpoint.h:46-48`: "if this endpoint is sent to a remote node, then `Node`
   will take all of our messages and send them to the new destination."
3. **One callback for all invitations** (`InvitationCallback`). `core.cc:54`
   overwrites the callback of a pending invitation, before its own is sent: an
   earlier invitation's acceptance posts the later one's callback, and its own is
   lost. `core.h:105-106`: "It reports back when the remote process has accepted
   the invitation." `AcceptanceReported` of the run `Core` shows that acceptances
   are reported when invitations do not overlap.
4. **`local_endpoints_` is used without its lock** (`EndpointsTable`). It is
   searched without it at `node.cc:195, 211, 387, 501, 563, 641` and written
   without it at `node.cc:339`, while other threads insert (`node.cc:41`).
   `node.h:85-86`: "This is used to synchronized access to `local_endpoints_`
   above, since it can be accessed from multiple threads."

One more needs no model: `README.md:438-441` of the repository says that the
callback of `AcceptInvitation()` runs on the thread that called it; the code
posts it to the thread that created the `Core` (`core.cc:15-17, 231`).

Not a disagreement, for nothing says otherwise, but what the models show of the
design:

* Two processes whose IO threads write to each other over full blocking sockets wait
  for each other forever: the IO thread writes with the map's lock held, when it relays
  (`node.cc:609`) and when it flushes what waited for an acceptance (`node.cc:541`), and
  does not read meanwhile. So it does not take two relays: an inviter that flushes and an
  invitee that relays are enough. `Delivered` excludes the setups in which both write
  (`Writes`); where one IO thread writes the acceptance and nothing else, or the inviter's
  nothing at all, the other's is always drained.
* The end of one process ends the other (`DeathSpreads`); where the embedder leaves
  copies of sockets open, as the demo does, nobody notices instead.

## 6. What is not modelled

* `bound_` of `Remote` and `Receiver`, which guard against misuse by one caller; a
  message for another interface than the receiver's (`NOTREACHED`).
* `Core::Init`, `ShutdownCleanly`, `~Channel`: before and after everything else.
  `UnregisterDelegate`, which is not implemented.
* The fields of the two control messages, beyond what `Node` says of them: they
  have a fixed layout and no pointers.
* The generator, logging, the demo, the tests; `api.cc`, which passes calls on.
  Collisions of random names.
* Receivers that die, in `Node` (they do in `Endpoint`).
* Sends to a node without a channel to it: the documented limitation.
* What a data race does beyond an old or a new value.

## 7. Plan

The order: first what every message passes through, then what carries it, then
what is at its two ends.

1. `Pipe`, `Endpoint`, `EndpointProofs`: done.
2. `Node`, `NodeProperties`, `MCNode`: done.
3. `Channel`: done. The conditions under which the wire of `Node` is justified are
   those of `AbortsForCause` and `Delivered`.
4. `Core`: invitations access by access, the handle table, the maps and their
   locks: done.
5. `Message`: buffers, pointers and handles of a call: done.
6. `CoreProofs`: done.
7. `ChannelProofs`, `MessageProofs`, `NoLossNoDup` of `Endpoint` for every plan: done.
8. `NodeProofs`: types, the right receiver, no orphans, proxies that lead on and final
   routes: done.
9. `NodePlaces`, `NodePlaceProofs`: nothing lost, one home, what handlers find: done.
10. What two nodes may move (`DependentsAlwaysReady`): done.
11. Left, of `Node`: `InOrder` under the conditions of `NodeFifo`, as a theorem.
