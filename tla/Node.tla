-------------------------------- MODULE Node --------------------------------
(***************************************************************************)
(* The network of mage processes: one `Node` (and its `Core`) per process,  *)
(* the `Endpoint`s it owns, the sockets between nodes, the IO thread of     *)
(* each process and its application threads.                                *)
(*                                                                          *)
(* A handler that runs under one endpoint's lock from its first look at the *)
(* state to its last write is one action.  `SendMessagesAndRecursive-       *)
(* Dependents` takes and frees locks as it goes, so a thread inside it is a *)
(* `call`: each turn of its loop is an action, and every other thread may   *)
(* run between two turns.  `Endpoint` models one endpoint lock step by step.*)
(*                                                                          *)
(* A random identifier is modelled by what it is used for, a name no other  *)
(* endpoint has.  It also records what it names: <<p, s, h>> is the h-th    *)
(* name given to side s of pipe p, so that following an end of a pipe from  *)
(* node to node needs no extra state.  A `MessagePipe` handle is written as *)
(* the name of its endpoint: the handle table is one-to-one.                *)
(***************************************************************************)
EXTENDS Naturals, Sequences, FiniteSets, SequencesExt

CONSTANTS
    Nodes,          \* the processes
    Threads,        \* the application threads of each process
    Origin,         \* the thread that called Core::Init
    IO,             \* the IO thread of each process
    InitialChannel, \* kInitialChannelName
    NoOne,          \* no thread, no node, no endpoint
    Invitations,    \* <<inviter, invitee>>: the sockets the application makes
    MaxPipes,       \* bound: pipes ever created, invitations included
    MaxSends,       \* bound: user messages ever sent
    MaxHandles,     \* bound: handles in one message
    MovesPerPipe,   \* bound: times an end of one pipe is sent as a handle
    Creators,       \* bound: the nodes that create pipes of their own
    Remotes,        \* bound: the ends of pipes that are sent on,
    Receivers,      \*   that are bound to a receiver,
    Movables,       \*   and that are sent as handles
    EarlyHandles,   \* may handles be sent to a node that has not yet accepted?
    Reforward       \* may an endpoint be moved on with handles queued on it?

\* The name of the channel to a node that has yet to accept.
Temporary(n) == <<"temporary", n>>

ASSUME NodesAssumption ==
    /\ NoOne \notin Nodes /\ InitialChannel \notin Nodes
    /\ \A n \in Nodes : Temporary(n) \notin Nodes \cup {InitialChannel}
    /\ Invitations \subseteq Nodes \X Nodes
    /\ \A i, j \in Invitations : i[2] = j[2] => i = j       \* accepted once
    /\ \A i, j \in Invitations : i[1] # j[2]                \* "unsupported"
ASSUME ThreadsAssumption == Origin \in Threads /\ IO \notin Threads
ASSUME BoundsAssumption ==
    /\ {MaxPipes, MaxSends, MaxHandles, MovesPerPipe} \subseteq Nat
    /\ {EarlyHandles, Reforward} \subseteq BOOLEAN
    /\ Creators \subseteq Nodes
    /\ Remotes \cup Receivers \cup Movables \subseteq (1..MaxPipes) \X {1, 2}

VARIABLES
    endpoints,      \* Node::local_endpoints_ of each node, by name
    channels,       \* Node::node_channel_map_: key -> the node at the other end
    pending,        \* Node::pending_invitations_: temporary name -> endpoint
    joined,         \* the nodes with has_accepted_invitation_
    wire,           \* wire[m][n]: what m has written to its socket to n
    call,           \* call[n][t]: where thread t is in the flushing loop
    tasks,          \* tasks[n][t]: what thread t's task runner has yet to run
    acceptCallback, \* remote_has_accepted_invitation_callback_: for which node
    held,           \* the handles the application of each node may use
    names,          \* names given so far to each end
    pipes,          \* pipes created so far
    moves,          \* times an end of each pipe was sent as a handle
    carriers,       \* pipes that have carried handles
    told,           \* history: invitees whose acceptance n's application heard of
    sent,           \* history: messages sent by each end
    got             \* history: messages dispatched to the receiver of each end

netVars == <<endpoints, channels, pending, joined, wire, call, tasks, acceptCallback>>
appVars == <<held, moves, carriers, told, sent, got>>
vars == <<netVars, appVars, names, pipes>>

Ends == (1..MaxPipes) \X {1, 2}
EndOf(x) == <<x[1], x[2]>>
Partner(e) == <<e[1], 3 - e[2]>>
FreshName(e) == <<e[1], e[2], names[e]>>

AllThreads == Threads \cup {IO}
Address(n, x) == [node |-> n, ep |-> x]
NoAddress == Address(NoOne, NoOne)

NewEndpoint(peer) ==
    [state |-> "queueing", peer |-> peer, target |-> NoAddress,
     runner |-> NoOne, queue |-> << >>]

Idle == [op |-> "idle", via |-> NoOne, lock |-> NoOne, dest |-> NoOne, msgs |-> << >>]

Init ==
    /\ endpoints = [n \in Nodes |-> << >>]
    /\ channels = [n \in Nodes |-> << >>]
    /\ pending = [n \in Nodes |-> << >>]
    /\ joined = {}
    /\ wire = [m \in Nodes |-> [n \in Nodes |-> << >>]]
    /\ call = [n \in Nodes |-> [t \in AllThreads |-> Idle]]
    /\ tasks = [n \in Nodes |-> [t \in Threads |-> << >>]]
    /\ acceptCallback = [n \in Nodes |-> NoOne]
    /\ held = [n \in Nodes |-> {}]
    /\ names = [e \in Ends |-> 0]
    /\ pipes = 0
    /\ moves = [p \in 1..MaxPipes |-> 0]
    /\ carriers = {}
    /\ told = [n \in Nodes |-> {}]
    /\ sent = [e \in Ends |-> 0]
    /\ got = [e \in Ends |-> << >>]
-----------------------------------------------------------------------------
Local(n) == DOMAIN endpoints[n]
Ready(n, t) == call[n][t].op = "idle"

\* No other thread of n holds the lock of endpoint x between two actions.
Unlocked(n, t, x) == \A u \in AllThreads \ {t} : call[n][u].lock # x

Rename(map, from, to) ==
    [k \in (DOMAIN map \ {from}) \cup {to} |-> IF k = to THEN map[from] ELSE map[k]]

\* Mutant: queued messages keep the name they were first sent to.
Retarget_Not(msgs, x) == msgs

Retarget(msgs, x) == [i \in DOMAIN msgs |-> [msgs[i] EXCEPT !.target = x]]

\* Endpoint::SetProxying; whoever calls it has emptied the queue.
Proxying(ep, target) ==
    [ep EXCEPT !.state = "proxying", !.target = target, !.queue = << >>]

\* std::map::insert: what is in the map stays.
InsertAll(map, more) ==
    [k \in DOMAIN map \cup DOMAIN more |-> IF k \in DOMAIN map THEN map[k] ELSE more[k]]
Insert(map, key, value) == InsertAll(map, [k \in {key} |-> value])

\* Mutant: each endpoint of the pair is entangled with itself.
Entangled_Self(n, p) ==
    [x \in {<<p, 1, 0>>, <<p, 2, 0>>} |-> NewEndpoint(Address(n, x))]

\* Node::InitializeAndEntangleEndpoints: two entangled endpoints of n.
Entangled(n, p) ==
    [x \in {<<p, 1, 0>>, <<p, 2, 0>>} |-> NewEndpoint(Address(n, <<p, 3 - x[2], 0>>))]

CreatePipe(n) ==
    /\ pipes < MaxPipes
    /\ pipes' = pipes + 1
    /\ endpoints' = [endpoints EXCEPT ![n] = InsertAll(@, Entangled(n, pipes + 1))]
    /\ names' = [names EXCEPT ![<<pipes + 1, 1>>] = 1, ![<<pipes + 1, 2>>] = 1]

CreateMessagePipes(n, t) ==
    /\ Ready(n, t)
    /\ n \in Creators
    /\ CreatePipe(n)
    /\ held' = [held EXCEPT ![n] = @ \cup {<<pipes', 1, 0>>, <<pipes', 2, 0>>}]
    /\ UNCHANGED <<channels, pending, joined, wire, call, tasks, acceptCallback,
                   moves, carriers, told, sent, got>>
-----------------------------------------------------------------------------
(* Invitations.                                                             *)

\* The second endpoint of the new pipe is reserved for the invitee, so it
\* counts as moved; the application gets the handle of the first.
SendInvitation(n, t, m) ==
    /\ Ready(n, t)
    /\ <<n, m>> \in Invitations
    /\ {m, Temporary(m)} \cap DOMAIN channels[n] = {}
    /\ CreatePipe(n)
    /\ acceptCallback' = [acceptCallback EXCEPT ![n] = m]
    /\ channels' = [channels EXCEPT ![n] = Insert(@, Temporary(m), m)]
    /\ pending' = [pending EXCEPT ![n] = Insert(@, Temporary(m), <<pipes', 2, 0>>)]
    /\ wire' = [wire EXCEPT ![n][m] = Append(@,
                    [type |-> "INVITE", inviter |-> n, temporary |-> Temporary(m),
                     peer |-> <<pipes', 1, 0>>])]
    /\ held' = [held EXCEPT ![n] = @ \cup {<<pipes', 1, 0>>}]
    /\ moves' = [moves EXCEPT ![pipes'] = 1]
    /\ UNCHANGED <<joined, call, tasks, carriers, told, sent, got>>

AcceptInvitation(n, t) ==
    /\ Ready(n, t)
    /\ n \notin joined
    /\ \E i \in Invitations :
          i[2] = n /\ channels' = [channels EXCEPT ![n] = Insert(@, InitialChannel, i[1])]
    /\ joined' = joined \cup {n}
    /\ UNCHANGED <<endpoints, pending, wire, call, tasks, acceptCallback,
                   appVars, names, pipes>>

\* Channel::OnCanReadFromSocket hands the IO thread of n the next message of
\* m, once the channel is started.
Receives(n, m, type) ==
    /\ Ready(n, IO)
    /\ \E k \in DOMAIN channels[n] : channels[n][k] = m
    /\ wire[m][n] # << >>
    /\ Head(wire[m][n]).type = type

\* Mutant: the initial channel is not renamed.
NameInviter_Not(map, inviter) == map

\* The initial channel gets its inviter's name.
NameInviter(map, inviter) == Rename(map, InitialChannel, inviter)

OnReceivedInvitation(n, m) ==
    /\ Receives(n, m, "INVITE")
    /\ InitialChannel \in DOMAIN channels[n]
    /\ LET params == Head(wire[m][n])
           end    == Partner(EndOf(params.peer))
           x      == FreshName(end)
       IN /\ channels' = [channels EXCEPT ![n] = NameInviter(@, params.inviter)]
          /\ endpoints' = [endpoints EXCEPT ![n] =
                              Insert(@, x, NewEndpoint(Address(params.inviter, params.peer)))]
          /\ names' = [names EXCEPT ![end] = @ + 1]
          /\ wire' = [wire EXCEPT ![m][n] = Tail(@),
                                  ![n][m] = Append(@, [type |-> "ACCEPT",
                                      temporary |-> params.temporary,
                                      node |-> n, ep |-> x])]
          /\ tasks' = [tasks EXCEPT ![n][Origin] = Append(@, [op |-> "joined", ep |-> x])]
    /\ UNCHANGED <<pending, joined, call, acceptCallback, appVars, pipes>>

\* Mutant: the reserved endpoint is unlocked before it is flushed.
FlushReserved_Unlocked(n, x, node, ep) ==
    [op |-> "accept", via |-> NoOne, lock |-> NoOne, dest |-> node,
     msgs |-> Retarget(endpoints[n][x].queue, ep)]

\* Mutant: the flush is bound for the invitee's temporary name.
FlushReserved_Temporary(n, x, node, ep) ==
    [op |-> "accept", via |-> NoOne, lock |-> x, dest |-> Temporary(node),
     msgs |-> Retarget(endpoints[n][x].queue, ep)]

\* The call that sends what was queued on the reserved endpoint x to its
\* new self, endpoint ep of the invitee.
FlushReserved(n, x, node, ep) ==
    [op |-> "accept", via |-> NoOne, lock |-> x, dest |-> node,
     msgs |-> Retarget(endpoints[n][x].queue, ep)]

\* Up to the call of SendMessagesAndRecursiveDependents, which the IO thread
\* makes with the reserved endpoint's lock held.
OnReceivedAcceptInvitation(n, m) ==
    /\ Receives(n, m, "ACCEPT")
    /\ LET params == Head(wire[m][n])
           x      == pending[n][params.temporary]
       IN /\ params.temporary \in DOMAIN pending[n]
          /\ x \in Local(n)
          /\ Unlocked(n, IO, x)
          /\ endpoints[n][x].state = "queueing"
          /\ params.temporary \in DOMAIN channels[n]
          /\ pending' = [pending EXCEPT
                            ![n] = Restrict(@, DOMAIN @ \ {params.temporary})]
          /\ endpoints' = [endpoints EXCEPT
                            ![n][x] = Proxying(@, Address(params.node, params.ep))]
          /\ channels' = [channels EXCEPT ![n] = Rename(@, params.temporary, params.node)]
          /\ call' = [call EXCEPT ![n][IO] = FlushReserved(n, x, params.node, params.ep)]
    /\ wire' = [wire EXCEPT ![m][n] = Tail(@)]
    /\ UNCHANGED <<joined, tasks, acceptCallback, appVars, names, pipes>>
-----------------------------------------------------------------------------
(* SendMessagesAndRecursiveDependents.                                      *)

DescriptorNames(descs) == {d.name : d \in ToSet(descs)}
DescriptorOf(x, descs) == CHOOSE d \in ToSet(descs) : d.name = x

\* Mutant: what was queued on the dependents is dropped.
QueuedOn_Dropped(n, descs) == << >>

\* Everything queued on the endpoints of a message, for their new selves.
QueuedOn(n, descs) ==
    FlattenSeq([i \in DOMAIN descs |->
        Retarget(endpoints[n][descs[i].name].queue, descs[i].cross)])

\* Mutant: the dependents are emptied, but not set to proxying.
Moved_StillQueueing(table, descs, dest) ==
    [x \in DOMAIN table |->
        IF x \in DescriptorNames(descs) THEN [table[x] EXCEPT !.queue = << >>] ELSE table[x]]

\* Mutant: the dependents are deleted once they are sent.
Moved_Deleted(table, descs, dest) ==
    Restrict(table, DOMAIN table \ DescriptorNames(descs))

\* The endpoints of a message become proxies for their new selves at dest.
Moved(table, descs, dest) ==
    [x \in DOMAIN table |->
        IF x \in DescriptorNames(descs)
        THEN Proxying(table[x], Address(dest, DescriptorOf(x, descs).cross))
        ELSE table[x]]

\* One turn: the dependents of the front message are emptied, set to proxying
\* and unlocked once the message is written; what was queued on them joins the
\* messages still to be written.
FlushOne(n, t) ==
    /\ call[n][t].msgs # << >>
    /\ LET dest == call[n][t].dest
           msg  == Head(call[n][t].msgs)
       IN /\ \A x \in DescriptorNames(msg.descs) :
                /\ x \in Local(n)
                /\ Unlocked(n, t, x)
                /\ endpoints[n][x].state = "queueing"
          /\ dest \in DOMAIN channels[n]
          /\ endpoints' = [endpoints EXCEPT ![n] = Moved(@, msg.descs, dest)]
          /\ wire' = [wire EXCEPT
                ![n][channels[n][dest]] = Append(@, [msg EXCEPT !.pipes = << >>])]
          /\ call' = [call EXCEPT ![n][t].msgs = Tail(@) \o QueuedOn(n, msg.descs)]
    /\ UNCHANGED <<channels, pending, joined, tasks, acceptCallback, appVars,
                   names, pipes>>

\* Mutant: nobody reports the accepted invitation.
Report_Not(n) == UNCHANGED <<tasks, acceptCallback>>

\* Core::OnReceivedAcceptInvitation: whoever left a callback is told, on the
\* origin thread.
Report(n) ==
    IF acceptCallback[n] = NoOne
    THEN UNCHANGED <<tasks, acceptCallback>>
    ELSE /\ tasks' = [tasks EXCEPT ![n][Origin] =
                          Append(@, [op |-> "accepted", node |-> acceptCallback[n]])]
         /\ acceptCallback' = [acceptCallback EXCEPT ![n] = NoOne]

\* The caller unlocks what it held, and goes on.
FlushDone(n, t) ==
    /\ ~Ready(n, t)
    /\ call[n][t].msgs = << >>
    /\ call' = [call EXCEPT ![n][t] = Idle]
    /\ IF call[n][t].op = "accept" THEN Report(n) ELSE UNCHANGED <<tasks, acceptCallback>>
    /\ UNCHANGED <<endpoints, channels, pending, joined, wire, appVars, names, pipes>>
-----------------------------------------------------------------------------
\* Mutant: nothing is posted of what is queued.
TasksFor_None(x, queue) == << >>

\* The tasks that dispatch a queue of messages to the receiver of x.
TasksFor(x, queue) ==
    [i \in DOMAIN queue |-> [op |-> "message", ep |-> x, msg |-> queue[i]]]

(* Endpoint::AcceptMessage, for an endpoint x of n that is not proxying,    *)
(* once `table` is n's table of endpoints.                                  *)

AcceptMessage(n, table, x, msg) ==
    \/ /\ table[x].state = "queueing"
       /\ endpoints' = [endpoints EXCEPT ![n] =
                            [table EXCEPT ![x].queue = Append(@, msg)]]
       /\ UNCHANGED tasks
    \/ /\ table[x].state = "bound"
       /\ endpoints' = [endpoints EXCEPT ![n] = table]
       /\ tasks' = [tasks EXCEPT ![n][table[x].runner] =
                        @ \o TasksFor(x, <<msg>>)]

(* Core::SendMessage and the proxy object that calls it: thread t of n      *)
(* sends a message over the handle c, with the handles hs in it.            *)

\* No other thread is in the middle of a call with this handle: a handle (or
\* the Remote that owns it) belongs to one thread at a time.
Usable(n, x) == x \in held[n] /\ \A t \in Threads : call[n][t].via # x

\* The application may send handle x over c: not bound, not an end of the
\* pipe it would travel on, and within the bounds of this model.
MaySend(n, x, c) ==
    /\ EndOf(x) \in Movables
    /\ Usable(n, x)
    /\ x[1] # c[1]
    /\ endpoints[n][x].state # "bound"
    /\ moves[x[1]] < IF Reforward \/ x[1] \notin carriers THEN MovesPerPipe ELSE 1

\* No message with an end of pipe p in it waits on an endpoint or in a call.
Settled(p) ==
    \A n \in Nodes :
        /\ \A x \in Local(n) : \A msg \in ToSet(endpoints[n][x].queue) :
              \A d \in ToSet(msg.descs) : d.name[1] # p
        /\ \A t \in AllThreads : \A msg \in ToSet(call[n][t].msgs) :
              \A d \in ToSet(msg.descs) : d.name[1] # p

MayCarry(n, c) ==
    /\ Reforward \/ moves[c[1]] <= 1 \/ Settled(c[1])
    /\ EarlyHandles \/ \A k \in DOMAIN pending[n] : pending[n][k] # endpoints[n][c].peer.ep

\* Mutant: the peer's address is left out.
Descriptor_NoPeer(n, x) ==
    [name |-> x, cross |-> FreshName(EndOf(x)), peer |-> NoAddress]

\* Core::PopulateEndpointDescriptor.
Descriptor(n, x) ==
    [name |-> x, cross |-> FreshName(EndOf(x)), peer |-> endpoints[n][x].peer]

NewMessage(n, c, hs) ==
    [type |-> "USER", id |-> <<c[1], c[2], sent[EndOf(c)] + 1>>,
     target |-> endpoints[n][c].peer.ep,
     descs |-> [i \in DOMAIN hs |-> Descriptor(n, hs[i])], pipes |-> << >>]

TotalSent == FoldFunction(LAMBDA a, b : a + b, 0, sent)

\* What every send does before it looks at the peer.  A peer that is neither
\* here nor on a node with a channel is a documented limitation: sending to it
\* crashes (design_limitations.md), and the application does not.
Sends(n, t, c, hs) ==
    /\ Usable(n, c)
    /\ \/ endpoints[n][c].peer.ep \in Local(n)
       \/ endpoints[n][c].peer.node \in DOMAIN channels[n]
    /\ hs # << >> => MayCarry(n, c)
    /\ sent' = [sent EXCEPT ![EndOf(c)] = @ + 1]
    /\ names' = [e \in Ends |->
                    IF \E x \in ToSet(hs) : EndOf(x) = e THEN names[e] + 1 ELSE names[e]]
    /\ moves' = [p \in 1..MaxPipes |->
                    moves[p] + Cardinality({x \in ToSet(hs) : x[1] = p})]
    /\ carriers' = carriers \cup (IF hs = << >> THEN {} ELSE {c[1]})
    /\ held' = [held EXCEPT ![n] = @ \ ToSet(hs)]
    /\ UNCHANGED <<channels, pending, joined, wire, acceptCallback, told, got, pipes>>

SendToRemotePeer(n, t, c, hs) ==
    /\ Sends(n, t, c, hs)
    /\ endpoints[n][c].peer.ep \notin Local(n)
    /\ call' = [call EXCEPT ![n][t] =
                  [op |-> "send", via |-> c, lock |-> NoOne,
                   dest |-> endpoints[n][c].peer.node, msgs |-> <<NewMessage(n, c, hs)>>]]
    /\ UNCHANGED <<endpoints, tasks>>

\* The local peer is locked until the whole call returns.
SendThroughProxy(n, t, c, hs) ==
    /\ Sends(n, t, c, hs)
    /\ LET x == endpoints[n][c].peer.ep
       IN /\ x \in Local(n)
          /\ Unlocked(n, t, x)
          /\ endpoints[n][x].state = "proxying"
          /\ call' = [call EXCEPT ![n][t] =
                [op |-> "send", via |-> c, lock |-> x, dest |-> endpoints[n][x].target.node,
                 msgs |-> Retarget(<<NewMessage(n, c, hs)>>, endpoints[n][x].target.ep)]]
    /\ UNCHANGED <<endpoints, tasks>>

\* Mutant: the handles are looked up by their names on the next node.
ExistingPipes_Cross(descs) == [i \in DOMAIN descs |-> descs[i].cross]

\* Core::RecoverExistingMessagePipeFromEndpointDescriptor, for each descriptor.
ExistingPipes(descs) == [i \in DOMAIN descs |-> descs[i].name]

\* Endpoint::AcceptMessageOnDelegateThread: the handles in the message are
\* those the sender had.
SendToLocalPeer(n, t, c, hs) ==
    /\ Sends(n, t, c, hs)
    /\ LET x   == endpoints[n][c].peer.ep
           msg == NewMessage(n, c, hs)
       IN /\ x \in Local(n)
          /\ Unlocked(n, t, x)
          /\ AcceptMessage(n, endpoints[n], x,
                 [msg EXCEPT !.pipes = ExistingPipes(msg.descs)])
    /\ UNCHANGED call

\* Handle lists an application could send over c: distinct, in any order.
HandleLists(n, c) ==
    LET sendable == {x \in held[n] : MaySend(n, x, c)}
    IN {hs \in UNION {[1..k -> sendable] : k \in 0..MaxHandles} : IsInjective(hs)}

SendMessage(n, t) ==
    /\ Ready(n, t)
    /\ TotalSent < MaxSends
    /\ \E c \in {x \in held[n] : EndOf(x) \in Remotes} : \E hs \in HandleLists(n, c) :
        \/ SendToRemotePeer(n, t, c, hs)
        \/ SendThroughProxy(n, t, c, hs)
        \/ SendToLocalPeer(n, t, c, hs)
-----------------------------------------------------------------------------
(* A user message arrives at its target's node.                             *)

\* Mutant: endpoints that arrive in a message are not registered.
Recover_Not(n, descs) == endpoints[n]

\* Core::RecoverNewMessagePipeFromEndpointDescriptor, for each descriptor.
Recover(n, descs) ==
    InsertAll(endpoints[n],
        [x \in {d.cross : d \in ToSet(descs)} |->
            NewEndpoint((CHOOSE d \in ToSet(descs) : d.cross = x).peer)])

ReceivesUserMessage(n, m) ==
    /\ Receives(n, m, "USER")
    /\ LET msg == Head(wire[m][n])
       IN /\ msg.target \in Local(n)
          /\ Unlocked(n, IO, msg.target)
          /\ \A d \in ToSet(msg.descs) : d.cross \notin Local(n)

\* The target is here: the message is queued on it or posted to its receiver.
OnReceivedUserMessage(n, m) ==
    /\ ReceivesUserMessage(n, m)
    /\ LET msg == Head(wire[m][n])
       IN AcceptMessage(n, Recover(n, msg.descs), msg.target,
              [msg EXCEPT !.pipes = [i \in DOMAIN msg.descs |-> msg.descs[i].cross]])
    /\ wire' = [wire EXCEPT ![m][n] = Tail(@)]
    /\ UNCHANGED <<channels, pending, joined, call, acceptCallback, appVars, names, pipes>>

\* Mutant: the cross-node name is not generated anew.
Inchworm_SameCross(d) == [d EXCEPT !.name = d.cross]

\* Node::PrepareToForwardUserMessage: a descriptor's next hop.
Inchworm(d) == [d EXCEPT !.name = d.cross, !.cross = FreshName(EndOf(d.cross))]

\* The target is a proxy: the message goes on to the proxy's target, and the
\* endpoints it carries, just recovered, become proxies for their next hop.
ForwardUserMessage(n, m) ==
    /\ ReceivesUserMessage(n, m)
    /\ LET msg    == Head(wire[m][n])
           target == endpoints[n][msg.target].target
           descs  == [i \in DOMAIN msg.descs |-> Inchworm(msg.descs[i])]
       IN /\ endpoints[n][msg.target].state = "proxying"
          /\ target.node # n
          /\ target.node \in DOMAIN channels[n]
          /\ endpoints' = [endpoints EXCEPT ![n] =
                              Moved(Recover(n, msg.descs), descs, target.node)]
          /\ names' = [e \in Ends |-> IF \E d \in ToSet(descs) : EndOf(d.name) = e
                                      THEN names[e] + 1 ELSE names[e]]
          /\ wire' = [wire EXCEPT
                        ![m][n] = Tail(@),
                        ![n][channels[n][target.node]] = Append(@,
                            [msg EXCEPT !.target = target.ep, !.descs = descs])]
    /\ UNCHANGED <<channels, pending, joined, call, tasks, acceptCallback, appVars, pipes>>
-----------------------------------------------------------------------------
(* Receivers.                                                               *)

\* Endpoint::RegisterDelegate: what was queued is posted in order.
Bind(n, t, x) ==
    /\ Ready(n, t)
    /\ EndOf(x) \in Receivers
    /\ Usable(n, x)
    /\ endpoints[n][x].state = "queueing"
    /\ Unlocked(n, t, x)
    /\ tasks' = [tasks EXCEPT ![n][t] = @ \o TasksFor(x, endpoints[n][x].queue)]
    /\ endpoints' = [endpoints EXCEPT
                        ![n][x].state = "bound", ![n][x].runner = t, ![n][x].queue = << >>]
    /\ UNCHANGED <<channels, pending, joined, wire, call, acceptCallback, appVars,
                   names, pipes>>

\* The front task of thread t: a message for a receiver, which thereby gets
\* the handles in it, or one of the two invitation callbacks.
RunTask(n, t) ==
    /\ Ready(n, t)
    /\ tasks[n][t] # << >>
    /\ LET task == Head(tasks[n][t])
       IN \/ /\ task.op = "message"
             /\ got' = [got EXCEPT ![EndOf(task.ep)] = Append(@, task.msg.id)]
             /\ held' = [held EXCEPT ![n] = @ \cup ToSet(task.msg.pipes)]
             /\ UNCHANGED told
          \/ /\ task.op = "joined"
             /\ held' = [held EXCEPT ![n] = @ \cup {task.ep}]
             /\ UNCHANGED <<told, got>>
          \/ /\ task.op = "accepted"
             /\ told' = [told EXCEPT ![n] = @ \cup {task.node}]
             /\ UNCHANGED <<held, got>>
    /\ tasks' = [tasks EXCEPT ![n][t] = Tail(@)]
    /\ UNCHANGED <<endpoints, channels, pending, joined, wire, call, acceptCallback,
                   names, pipes, moves, carriers, sent>>
-----------------------------------------------------------------------------
Application(n, t) ==
    \/ CreateMessagePipes(n, t)
    \/ \E m \in Nodes : SendInvitation(n, t, m)
    \/ AcceptInvitation(n, t)
    \/ SendMessage(n, t)
    \/ \E x \in held[n] : Bind(n, t, x)

IOThread(n) ==
    \E m \in Nodes :
        \/ OnReceivedInvitation(n, m)
        \/ OnReceivedAcceptInvitation(n, m)
        \/ OnReceivedUserMessage(n, m)
        \/ ForwardUserMessage(n, m)

Flush(n, t) == FlushOne(n, t) \/ FlushDone(n, t)

Next ==
    \E n \in Nodes :
        \/ \E t \in Threads : Application(n, t) \/ RunTask(n, t)
        \/ IOThread(n)
        \/ \E t \in AllThreads : Flush(n, t)

\* Threads do not stop in the middle of a call, task loops run what they are
\* given and read what arrives; what the application does is up to it.
Fairness ==
    \A n \in Nodes :
        /\ WF_vars(IOThread(n))
        /\ \A t \in AllThreads : WF_vars(Flush(n, t))
        /\ \A t \in Threads : WF_vars(RunTask(n, t))

Spec == Init /\ [][Next]_vars
FairSpec == Spec /\ Fairness
=============================================================================
