--------------------------- MODULE NodeProperties ---------------------------
(***************************************************************************)
(* What makes the network of `Node` correct.                                *)
(***************************************************************************)
EXTENDS Node

Names == (1..MaxPipes) \X {1, 2} \X Nat
Addresses == [node : Nodes, ep : Names]
Keys == Nodes \cup {InitialChannel} \cup {Temporary(n) : n \in Nodes}
Ids == (1..MaxPipes) \X {1, 2} \X (Nat \ {0})

Descriptors == [name : Names, cross : Names, peer : Addresses]

IsUserMessage(msg) ==
    /\ msg.type = "USER"
    /\ msg.id \in Ids /\ msg.target \in Names
    /\ ToSet(msg.descs) \subseteq Descriptors /\ ToSet(msg.pipes) \subseteq Names

IsControlMessage(msg) ==
    \/ msg \in [type : {"INVITE"}, inviter : Nodes, temporary : Keys, peer : Names]
    \/ msg \in [type : {"ACCEPT"}, temporary : Keys, node : Nodes, ep : Names]

IsEndpoint(ep) ==
    /\ ep.state \in {"queueing", "bound", "proxying"}
    /\ ep.peer \in Addresses
    /\ ep.target \in Addresses \cup {NoAddress}
    /\ ep.runner \in Threads \cup {NoOne}
    /\ \A msg \in ToSet(ep.queue) : IsUserMessage(msg)

\* Every variable stays within its type.
TypeOK ==
    /\ \A n \in Nodes :
          /\ Local(n) \subseteq Names
          /\ \A x \in Local(n) : IsEndpoint(endpoints[n][x])
          /\ DOMAIN channels[n] \subseteq Keys
          /\ \A k \in DOMAIN channels[n] : channels[n][k] \in Nodes \ {n}
          /\ DOMAIN pending[n] \subseteq Keys
          /\ \A k \in DOMAIN pending[n] : pending[n][k] \in Names
          /\ \A m \in Nodes : \A msg \in ToSet(wire[m][n]) :
                IsUserMessage(msg) \/ IsControlMessage(msg)
          /\ \A t \in AllThreads :
                /\ call[n][t].op \in {"idle", "send", "accept"}
                /\ call[n][t].via \in Names \cup {NoOne}
                /\ call[n][t].lock \in Names \cup {NoOne}
                /\ call[n][t].dest \in Keys \cup {NoOne}
                /\ \A msg \in ToSet(call[n][t].msgs) : IsUserMessage(msg)
          /\ \A t \in Threads : \A task \in ToSet(tasks[n][t]) :
                \/ task.op = "message" /\ task.ep \in Names /\ IsUserMessage(task.msg)
                \/ task.op = "joined" /\ task.ep \in Names
                \/ task.op = "accepted" /\ task.node \in Nodes
          /\ acceptCallback[n] \in Nodes \cup {NoOne}
          /\ held[n] \subseteq Names
          /\ told[n] \subseteq Nodes
    /\ joined \subseteq Nodes
    /\ names \in [Ends -> Nat] /\ sent \in [Ends -> Nat]
    /\ pipes \in 0..MaxPipes /\ moves \in [1..MaxPipes -> Nat]
    /\ carriers \subseteq 1..MaxPipes
    /\ \A e \in Ends : ToSet(got[e]) \subseteq Ids
-----------------------------------------------------------------------------
(* The CHECKs of node.cc and core.cc.  An action of `Node` is disabled where *)
(* the process would abort, so these say that it never would.               *)

\* The dependents of the message about to be written are endpoints of this
\* node (node.cc:502), still queueing and without a delegate (endpoint.cc:154
\* and 108), and the channel it is written to exists (node.cc:541).
DependentsReady ==
    \A n \in Nodes, t \in AllThreads :
        call[n][t].msgs # << >> =>
            /\ call[n][t].dest \in DOMAIN channels[n]
            /\ \A d \in ToSet(Head(call[n][t].msgs).descs) :
                  d.name \in Local(n) /\ endpoints[n][d.name].state = "queueing"

\* Whatever the IO thread can read next finds what its handler looks up: the
\* initial channel (node.cc:326), the pending invitation, its endpoint and
\* temporary channel (379, 387, 411), the target endpoint (564), names that are
\* free for the endpoints it introduces (39) and, to be forwarded, a channel
\* to another node (595, 609).
ReceptionReady ==
    \A n, m \in Nodes :
        (wire[m][n] # << >> /\ \E k \in DOMAIN channels[n] : channels[n][k] = m) =>
            LET msg == Head(wire[m][n])
            IN CASE msg.type = "INVITE" -> InitialChannel \in DOMAIN channels[n]
                 [] msg.type = "ACCEPT" ->
                      /\ msg.temporary \in DOMAIN pending[n] \cap DOMAIN channels[n]
                      /\ pending[n][msg.temporary] \in Local(n)
                      /\ endpoints[n][pending[n][msg.temporary]].state = "queueing"
                 [] msg.type = "USER" ->
                      /\ msg.target \in Local(n)
                      /\ \A d \in ToSet(msg.descs) : d.cross \notin Local(n)
                      /\ endpoints[n][msg.target].state = "proxying" =>
                            endpoints[n][msg.target].target.node \in DOMAIN channels[n] \ {n}

\* A handle the application may use never denotes a proxy ("you have a direct
\* handle to an endpoint, which is only possible if the endpoint backing the
\* handle is not proxying", core.cc:100).
HandlesAreDirect ==
    \A n \in Nodes : \A x \in held[n] :
        x \in Local(n) /\ endpoints[n][x].state # "proxying"

\* Between two nodes a peer is always reachable, and by one way only: it is
\* an endpoint of this node or its node has a channel (node.cc:203-216).
PeerIsLocalOrRemote ==
    \A n \in Nodes : \A x \in held[n] :
        LET peer == endpoints[n][x].peer
        IN (peer.ep \notin Local(n)) # (peer.node \notin DOMAIN channels[n])
-----------------------------------------------------------------------------
(* Routing.                                                                 *)

\* y is introduced to n by one of the first k messages of m's wire to n.
Introduced(m, n, y, k) ==
    \E i \in 1..k : /\ wire[m][n][i].type = "USER"
                    /\ \E d \in ToSet(wire[m][n][i].descs) : d.cross = y

\* No message outruns the one that introduces its target: when it is read, the
\* target endpoint exists (the comment at node.cc:480-491).
NoOrphans ==
    \A m, n \in Nodes : \A i \in DOMAIN wire[m][n] :
        wire[m][n][i].type = "USER" =>
            \/ wire[m][n][i].target \in Local(n)
            \/ Introduced(m, n, wire[m][n][i].target, i - 1)

\* A proxy's target exists on another node, or is on its way there, and is
\* the next stage of the same end of the same pipe.
ProxiesLeadOn ==
    \A n \in Nodes : \A x \in Local(n) :
        endpoints[n][x].state = "proxying" =>
            LET target == endpoints[n][x].target
            IN /\ target.node # n
               /\ EndOf(target.ep) = EndOf(x) /\ target.ep[3] > x[3]
               /\ \/ target.ep \in Local(target.node)
                  \/ Introduced(n, target.node, target.ep, Len(wire[n][target.node]))

Reserved == UNION {{pending[n][k] : k \in DOMAIN pending[n]} : n \in Nodes}

\* Where end e of a pipe is: at an endpoint that is not a proxy,
AtRest(e) ==
    {h \in Nodes \X (UNION {Local(m) : m \in Nodes}) :
        /\ h[2] \in Local(h[1]) \ Reserved /\ EndOf(h[2]) = e
        /\ endpoints[h[1]][h[2]].state # "proxying"}

UserMessages(s) == {i \in DOMAIN s : s[i].type = "USER"}
Arriving(m, n) ==
    UNION {{d.cross : d \in ToSet(wire[m][n][i].descs)} : i \in UserMessages(wire[m][n])}

\* or in a descriptor on its way to become one.
OnTheWay(e) ==
    UNION {UNION {{<<n, x>> : x \in {y \in Arriving(m, n) : EndOf(y) = e}} :
              n \in Nodes} : m \in Nodes}

Homes(e) == AtRest(e) \cup OnTheWay(e)

\* An end of a pipe is in one place: moving it leaves no second live endpoint
\* behind, and none is lost on the way.  (Until an invitation is accepted the
\* reserved endpoint stands in for the invitee's.)
OneHome ==
    \A e \in Ends :
        IF \E x \in Reserved : EndOf(x) = e
        THEN Cardinality(Homes(e)) <= 1
        ELSE e[1] <= pipes => Cardinality(Homes(e)) = 1
-----------------------------------------------------------------------------
(* Delivery.                                                                *)

MessageTasks(s) == {i \in DOMAIN s : s[i].op = "message"}

\* The places a message can be: where it is and which message it is.
OnWires ==
    UNION {UNION {{<<<<"wire", m, n, i>>, wire[m][n][i].id>> :
              i \in UserMessages(wire[m][n])} : n \in Nodes} : m \in Nodes}
InQueues ==
    UNION {UNION {{<<<<"queue", n, x, i>>, endpoints[n][x].queue[i].id>> :
              i \in DOMAIN endpoints[n][x].queue} : x \in Local(n)} : n \in Nodes}
InCalls ==
    UNION {UNION {{<<<<"call", n, t, i>>, call[n][t].msgs[i].id>> :
              i \in DOMAIN call[n][t].msgs} : t \in AllThreads} : n \in Nodes}
InRunners ==
    UNION {UNION {{<<<<"task", n, t, i>>, tasks[n][t][i].msg.id>> :
              i \in MessageTasks(tasks[n][t])} : t \in Threads} : n \in Nodes}
Dispatched ==
    UNION {{<<<<"got", e[1], e[2], i>>, got[e][i]>> : i \in DOMAIN got[e]} : e \in Ends}

Places == OnWires \cup InQueues \cup InCalls \cup InRunners \cup Dispatched

\* Every message ever sent is in exactly one place: not lost in a flush or a
\* forward, not delivered twice.
NoLossNoDup ==
    \A e \in Ends : \A k \in 1..sent[e] :
        Cardinality({p \in Places : p[2] = <<e[1], e[2], k>>}) = 1

\* A receiver gets what was sent on the other end of its pipe, in the order it
\* was sent, wherever either end has been in the meantime.
InOrder ==
    \A e \in Ends :
        got[e] = [i \in DOMAIN got[e] |-> <<Partner(e)[1], Partner(e)[2], i>>]

\* A receiver gets only what was sent on the other end of its pipe.
RightReceiver ==
    \A e \in Ends : \A id \in ToSet(got[e]) : EndOf(id) = Partner(e)

\* Endpoints are never forgotten, a proxy never changes its target, and a
\* receiver is never unbound: what an earlier message was routed by still
\* routes a later one.
RoutesAreFinal ==
    [][\A n \in Nodes : \A x \in Local(n) :
          /\ x \in DOMAIN endpoints'[n]
          /\ endpoints'[n][x].peer = endpoints[n][x].peer
          /\ endpoints[n][x].state # "queueing" =>
                [endpoints'[n][x] EXCEPT !.queue = << >>] =
                [endpoints[n][x] EXCEPT !.queue = << >>]]_vars

IsBound(e) ==
    \E n \in Nodes : \E x \in Local(n) : EndOf(x) = e /\ endpoints[n][x].state = "bound"

\* A message sent on a pipe whose other end has, or will have, a receiver
\* reaches that receiver.
Delivery ==
    \A e \in Ends : \A k \in 1..MaxSends :
        (sent[e] >= k /\ IsBound(Partner(e)))
            ~> (<<e[1], e[2], k>> \in ToSet(got[Partner(e)]))

\* The inviter's application learns that its invitation was accepted.
AcceptanceReported ==
    \A i \in Invitations :
        (i[2] \in joined /\ Temporary(i[2]) \in DOMAIN channels[i[1]])
            ~> (i[2] \in told[i[1]])
=============================================================================
