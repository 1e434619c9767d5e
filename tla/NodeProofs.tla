----------------------------- MODULE NodeProofs -----------------------------
(***************************************************************************)
(* Proofs about the network of `Node`.                                      *)
(***************************************************************************)
EXTENDS NodeProperties, FlattenLemmas, FiniteSetTheorems

(* Names, descriptors and messages.  E is the table of endpoints of every    *)
(* node, N the number of names given to each end.                            *)

\* The names given so far.
Given(N) == {x \in Names : x[3] < N[EndOf(x)]}

\* The endpoints of the other end of e's pipe, wherever they are.
Peers(E, e) ==
    {a \in Addresses : EndOf(a.ep) = Partner(e) /\ a.ep \in DOMAIN E[a.node]}

\* A descriptor leads from one stage of an end to a later stage of it.
Carried(E, N) ==
    {d \in [name : Names, cross : Given(N), peer : Addresses] :
        /\ EndOf(d.cross) = EndOf(d.name) /\ d.name[3] < d.cross[3]
        /\ d.peer \in Peers(E, EndOf(d.name))}

\* User messages whose descriptors do.
Mail(E, N) ==
    [type : {"USER"}, id : Ids, target : Names, descs : Seq(Carried(E, N)),
     pipes : Seq(Names)]

\* What is on a wire or in a call is addressed to the other end of the pipe
\* it was sent on.
RoutedMail(E, N) == {msg \in Mail(E, N) : EndOf(msg.target) = Partner(EndOf(msg.id))}

\* What waits for end e at node n was sent on the other end of its pipe, and
\* the handles in it are endpoints of n.
QueuedMail(E, N, n, e) ==
    {msg \in Mail(E, N) : EndOf(msg.id) = Partner(e) /\ ToSet(msg.pipes) \subseteq DOMAIN E[n]}
-----------------------------------------------------------------------------
(* One wire: w holds the messages on it, L the endpoints at its far end.     *)

\* msg introduces endpoint y.
Carries(msg, y) == msg.type = "USER" /\ \E d \in ToSet(msg.descs) : d.cross = y

\* y is at the far end, or on its way there.
Leads(w, L, y) == y \in L \/ \E i \in DOMAIN w : Carries(w[i], y)

\* No message is ahead of the one that introduces its target.
Ordered(w, L) ==
    \A i \in DOMAIN w : w[i].type = "USER" =>
        w[i].target \in L \/ \E j \in 1..(i - 1) : Carries(w[j], w[i].target)
-----------------------------------------------------------------------------
(* The parts of the invariant.  W is what is on the wires, C the channels,   *)
(* P the pending invitations of every node.                                  *)

\* Where a proxy for endpoint x of n may lead.
Onward(n, x) ==
    {a \in Addresses : a.node # n /\ EndOf(a.ep) = EndOf(x) /\ a.ep[3] > x[3]}

\* What endpoint x of n may be: its peer exists, its target is onward, and what
\* is queued on it waits for its end.
SoundEndpoints(E, N, n, x) ==
    {ep \in [state : {"queueing", "bound", "proxying"}, peer : Peers(E, EndOf(x)),
             target : Addresses \cup {NoAddress}, runner : Threads \cup {NoOne},
             queue : Seq(QueuedMail(E, N, n, EndOf(x)))] :
        /\ ep.state = "bound" => ep.runner \in Threads
        /\ ep.state = "proxying" => ep.target \in Onward(n, x)}

\* Every endpoint has been named, and is sound.
EndpointsSound(E, N) ==
    /\ DOMAIN E = Nodes
    /\ \A n \in Nodes :
          /\ DOMAIN E[n] \subseteq Given(N)
          /\ \A x \in DOMAIN E[n] : E[n][x] \in SoundEndpoints(E, N, n, x)

\* The next stage is at a's node, or on its way there from n.
Reaches(E, W, n, a) == Leads(W[n][a.node], DOMAIN E[a.node], a.ep)

\* Every proxy's target can be reached.
ProxiesReach(E, W) ==
    \A n \in Nodes : \A x \in DOMAIN E[n] :
        E[n][x].state = "proxying" => Reaches(E, W, n, E[n][x].target)

\* The inviter n has, or had, a temporary channel to m.
Engaged(C, n, m) == {m, Temporary(m)} \cap DOMAIN C[n] # {}

\* An invitation that is still pending is the one of end e.
PendingFor(P, n, m, e) ==
    Temporary(m) \in DOMAIN P[n] => EndOf(P[n][Temporary(m)]) = e

\* The invitations n sends to m, and m's answers to them.
Invites(E, N, C, P, n, m) ==
    {msg \in [type : {"INVITE"}, inviter : {n}, temporary : {Temporary(m)},
              peer : DOMAIN E[n]] :
        /\ <<n, m>> \in Invitations /\ Engaged(C, n, m)
        /\ N[Partner(EndOf(msg.peer))] > 0
        /\ PendingFor(P, n, m, Partner(EndOf(msg.peer)))}

\* See Invites.
Accepts(E, C, P, n, m) ==
    {msg \in [type : {"ACCEPT"}, temporary : {Temporary(m)}, node : {m},
              ep : DOMAIN E[m]] :
        /\ <<n, m>> \in Invitations /\ Engaged(C, n, m)
        /\ msg.ep[3] > 0
        /\ PendingFor(P, n, m, EndOf(msg.ep))}

\* What can be on the wire from m to n.
Traffic(E, N, C, P, m, n) ==
    RoutedMail(E, N) \cup Invites(E, N, C, P, m, n) \cup Accepts(E, C, P, n, m)

\* Nothing else is on the wires,
WiresSound(E, N, C, P, W) ==
    /\ DOMAIN W = Nodes
    /\ \A m \in Nodes :
          /\ DOMAIN W[m] = Nodes
          /\ \A n \in Nodes : W[m][n] \in Seq(Traffic(E, N, C, P, m, n))

\* and it is in order.
WiresOrdered(E, W) == \A m, n \in Nodes : Ordered(W[m][n], DOMAIN E[n])

\* A channel of n is named after the node m at its end, or is on its way to be.
ChannelOk(n, k, m) ==
    /\ k \in Keys /\ m \in Nodes \ {n}
    /\ k \in Nodes => m = k
    /\ k = InitialChannel => <<m, n>> \in Invitations
    /\ \A i \in Nodes : k = Temporary(i) => m = i

\* All channels are.
ChannelsSound(C) ==
    /\ DOMAIN C = Nodes
    /\ \A n \in Nodes : \A k \in DOMAIN C[n] : ChannelOk(n, k, C[n][k])

\* A reserved endpoint is the first of its end, and its invitation is sent.
PendingOk(C, n, k, x) ==
    /\ x \in Names /\ x[3] = 0
    /\ \E m \in Nodes : k = Temporary(m) /\ Engaged(C, n, m)

\* All pending invitations are.
PendingSound(C, P) ==
    /\ DOMAIN P = Nodes
    /\ \A n \in Nodes : \A k \in DOMAIN P[n] : PendingOk(C, n, k, P[n][k])

\* What n may still write to dest.
Outgoing(E, N, W, n, dest) ==
    {msg \in RoutedMail(E, N) : Reaches(E, W, n, Address(dest, msg.target))}

\* Where a thread of n may be: what it has left to write goes to another node.
Calls(E, N, W, n) ==
    {c \in [op : {"idle", "send", "accept"}, via : Names \cup {NoOne},
            lock : Names \cup {NoOne}, dest : Nodes \cup {NoOne},
            msgs : Seq(RoutedMail(E, N))] :
        c.msgs # << >> =>
            /\ c.dest \in Nodes \ {n}
            /\ c.msgs \in Seq(Outgoing(E, N, W, n, c.dest))}

\* Every thread is at such a place.
CallsSound(E, N, W, K) ==
    /\ DOMAIN K = Nodes
    /\ \A n \in Nodes :
          /\ DOMAIN K[n] = AllThreads
          /\ \A t \in AllThreads : K[n][t] \in Calls(E, N, W, n)

\* What can be posted to a thread of n.
Tasks(E, N, n) ==
    {task \in [op : {"message"}, ep : DOMAIN E[n], msg : Mail(E, N)] :
        task.msg \in QueuedMail(E, N, n, EndOf(task.ep))}
    \cup [op : {"joined"}, ep : DOMAIN E[n]]
    \cup [op : {"accepted"}, node : Nodes]

\* Nothing else has been.
TasksSound(E, N, T) ==
    /\ DOMAIN T = Nodes
    /\ \A n \in Nodes :
          /\ DOMAIN T[n] = Threads
          /\ \A t \in Threads : T[n][t] \in Seq(Tasks(E, N, n))

\* A handle is one of an endpoint of its node.
HeldSound(E, H) == DOMAIN H = Nodes /\ \A n \in Nodes : H[n] \subseteq DOMAIN E[n]

\* What a receiver may get.
SentTo(e) == {id \in Ids : EndOf(id) = Partner(e)}
\* And no receiver got anything else.
GotSound(G) == DOMAIN G = Ends /\ \A e \in Ends : G[e] \in Seq(SentTo(e))

\* A pipe that is not there yet has no names.
NamesSound(N, p) == N \in [Ends -> Nat] /\ \A e \in Ends : e[1] > p => N[e] = 0

\* The types of what is only counted or noted.
CountersSound ==
    /\ pipes \in 0..MaxPipes /\ moves \in [1..MaxPipes -> Nat]
    /\ sent \in [Ends -> Nat]
    /\ joined \subseteq Nodes /\ carriers \subseteq 1..MaxPipes
    /\ acceptCallback \in [Nodes -> Nodes \cup {NoOne}]
    /\ told \in [Nodes -> SUBSET Nodes]

\* The inductive invariant.
IndInv ==
    /\ CountersSound
    /\ NamesSound(names, pipes)
    /\ EndpointsSound(endpoints, names)
    /\ ProxiesReach(endpoints, wire)
    /\ WiresSound(endpoints, names, channels, pending, wire)
    /\ WiresOrdered(endpoints, wire)
    /\ ChannelsSound(channels)
    /\ PendingSound(channels, pending)
    /\ CallsSound(endpoints, names, wire, call)
    /\ TasksSound(endpoints, names, tasks)
    /\ HeldSound(endpoints, held)
    /\ GotSound(got)
-----------------------------------------------------------------------------
(* What a step does to the tables and the wires, in general.                 *)

\* Endpoints and names are never taken back.
Grows(E, N, E2, N2) ==
    /\ \A n \in Nodes : DOMAIN E[n] \subseteq DOMAIN E2[n]
    /\ N \in [Ends -> Nat] /\ N2 \in [Ends -> Nat]
    /\ \A e \in Ends : N[e] <= N2[e]

\* Names and ends fit together.
LEMMA EndsFit ==
    /\ \A x \in Names : EndOf(x) \in Ends
    /\ \A e \in Ends : Partner(e) \in Ends /\ Partner(Partner(e)) = e
<1>1. \A x \in Names : EndOf(x) \in Ends
  BY DEF Names, EndOf, Ends
<1>2. ASSUME NEW e \in Ends PROVE Partner(e) \in Ends /\ Partner(Partner(e)) = e
  <2>1. PICK p \in 1..MaxPipes, s \in {1, 2} : e = <<p, s>>
    BY DEF Ends
  <2>2. Partner(e) = <<p, 3 - s>>
    BY <2>1 DEF Partner
  <2>3. 3 - s \in {1, 2} /\ 3 - (3 - s) = s
    OBVIOUS
  <2> QED BY <2>1, <2>2, <2>3 DEF Partner, Ends
<1> QED BY <1>1, <1>2

\* A name given stays given.
LEMMA GivenGrows ==
    ASSUME NEW E, NEW N, NEW E2, NEW N2, Grows(E, N, E2, N2)
    PROVE  Given(N) \subseteq Given(N2)
<1> SUFFICES ASSUME NEW x \in Given(N) PROVE x \in Given(N2)
  OBVIOUS
<1>1. x \in Names /\ x[3] < N[EndOf(x)] /\ x[3] \in Nat /\ EndOf(x) \in Ends
  BY EndsFit DEF Given, Names
<1>2. N[EndOf(x)] \in Nat /\ N2[EndOf(x)] \in Nat /\ N[EndOf(x)] <= N2[EndOf(x)]
  BY <1>1 DEF Grows
<1>3. x[3] < N2[EndOf(x)]
  BY <1>1, <1>2
<1> QED BY <1>1, <1>3 DEF Given

\* An endpoint that is somewhere stays there.
LEMMA PeersGrow ==
    ASSUME NEW E, NEW N, NEW E2, NEW N2, Grows(E, N, E2, N2), NEW e
    PROVE  Peers(E, e) \subseteq Peers(E2, e)
BY DEF Grows, Peers, Addresses

\* A descriptor stays good.
LEMMA CarriedGrows ==
    ASSUME NEW E, NEW N, NEW E2, NEW N2, Grows(E, N, E2, N2)
    PROVE  Carried(E, N) \subseteq Carried(E2, N2)
<1> SUFFICES ASSUME NEW d \in Carried(E, N) PROVE d \in Carried(E2, N2)
  OBVIOUS
<1>1. d \in [name : Names, cross : Given(N2), peer : Addresses]
  BY GivenGrows DEF Carried
<1>2. d.peer \in Peers(E2, EndOf(d.name))
  BY PeersGrow DEF Carried
<1> QED BY <1>1, <1>2 DEF Carried

\* And so does a message,
LEMMA MailGrows ==
    ASSUME NEW E, NEW N, NEW E2, NEW N2, Grows(E, N, E2, N2)
    PROVE  Mail(E, N) \subseteq Mail(E2, N2)
<1> SUFFICES ASSUME NEW msg \in Mail(E, N) PROVE msg \in Mail(E2, N2)
  OBVIOUS
<1>1. msg.descs \in Seq(Carried(E, N))
  BY DEF Mail
<1>2. msg.descs \in Seq(Carried(E2, N2))
  BY <1>1, CarriedGrows, SeqMonotonic
<1> QED BY <1>2 DEF Mail

\* on its way
LEMMA RoutedMailGrows ==
    ASSUME NEW E, NEW N, NEW E2, NEW N2, Grows(E, N, E2, N2)
    PROVE  RoutedMail(E, N) \subseteq RoutedMail(E2, N2)
BY MailGrows DEF RoutedMail

\* or waiting.
LEMMA QueuedMailGrows ==
    ASSUME NEW E, NEW N, NEW E2, NEW N2, Grows(E, N, E2, N2),
           NEW n \in Nodes, NEW e
    PROVE  QueuedMail(E, N, n, e) \subseteq QueuedMail(E2, N2, n, e)
<1>1. DOMAIN E[n] \subseteq DOMAIN E2[n]
  BY DEF Grows
<1> QED BY <1>1, MailGrows DEF QueuedMail

\* An endpoint stays sound.
LEMMA SoundEndpointsGrow ==
    ASSUME NEW E, NEW N, NEW E2, NEW N2, Grows(E, N, E2, N2),
           NEW n \in Nodes, NEW x
    PROVE  SoundEndpoints(E, N, n, x) \subseteq SoundEndpoints(E2, N2, n, x)
<1> SUFFICES ASSUME NEW ep \in SoundEndpoints(E, N, n, x)
             PROVE ep \in SoundEndpoints(E2, N2, n, x)
  OBVIOUS
<1>1. ep.queue \in Seq(QueuedMail(E, N, n, EndOf(x)))
  BY DEF SoundEndpoints
<1>2. ep.queue \in Seq(QueuedMail(E2, N2, n, EndOf(x)))
  BY <1>1, QueuedMailGrows, SeqMonotonic
<1>3. ep.peer \in Peers(E2, EndOf(x))
  BY PeersGrow DEF SoundEndpoints
<1> QED BY <1>2, <1>3 DEF SoundEndpoints

\* What is posted stays fit to run.
LEMMA TasksGrow ==
    ASSUME NEW E, NEW N, NEW E2, NEW N2, Grows(E, N, E2, N2), NEW n \in Nodes
    PROVE  Tasks(E, N, n) \subseteq Tasks(E2, N2, n)
<1> SUFFICES ASSUME NEW task \in Tasks(E, N, n) PROVE task \in Tasks(E2, N2, n)
  OBVIOUS
<1>1. DOMAIN E[n] \subseteq DOMAIN E2[n]
  BY DEF Grows
<1>2. CASE task \in [op : {"message"}, ep : DOMAIN E[n], msg : Mail(E, N)]
            /\ task.msg \in QueuedMail(E, N, n, EndOf(task.ep))
  BY <1>1, <1>2, MailGrows, QueuedMailGrows DEF Tasks
<1>3. CASE task \in [op : {"joined"}, ep : DOMAIN E[n]]
  BY <1>1, <1>3 DEF Tasks
<1>4. CASE task \in [op : {"accepted"}, node : Nodes]
  BY <1>4 DEF Tasks
<1> QED BY <1>2, <1>3, <1>4 DEF Tasks

\* What is between an inviter and its invitee stays engaged and pending for
\* the same end, unless there was nothing between them.
Steady(C, P, C2, P2) ==
    \A n, m \in Nodes : Engaged(C, n, m) =>
        /\ Engaged(C2, n, m)
        /\ Temporary(m) \in DOMAIN P2[n] =>
              Temporary(m) \in DOMAIN P[n] /\ P2[n][Temporary(m)] = P[n][Temporary(m)]

\* What is on a wire stays fit to be there.
LEMMA TrafficGrows ==
    ASSUME NEW E, NEW N, NEW E2, NEW N2, Grows(E, N, E2, N2),
           NEW C, NEW P, NEW C2, NEW P2, Steady(C, P, C2, P2),
           NEW m \in Nodes, NEW n \in Nodes,
           DOMAIN E[m] \subseteq Names
    PROVE  Traffic(E, N, C, P, m, n) \subseteq Traffic(E2, N2, C2, P2, m, n)
<1>1. DOMAIN E[m] \subseteq DOMAIN E2[m]
  BY DEF Grows
<1>2. ASSUME NEW msg \in Invites(E, N, C, P, m, n)
      PROVE  msg \in Invites(E2, N2, C2, P2, m, n)
  <2> DEFINE e == Partner(EndOf(msg.peer))
  <2>1. msg \in [type : {"INVITE"}, inviter : {m}, temporary : {Temporary(n)},
                  peer : DOMAIN E2[m]] /\ msg.peer \in DOMAIN E[m]
    BY <1>1, <1>2 DEF Invites
  <2>2. <<m, n>> \in Invitations /\ Engaged(C, m, n) /\ N[e] > 0 /\ PendingFor(P, m, n, e)
    BY <1>2 DEF Invites
  <2>3. e \in Ends
    BY <2>1, EndsFit
  <2> HIDE DEF e
  <2>4. N[e] \in Nat /\ N2[e] \in Nat /\ N[e] <= N2[e]
    BY <2>3 DEF Grows
  <2>5. N2[e] > 0
    BY <2>2, <2>4
  <2>6. Engaged(C2, m, n) /\ PendingFor(P2, m, n, e)
    BY <2>2 DEF Steady, PendingFor
  <2> QED BY <2>1, <2>2, <2>5, <2>6 DEF Invites, e
<1>3. ASSUME NEW msg \in Accepts(E, C, P, n, m)
      PROVE  msg \in Accepts(E2, C2, P2, n, m)
  <2>1. Engaged(C, n, m) /\ PendingFor(P, n, m, EndOf(msg.ep))
    BY <1>3 DEF Accepts
  <2>2. Engaged(C2, n, m) /\ PendingFor(P2, n, m, EndOf(msg.ep))
    BY <2>1 DEF Steady, PendingFor
  <2> QED BY <1>1, <1>3, <2>2 DEF Accepts
<1> QED BY <1>2, <1>3, RoutedMailGrows DEF Traffic
-----------------------------------------------------------------------------
(* One step of one wire: nothing, one message more, or its first message     *)
(* read and what that introduces now at the far end.                         *)

\* From w to w2, when L2 is at the far end then and S2 may be sent.
WireSteps(w, w2, L2, S2) ==
    \/ w2 = w
    \/ \E msg \in S2 : /\ w2 = Append(w, msg)
                       /\ msg.type = "USER" => Leads(w, L2, msg.target)
    \/ /\ w # << >> /\ w2 = Tail(w)
       /\ \A y : Carries(Head(w), y) => y \in L2

\* What was at the far end or on its way there is so still.
LEMMA LeadsStep ==
    ASSUME NEW S, NEW w \in Seq(S), NEW w2, NEW L, NEW L2, L \subseteq L2,
           NEW S2, WireSteps(w, w2, L2, S2), NEW y, Leads(w, L, y)
    PROVE  Leads(w2, L2, y)
<1>1. CASE y \in L
  BY <1>1 DEF Leads
<1>2. CASE y \notin L
  <2>1. PICK i \in 1..Len(w) : Carries(w[i], y)
    BY <1>2 DEF Leads
  <2>2. CASE w2 = w
    BY <2>1, <2>2 DEF Leads
  <2>3. ASSUME NEW msg, w2 = Append(w, msg) PROVE Leads(w2, L2, y)
    <3>1. i \in DOMAIN w2 /\ w2[i] = w[i]
      BY <2>3
    <3> QED BY <2>1, <3>1 DEF Leads
  <2>4. CASE w # << >> /\ w2 = Tail(w) /\ \A z : Carries(Head(w), z) => z \in L2
    <3>1. CASE i = 1
      BY <2>1, <2>4, <3>1 DEF Leads
    <3>2. CASE i # 1
      <4>1. i - 1 \in DOMAIN w2 /\ w2[i - 1] = w[i]
        BY <2>4, <3>2
      <4> QED BY <2>1, <4>1 DEF Leads
    <3> QED BY <3>1, <3>2
  <2> QED BY <2>2, <2>3, <2>4 DEF WireSteps
<1> QED BY <1>1, <1>2

\* The message appended leads to what it introduces.
LEMMA LeadsAppended ==
    ASSUME NEW S, NEW w \in Seq(S), NEW msg, NEW L, NEW y, Carries(msg, y)
    PROVE  Leads(Append(w, msg), L, y)
<1> DEFINE w2 == Append(w, msg)
<1>1. Len(w) + 1 \in DOMAIN w2 /\ w2[Len(w) + 1] = msg
  OBVIOUS
<1> HIDE DEF w2
<1> QED BY <1>1 DEF Leads, w2

\* The order of introduction and use is kept.
LEMMA OrderedStep ==
    ASSUME NEW S, NEW w \in Seq(S), NEW w2, NEW L, NEW L2, L \subseteq L2,
           NEW S2, WireSteps(w, w2, L2, S2), Ordered(w, L)
    PROVE  Ordered(w2, L2)
<1>1. CASE w2 = w
  BY <1>1 DEF Ordered
<1>2. ASSUME NEW msg, w2 = Append(w, msg), msg.type = "USER" => Leads(w, L2, msg.target)
      PROVE  Ordered(w2, L2)
  <2> SUFFICES ASSUME NEW i \in DOMAIN w2, w2[i].type = "USER"
               PROVE  w2[i].target \in L2 \/ \E j \in 1..(i - 1) : Carries(w2[j], w2[i].target)
    BY DEF Ordered
  <2>1. i \in 1..(Len(w) + 1) /\ (\A j \in 1..Len(w) : w2[j] = w[j]) /\ w2[Len(w) + 1] = msg
    BY <1>2
  <2>2. CASE i = Len(w) + 1
    BY <1>2, <2>1, <2>2 DEF Leads
  <2>3. CASE i # Len(w) + 1
    <3>1. i \in DOMAIN w /\ w2[i] = w[i] /\ \A j \in 1..(i - 1) : w2[j] = w[j]
      BY <2>1, <2>3
    <3> QED BY <3>1 DEF Ordered
  <2> QED BY <2>2, <2>3
<1>3. CASE w # << >> /\ w2 = Tail(w) /\ \A y : Carries(Head(w), y) => y \in L2
  <2> SUFFICES ASSUME NEW i \in DOMAIN w2, w2[i].type = "USER"
               PROVE  w2[i].target \in L2 \/ \E j \in 1..(i - 1) : Carries(w2[j], w2[i].target)
    BY DEF Ordered
  <2>1. i \in 1..(Len(w) - 1) /\ (\A j \in 1..(Len(w) - 1) : w2[j] = w[j + 1])
    BY <1>3
  <2>2. i + 1 \in DOMAIN w /\ w[i + 1].type = "USER" /\ w2[i] = w[i + 1]
    BY <2>1
  <2>3. CASE w2[i].target \in L
    BY <2>3
  <2>4. CASE w2[i].target \notin L
    <3>1. PICK j \in 1..i : Carries(w[j], w2[i].target)
      BY <2>1, <2>2, <2>4 DEF Ordered
    <3>2. CASE j = 1
      BY <1>3, <3>1, <3>2
    <3>3. CASE j # 1
      <4>1. j - 1 \in 1..(i - 1) /\ w2[j - 1] = w[j]
        BY <2>1, <3>3
      <4> QED BY <3>1, <4>1
    <3> QED BY <3>2, <3>3
  <2> QED BY <2>3, <2>4
<1> QED BY <1>1, <1>2, <1>3 DEF WireSteps

\* Every wire does one of these steps.
WiresStep(E2, N2, C2, P2, W, W2) ==
    /\ DOMAIN W2 = Nodes
    /\ \A m \in Nodes :
          /\ DOMAIN W2[m] = Nodes
          /\ \A n \in Nodes :
                WireSteps(W[m][n], W2[m][n], DOMAIN E2[n], Traffic(E2, N2, C2, P2, m, n))

\* Each wire holds messages.
LEMMA WireIsSeq ==
    ASSUME NEW E, NEW N, NEW C, NEW P, NEW W, WiresSound(E, N, C, P, W),
           NEW m \in Nodes, NEW n \in Nodes
    PROVE  W[m][n] \in Seq(Traffic(E, N, C, P, m, n))
BY DEF WiresSound

\* What a node or its wires could reach they reach still.
LEMMA ReachesStep ==
    ASSUME NEW E, NEW N, NEW E2, NEW N2, Grows(E, N, E2, N2),
           NEW C, NEW P, NEW C2, NEW P2, NEW W, NEW W2,
           WiresSound(E, N, C, P, W), WiresStep(E2, N2, C2, P2, W, W2),
           NEW n \in Nodes, NEW a, a.node \in Nodes, Reaches(E, W, n, a)
    PROVE  Reaches(E2, W2, n, a)
<1> DEFINE m == a.node
<1>1. W[n][m] \in Seq(Traffic(E, N, C, P, n, m))
  BY WireIsSeq
<1>2. WireSteps(W[n][m], W2[n][m], DOMAIN E2[m], Traffic(E2, N2, C2, P2, n, m))
  BY DEF WiresStep
<1>3. DOMAIN E[m] \subseteq DOMAIN E2[m]
  BY DEF Grows
<1>4. Leads(W[n][m], DOMAIN E[m], a.ep)
  BY DEF Reaches
<1>5. Leads(W2[n][m], DOMAIN E2[m], a.ep)
  BY <1>1, <1>2, <1>3, <1>4, LeadsStep
<1> QED BY <1>5 DEF Reaches

\* A call keeps its messages deliverable.
LEMMA CallsGrow ==
    ASSUME NEW E, NEW N, NEW E2, NEW N2, Grows(E, N, E2, N2),
           NEW C, NEW P, NEW C2, NEW P2, NEW W, NEW W2,
           WiresSound(E, N, C, P, W), WiresStep(E2, N2, C2, P2, W, W2),
           NEW n \in Nodes
    PROVE  Calls(E, N, W, n) \subseteq Calls(E2, N2, W2, n)
<1> SUFFICES ASSUME NEW c \in Calls(E, N, W, n) PROVE c \in Calls(E2, N2, W2, n)
  OBVIOUS
<1>1. c.msgs \in Seq(RoutedMail(E2, N2))
  <2>1. c.msgs \in Seq(RoutedMail(E, N))
    BY DEF Calls
  <2> QED BY <2>1, RoutedMailGrows, SeqMonotonic
<1>2. ASSUME c.msgs # << >>
      PROVE  c.dest \in Nodes \ {n} /\ c.msgs \in Seq(Outgoing(E2, N2, W2, n, c.dest))
  <2>1. c.dest \in Nodes \ {n} /\ c.msgs \in Seq(Outgoing(E, N, W, n, c.dest))
    BY <1>2 DEF Calls
  <2>2. ASSUME NEW msg \in Outgoing(E, N, W, n, c.dest)
        PROVE  msg \in Outgoing(E2, N2, W2, n, c.dest)
    <3>1. msg \in RoutedMail(E2, N2) /\ Reaches(E, W, n, Address(c.dest, msg.target))
      BY <2>2, RoutedMailGrows DEF Outgoing
    <3>2. Address(c.dest, msg.target).node \in Nodes
      BY <2>1 DEF Address
    <3>3. Reaches(E2, W2, n, Address(c.dest, msg.target))
      BY <3>1, <3>2, ReachesStep
    <3> QED BY <3>1, <3>3 DEF Outgoing
  <2>3. Outgoing(E, N, W, n, c.dest) \subseteq Outgoing(E2, N2, W2, n, c.dest)
    BY <2>2
  <2> QED BY <2>1, <2>3, SeqMonotonic
<1> QED BY <1>1, <1>2 DEF Calls
-----------------------------------------------------------------------------
(* What a step leaves alone stays sound, so of each step only what it writes *)
(* is left to look at.                                                       *)

\* Each endpoint is as it was, or it is sound and, if a proxy, leads on.
EndpointsStep(E, E2, N2, W2) ==
    /\ DOMAIN E2 = Nodes
    /\ \A n \in Nodes : \A x \in DOMAIN E2[n] :
          \/ x \in DOMAIN E[n] /\ E2[n][x] = E[n][x]
          \/ /\ x \in Given(N2)
             /\ E2[n][x] \in SoundEndpoints(E2, N2, n, x)
             /\ E2[n][x].state = "proxying" => Reaches(E2, W2, n, E2[n][x].target)

\* Each call is as it was, or it is sound.
CallsStep(E2, N2, W2, K, K2) ==
    /\ DOMAIN K2 = Nodes
    /\ \A n \in Nodes :
          /\ DOMAIN K2[n] = AllThreads
          /\ \A t \in AllThreads : K2[n][t] = K[n][t] \/ K2[n][t] \in Calls(E2, N2, W2, n)

\* Tasks are posted at the end and run from the front.
TasksStep(E2, N2, T, T2) ==
    /\ DOMAIN T2 = Nodes
    /\ \A n \in Nodes :
          /\ DOMAIN T2[n] = Threads
          /\ \A t \in Threads :
                \/ T2[n][t] = T[n][t]
                \/ T[n][t] # << >> /\ T2[n][t] = Tail(T[n][t])
                \/ \E s \in Seq(Tasks(E2, N2, n)) : T2[n][t] = T[n][t] \o s

\* A node gets handles of its own endpoints.
HeldStep(E2, H, H2) ==
    /\ DOMAIN H2 = Nodes
    /\ \A n \in Nodes : H2[n] \subseteq H[n] \cup DOMAIN E2[n]

\* The endpoints stay sound.
LEMMA EndpointsKept ==
    ASSUME NEW E, NEW N, NEW E2, NEW N2, Grows(E, N, E2, N2),
           NEW C, NEW P, NEW C2, NEW P2, NEW W, NEW W2,
           WiresSound(E, N, C, P, W), WiresStep(E2, N2, C2, P2, W, W2),
           EndpointsSound(E, N), ProxiesReach(E, W), EndpointsStep(E, E2, N2, W2)
    PROVE  EndpointsSound(E2, N2) /\ ProxiesReach(E2, W2)
<1>1. ASSUME NEW n \in Nodes, NEW x \in DOMAIN E2[n]
      PROVE  /\ x \in Given(N2) /\ E2[n][x] \in SoundEndpoints(E2, N2, n, x)
             /\ E2[n][x].state = "proxying" => Reaches(E2, W2, n, E2[n][x].target)
  <2>1. CASE x \in DOMAIN E[n] /\ E2[n][x] = E[n][x]
    <3>1. x \in Given(N2)
      BY <2>1, GivenGrows DEF EndpointsSound
    <3>2. E[n][x] \in SoundEndpoints(E, N, n, x)
      BY <2>1 DEF EndpointsSound
    <3>3. E2[n][x] \in SoundEndpoints(E2, N2, n, x)
      BY <2>1, <3>2, SoundEndpointsGrow
    <3>4. ASSUME E[n][x].state = "proxying" PROVE Reaches(E2, W2, n, E[n][x].target)
      <4>1. E[n][x].target.node \in Nodes
        BY <3>2, <3>4 DEF SoundEndpoints, Onward, Addresses
      <4>2. Reaches(E, W, n, E[n][x].target)
        BY <2>1, <3>4 DEF ProxiesReach
      <4> QED BY <4>1, <4>2, ReachesStep
    <3> QED BY <2>1, <3>1, <3>3, <3>4
  <2> QED BY <2>1 DEF EndpointsStep
<1>2. EndpointsSound(E2, N2)
  BY <1>1 DEF EndpointsSound, EndpointsStep
<1>3. ProxiesReach(E2, W2)
  BY <1>1 DEF ProxiesReach
<1> QED BY <1>2, <1>3

\* What is on the wires stays fit to be there, and in order.
LEMMA WiresKept ==
    ASSUME NEW E, NEW N, NEW E2, NEW N2, Grows(E, N, E2, N2),
           NEW C, NEW P, NEW C2, NEW P2, Steady(C, P, C2, P2), NEW W, NEW W2,
           WiresSound(E, N, C, P, W), WiresOrdered(E, W), EndpointsSound(E, N),
           WiresStep(E2, N2, C2, P2, W, W2)
    PROVE  WiresSound(E2, N2, C2, P2, W2) /\ WiresOrdered(E2, W2)
<1>1. ASSUME NEW m \in Nodes, NEW n \in Nodes
      PROVE  W2[m][n] \in Seq(Traffic(E2, N2, C2, P2, m, n)) /\ Ordered(W2[m][n], DOMAIN E2[n])
  <2> DEFINE S == Traffic(E, N, C, P, m, n)
             S2 == Traffic(E2, N2, C2, P2, m, n)
             w == W[m][n]
             w2 == W2[m][n]
             L == DOMAIN E[n]
             L2 == DOMAIN E2[n]
  <2>1. w \in Seq(S)
    BY WireIsSeq
  <2>2. DOMAIN E[m] \subseteq Names
    BY DEF EndpointsSound, Given
  <2>3. S \subseteq S2
    BY <2>2, TrafficGrows
  <2>4. w \in Seq(S2)
    <3> HIDE DEF S, S2, w
    <3> QED BY <2>1, <2>3, SeqMonotonic
  <2>5. WireSteps(w, w2, L2, S2)
    BY DEF WiresStep
  <2>6. Ordered(w, L) /\ L \subseteq L2
    BY DEF WiresOrdered, Grows
  <2> HIDE DEF S, S2, w, w2, L, L2
  <2>7. w2 \in Seq(S2)
    BY <2>4, <2>5 DEF WireSteps
  <2>8. Ordered(w2, L2)
    BY <2>1, <2>5, <2>6, OrderedStep
  <2> QED BY <2>7, <2>8 DEF w2, S2, L2
<1> QED BY <1>1 DEF WiresSound, WiresOrdered, WiresStep

\* The calls stay sound.
LEMMA CallsKept ==
    ASSUME NEW E, NEW N, NEW E2, NEW N2, Grows(E, N, E2, N2),
           NEW C, NEW P, NEW C2, NEW P2, NEW W, NEW W2,
           WiresSound(E, N, C, P, W), WiresStep(E2, N2, C2, P2, W, W2),
           NEW K, NEW K2, CallsSound(E, N, W, K), CallsStep(E2, N2, W2, K, K2)
    PROVE  CallsSound(E2, N2, W2, K2)
<1>1. ASSUME NEW n \in Nodes PROVE Calls(E, N, W, n) \subseteq Calls(E2, N2, W2, n)
  BY CallsGrow
<1> QED BY <1>1 DEF CallsSound, CallsStep

\* The tasks stay fit to run.
LEMMA TasksKept ==
    ASSUME NEW E, NEW N, NEW E2, NEW N2, Grows(E, N, E2, N2),
           NEW T, NEW T2, TasksSound(E, N, T), TasksStep(E2, N2, T, T2)
    PROVE  TasksSound(E2, N2, T2)
<1>1. ASSUME NEW n \in Nodes, NEW t \in Threads PROVE T2[n][t] \in Seq(Tasks(E2, N2, n))
  <2> DEFINE S2 == Tasks(E2, N2, n)
             s == T[n][t]
             s2 == T2[n][t]
  <2>1. s \in Seq(Tasks(E, N, n))
    BY DEF TasksSound
  <2>2. Tasks(E, N, n) \subseteq S2
    BY TasksGrow
  <2>3. s \in Seq(S2)
    <3> HIDE DEF S2, s
    <3> QED BY <2>1, <2>2, SeqMonotonic
  <2>4. s2 = s \/ (s # << >> /\ s2 = Tail(s)) \/ \E r \in Seq(S2) : s2 = s \o r
    BY DEF TasksStep
  <2> HIDE DEF S2, s, s2
  <2>5. ASSUME s # << >>, s2 = Tail(s) PROVE s2 \in Seq(S2)
    BY <2>3, <2>5, HeadTailProperties
  <2>6. ASSUME NEW r \in Seq(S2), s2 = s \o r PROVE s2 \in Seq(S2)
    BY <2>3, <2>6, ConcatProperties
  <2> QED BY <2>3, <2>4, <2>5, <2>6 DEF S2, s2
<1> QED BY <1>1 DEF TasksSound, TasksStep

\* The handles stay those of endpoints.
LEMMA HeldKept ==
    ASSUME NEW E, NEW N, NEW E2, NEW N2, Grows(E, N, E2, N2),
           NEW H, NEW H2, HeldSound(E, H), HeldStep(E2, H, H2)
    PROVE  HeldSound(E2, H2)
BY DEF HeldSound, HeldStep, Grows

\* What of IndInv follows from how the tables, wires, calls and tasks change.
StepsSoundly ==
    /\ Grows(endpoints, names, endpoints', names')
    /\ Steady(channels, pending, channels', pending')
    /\ EndpointsStep(endpoints, endpoints', names', wire')
    /\ WiresStep(endpoints', names', channels', pending', wire, wire')
    /\ CallsStep(endpoints', names', wire', call, call')
    /\ TasksStep(endpoints', names', tasks, tasks')
    /\ HeldStep(endpoints', held, held')

\* A sound step keeps those parts.
LEMMA SoundStepKeeps ==
    ASSUME IndInv, StepsSoundly
    PROVE  /\ EndpointsSound(endpoints', names')
           /\ ProxiesReach(endpoints', wire')
           /\ WiresSound(endpoints', names', channels', pending', wire')
           /\ WiresOrdered(endpoints', wire')
           /\ CallsSound(endpoints', names', wire', call')
           /\ TasksSound(endpoints', names', tasks')
           /\ HeldSound(endpoints', held')
<1>1. EndpointsSound(endpoints', names') /\ ProxiesReach(endpoints', wire')
  BY EndpointsKept DEF IndInv, StepsSoundly
<1>2. /\ WiresSound(endpoints', names', channels', pending', wire')
      /\ WiresOrdered(endpoints', wire')
  BY WiresKept DEF IndInv, StepsSoundly
<1>3. CallsSound(endpoints', names', wire', call')
  BY CallsKept DEF IndInv, StepsSoundly
<1>4. TasksSound(endpoints', names', tasks')
  BY TasksKept DEF IndInv, StepsSoundly
<1>5. HeldSound(endpoints', held')
  BY HeldKept DEF IndInv, StepsSoundly
<1> QED BY <1>1, <1>2, <1>3, <1>4, <1>5
-----------------------------------------------------------------------------
(* Steps that leave a part as it is.                                         *)

\* An endpoint, its name, and what is known of them.
LEMMA EndpointFacts ==
    ASSUME IndInv, NEW n \in Nodes, NEW x \in DOMAIN endpoints[n]
    PROVE  /\ x \in Given(names) /\ x \in Names /\ EndOf(x) \in Ends
           /\ endpoints[n][x] \in SoundEndpoints(endpoints, names, n, x)
<1>1. x \in Given(names) /\ endpoints[n][x] \in SoundEndpoints(endpoints, names, n, x)
  BY DEF IndInv, EndpointsSound
<1>2. x \in Names
  BY <1>1 DEF Given
<1> QED BY <1>1, <1>2, EndsFit

\* The same names: the tables need only grow.
LEMMA GrowsAlone ==
    ASSUME IndInv, NEW E2, \A n \in Nodes : DOMAIN endpoints[n] \subseteq DOMAIN E2[n]
    PROVE  Grows(endpoints, names, E2, names)
<1>1. names \in [Ends -> Nat]
  BY DEF IndInv, NamesSound
<1>2. \A e \in Ends : names[e] <= names[e]
  BY <1>1
<1> QED BY <1>1, <1>2 DEF Grows

\* No new channel, no new invitation.
LEMMA SteadyAlone ==
    ASSUME NEW C, NEW P
    PROVE  Steady(C, P, C, P)
BY DEF Steady

\* The same endpoints.
LEMMA EndpointsAlone ==
    ASSUME IndInv, NEW N2, NEW W2
    PROVE  EndpointsStep(endpoints, endpoints, N2, W2)
BY DEF IndInv, EndpointsSound, EndpointsStep

\* The same messages on the wires.
LEMMA WiresAlone ==
    ASSUME IndInv, NEW E2, NEW N2, NEW C2, NEW P2
    PROVE  WiresStep(E2, N2, C2, P2, wire, wire)
BY DEF IndInv, WiresSound, WiresStep, WireSteps

\* The same calls.
LEMMA CallsAlone ==
    ASSUME IndInv, NEW E2, NEW N2, NEW W2
    PROVE  CallsStep(E2, N2, W2, call, call)
BY DEF IndInv, CallsSound, CallsStep

\* The same tasks.
LEMMA TasksAlone ==
    ASSUME IndInv, NEW E2, NEW N2
    PROVE  TasksStep(E2, N2, tasks, tasks)
BY DEF IndInv, TasksSound, TasksStep

\* The same handles.
LEMMA HeldAlone ==
    ASSUME IndInv, NEW E2
    PROVE  HeldStep(E2, held, held)
BY DEF IndInv, HeldSound, HeldStep

\* One call changes.
LEMMA CallsOne ==
    ASSUME IndInv, NEW E2, NEW N2, NEW W2, NEW n \in Nodes, NEW t \in AllThreads,
           NEW c \in Calls(E2, N2, W2, n)
    PROVE  CallsStep(E2, N2, W2, call, [call EXCEPT ![n][t] = c])
BY DEF IndInv, CallsSound, CallsStep

\* One thread is given tasks.
LEMMA TasksOne ==
    ASSUME IndInv, NEW E2, NEW N2, NEW n \in Nodes, NEW t \in Threads,
           NEW s \in Seq(Tasks(E2, N2, n))
    PROVE  TasksStep(E2, N2, tasks, [tasks EXCEPT ![n][t] = @ \o s])
BY DEF IndInv, TasksSound, TasksStep

\* One message is written to one wire.
LEMMA WiresWrite ==
    ASSUME IndInv, NEW E2, NEW N2, NEW C2, NEW P2, NEW m \in Nodes, NEW n \in Nodes,
           NEW msg \in Traffic(E2, N2, C2, P2, m, n),
           msg.type = "USER" => Leads(wire[m][n], DOMAIN E2[n], msg.target)
    PROVE  WiresStep(E2, N2, C2, P2, wire, [wire EXCEPT ![m][n] = Append(@, msg)])
BY DEF IndInv, WiresSound, WiresStep, WireSteps

\* One message is read from one wire.
LEMMA WiresRead ==
    ASSUME IndInv, NEW E2, NEW N2, NEW C2, NEW P2, NEW m \in Nodes, NEW n \in Nodes,
           wire[m][n] # << >>,
           \A y : Carries(Head(wire[m][n]), y) => y \in DOMAIN E2[n]
    PROVE  WiresStep(E2, N2, C2, P2, wire, [wire EXCEPT ![m][n] = Tail(@)])
BY DEF IndInv, WiresSound, WiresStep, WireSteps

\* One message is read from one wire, and one is written to another.
LEMMA WiresReadWrite ==
    ASSUME IndInv, NEW E2, NEW N2, NEW C2, NEW P2, NEW m \in Nodes, NEW n \in Nodes,
           wire[m][n] # << >>,
           \A y : Carries(Head(wire[m][n]), y) => y \in DOMAIN E2[n],
           NEW k \in Nodes, k # n, NEW msg \in Traffic(E2, N2, C2, P2, n, k),
           msg.type = "USER" => Leads(wire[n][k], DOMAIN E2[k], msg.target)
    PROVE  WiresStep(E2, N2, C2, P2, wire,
               [wire EXCEPT ![m][n] = Tail(@), ![n][k] = Append(@, msg)])
<1> DEFINE W2 == [wire EXCEPT ![m][n] = Tail(@), ![n][k] = Append(@, msg)]
<1>1. DOMAIN wire = Nodes /\ \A a \in Nodes : DOMAIN wire[a] = Nodes
  BY DEF IndInv, WiresSound
<1>2. DOMAIN W2 = Nodes /\ \A a \in Nodes : DOMAIN W2[a] = Nodes
  BY <1>1
<1>3. W2[m][n] = Tail(wire[m][n]) /\ W2[n][k] = Append(wire[n][k], msg)
  BY <1>1
<1>4. \A a, b \in Nodes : <<a, b>> # <<m, n>> /\ <<a, b>> # <<n, k>> => W2[a][b] = wire[a][b]
  BY <1>1
<1> HIDE DEF W2
<1>5. ASSUME NEW a \in Nodes, NEW b \in Nodes
      PROVE WireSteps(wire[a][b], W2[a][b], DOMAIN E2[b], Traffic(E2, N2, C2, P2, a, b))
  <2>1. CASE a = m /\ b = n
    BY <2>1, <1>3 DEF WireSteps
  <2>2. CASE a = n /\ b = k
    BY <2>2, <1>3 DEF WireSteps
  <2>3. CASE ~(a = m /\ b = n) /\ ~(a = n /\ b = k)
    BY <2>3, <1>4 DEF WireSteps
  <2> QED BY <2>1, <2>2, <2>3
<1>6. WiresStep(E2, N2, C2, P2, wire, W2)
  BY <1>2, <1>5 DEF WiresStep
<1> QED BY <1>6 DEF W2

\* One endpoint changes, or there is one more.
LEMMA EndpointsOne ==
    ASSUME IndInv, NEW n \in Nodes, NEW x \in Given(names), NEW ep,
           NEW N2, NEW W2, NEW E2,
           DOMAIN E2 = Nodes, DOMAIN E2[n] = DOMAIN endpoints[n] \cup {x},
           E2[n][x] = ep,
           \A y \in DOMAIN endpoints[n] : y # x => E2[n][y] = endpoints[n][y],
           \A m \in Nodes : m # n => E2[m] = endpoints[m],
           ep \in SoundEndpoints(E2, N2, n, x), x \in Given(N2),
           ep.state = "proxying" => Reaches(E2, W2, n, ep.target)
    PROVE  EndpointsStep(endpoints, E2, N2, W2)
BY DEF EndpointsStep

\* Endpoint x of n becomes ep.
Written(E, n, x, ep) == [E EXCEPT ![n][x] = ep]

\* One endpoint changes.
LEMMA EndpointsWrite ==
    ASSUME IndInv, NEW n \in Nodes, NEW x \in DOMAIN endpoints[n], NEW ep, NEW W2, NEW E2,
           E2 = Written(endpoints, n, x, ep),
           ep \in SoundEndpoints(endpoints, names, n, x),
           ep.state = "proxying" => Reaches(E2, W2, n, ep.target)
    PROVE  /\ Grows(endpoints, names, E2, names)
           /\ EndpointsStep(endpoints, E2, names, W2)
           /\ \A m \in Nodes : DOMAIN E2[m] = DOMAIN endpoints[m]
<1>1. DOMAIN endpoints = Nodes /\ x \in Given(names)
  BY EndpointFacts DEF IndInv, EndpointsSound
<1>2. /\ DOMAIN E2 = Nodes /\ DOMAIN E2[n] = DOMAIN endpoints[n] \cup {x} /\ E2[n][x] = ep
      /\ \A y \in DOMAIN endpoints[n] : y # x => E2[n][y] = endpoints[n][y]
      /\ \A m \in Nodes : m # n => E2[m] = endpoints[m]
  BY <1>1 DEF Written
<1>3. \A m \in Nodes : DOMAIN E2[m] = DOMAIN endpoints[m]
  BY <1>2
<1>4. Grows(endpoints, names, E2, names)
  BY <1>3, GrowsAlone
<1>5. ep \in SoundEndpoints(E2, names, n, x)
  BY <1>4, SoundEndpointsGrow
<1>6. EndpointsStep(endpoints, E2, names, W2)
  BY <1>1, <1>2, <1>5, EndpointsOne
<1> QED BY <1>3, <1>4, <1>6
-----------------------------------------------------------------------------
(* The steps, one by one: what each of them writes is sound.                 *)

\* The parts of IndInv that speak of neither tables nor wires.
RestSound ==
    /\ CountersSound
    /\ NamesSound(names, pipes)
    /\ ChannelsSound(channels)
    /\ PendingSound(channels, pending)
    /\ GotSound(got)

\* A thread runs its front task.
LEMMA RunTaskSound ==
    ASSUME IndInv, NEW n \in Nodes, NEW t \in Threads, RunTask(n, t)
    PROVE  StepsSoundly /\ RestSound'
<1> DEFINE task == Head(tasks[n][t])
<1>1. /\ endpoints' = endpoints /\ names' = names /\ channels' = channels
      /\ pending' = pending /\ wire' = wire /\ call' = call
  BY DEF RunTask
<1>2. task \in Tasks(endpoints, names, n) /\ tasks[n][t] # << >>
  <2>1. tasks[n][t] \in Seq(Tasks(endpoints, names, n)) /\ tasks[n][t] # << >>
    BY DEF IndInv, TasksSound, RunTask
  <2> QED BY <2>1, HeadTailProperties
<1>3. TasksStep(endpoints, names, tasks, tasks')
  <2>1. tasks' = [tasks EXCEPT ![n][t] = Tail(@)]
    BY DEF RunTask
  <2> QED BY <2>1, <1>2 DEF IndInv, TasksSound, TasksStep
<1>4. HeldStep(endpoints, held, held')
  <2>1. CASE task.op = "message" /\ held' = [held EXCEPT ![n] = @ \cup ToSet(task.msg.pipes)]
    <3>1. ToSet(task.msg.pipes) \subseteq DOMAIN endpoints[n]
      BY <1>2, <2>1 DEF Tasks, QueuedMail
    <3> QED BY <2>1, <3>1 DEF HeldStep, IndInv, HeldSound
  <2>2. CASE task.op = "joined" /\ held' = [held EXCEPT ![n] = @ \cup {task.ep}]
    <3>1. task.ep \in DOMAIN endpoints[n]
      BY <1>2, <2>2 DEF Tasks
    <3> QED BY <2>2, <3>1 DEF HeldStep, IndInv, HeldSound
  <2>3. CASE held' = held
    BY <2>3, HeldAlone
  <2> QED BY <2>1, <2>2, <2>3 DEF RunTask
<1>5. GotSound(got')
  <2>1. CASE got' = got
    BY <2>1 DEF IndInv
  <2>2. CASE task.op = "message" /\ got' = [got EXCEPT ![EndOf(task.ep)] = Append(@, task.msg.id)]
    <3> DEFINE e == EndOf(task.ep)
               i == task.msg.id
    <3>1. task.ep \in DOMAIN endpoints[n] /\ i \in SentTo(e)
      BY <1>2, <2>2 DEF Tasks, QueuedMail, Mail, SentTo
    <3>2. e \in Ends
      BY <3>1, EndpointFacts
    <3>3. DOMAIN got = Ends /\ \A f \in Ends : got[f] \in Seq(SentTo(f))
      BY DEF IndInv, GotSound
    <3> HIDE DEF e, i
    <3>4. got' = [got EXCEPT ![e] = Append(@, i)]
      BY <2>2 DEF e, i
    <3>5. Append(got[e], i) \in Seq(SentTo(e))
      BY <3>1, <3>2, <3>3
    <3> QED BY <3>2, <3>3, <3>4, <3>5 DEF GotSound
  <2> QED BY <2>1, <2>2 DEF RunTask
<1>6. CountersSound'
  <2>1. told' \in [Nodes -> SUBSET Nodes]
    <3>1. CASE told' = told
      BY <3>1 DEF IndInv, CountersSound
    <3>2. CASE task.op = "accepted" /\ told' = [told EXCEPT ![n] = @ \cup {task.node}]
      <4>1. task.node \in Nodes
        BY <1>2, <3>2 DEF Tasks
      <4> QED BY <3>2, <4>1 DEF IndInv, CountersSound
    <3> QED BY <3>1, <3>2 DEF RunTask
  <2> QED BY <2>1 DEF IndInv, CountersSound, RunTask
<1>7. StepsSoundly
  <2>1. Grows(endpoints, names, endpoints, names)
    BY GrowsAlone
  <2> QED BY <1>1, <1>3, <1>4, <2>1, SteadyAlone, EndpointsAlone, WiresAlone, CallsAlone
          DEF StepsSoundly
<1>8. NamesSound(names', pipes')
  BY DEF RunTask, IndInv
<1> QED BY <1>1, <1>5, <1>6, <1>7, <1>8 DEF IndInv, RestSound

\* A call ends.
LEMMA FlushDoneSound ==
    ASSUME IndInv, NEW n \in Nodes, NEW t \in AllThreads, FlushDone(n, t)
    PROVE  StepsSoundly /\ RestSound'
<1>1. /\ endpoints' = endpoints /\ names' = names /\ channels' = channels
      /\ pending' = pending /\ wire' = wire /\ pipes' = pipes
      /\ joined' = joined /\ held' = held /\ moves' = moves /\ carriers' = carriers
      /\ told' = told /\ sent' = sent /\ got' = got
  BY DEF FlushDone, appVars
<1>2. CallsStep(endpoints, names, wire, call, call')
  <2>1. Idle \in Calls(endpoints, names, wire, n)
    BY EmptySeq DEF Idle, Calls
  <2>2. call' = [call EXCEPT ![n][t] = Idle]
    BY DEF FlushDone
  <2> QED BY <2>1, <2>2, CallsOne
<1>3. /\ TasksStep(endpoints, names, tasks, tasks')
      /\ acceptCallback' \in [Nodes -> Nodes \cup {NoOne}]
  <2>0. acceptCallback \in [Nodes -> Nodes \cup {NoOne}]
    BY DEF IndInv, CountersSound
  <2>1. CASE tasks' = tasks /\ acceptCallback' = acceptCallback
    BY <2>0, <2>1, TasksAlone
  <2>2. CASE acceptCallback[n] # NoOne /\ Report(n)
    <3> DEFINE task == [op |-> "accepted", node |-> acceptCallback[n]]
    <3>1. task \in Tasks(endpoints, names, n)
      BY <2>0, <2>2 DEF Tasks
    <3>2. DOMAIN tasks = Nodes /\ DOMAIN tasks[n] = Threads
          /\ tasks[n][Origin] \in Seq(Tasks(endpoints, names, n))
      BY ThreadsAssumption DEF IndInv, TasksSound
    <3>3. tasks' = [tasks EXCEPT ![n][Origin] = Append(@, task)]
      BY <2>2 DEF Report
    <3> HIDE DEF task
    <3>4. <<task>> \in Seq(Tasks(endpoints, names, n))
          /\ Append(tasks[n][Origin], task) = tasks[n][Origin] \o <<task>>
      BY <3>1, <3>2, AppendIsConcat
    <3>5. tasks' = [tasks EXCEPT ![n][Origin] = @ \o <<task>>]
      BY <3>2, <3>3, <3>4
    <3>6. TasksStep(endpoints, names, tasks, tasks')
      BY <3>4, <3>5, TasksOne, ThreadsAssumption
    <3>7. acceptCallback' = [acceptCallback EXCEPT ![n] = NoOne]
      BY <2>2 DEF Report
    <3> QED BY <2>0, <3>6, <3>7
  <2> QED BY <2>1, <2>2 DEF FlushDone, Report
<1>4. StepsSoundly
  <2>1. Grows(endpoints, names, endpoints, names)
    BY GrowsAlone
  <2> QED BY <1>1, <1>2, <1>3, <2>1, SteadyAlone, EndpointsAlone, WiresAlone, HeldAlone
          DEF StepsSoundly
<1> QED BY <1>1, <1>3, <1>4 DEF IndInv, RestSound, CountersSound

\* What is queued on an endpoint makes tasks for its receiver.
LEMMA TasksForSound ==
    ASSUME NEW E, NEW N, NEW n \in Nodes, NEW x \in DOMAIN E[n],
           NEW q \in Seq(QueuedMail(E, N, n, EndOf(x)))
    PROVE  TasksFor(x, q) \in Seq(Tasks(E, N, n))
<1> DEFINE S == QueuedMail(E, N, n, EndOf(x))
<1>1. \A msg \in S : [op |-> "message", ep |-> x, msg |-> msg] \in Tasks(E, N, n)
  BY DEF Tasks, QueuedMail
<1> HIDE DEF S
<1>2. q \in Seq(S)
  BY DEF S
<1> QED BY <1>1, <1>2 DEF TasksFor

\* A receiver is bound.
LEMMA BindSound ==
    ASSUME IndInv, NEW n \in Nodes, NEW t \in Threads, NEW x \in held[n], Bind(n, t, x)
    PROVE  StepsSoundly /\ RestSound'
<1> DEFINE ep == endpoints[n][x]
           new == [ep EXCEPT !.state = "bound", !.runner = t, !.queue = << >>]
<1>1. /\ names' = names /\ channels' = channels /\ pending' = pending /\ wire' = wire
      /\ call' = call /\ pipes' = pipes /\ joined' = joined /\ held' = held
      /\ moves' = moves /\ carriers' = carriers /\ told' = told /\ sent' = sent
      /\ got' = got /\ acceptCallback' = acceptCallback
  BY DEF Bind, appVars
<1>2. x \in DOMAIN endpoints[n]
  BY DEF IndInv, HeldSound
<1>3. x \in Given(names) /\ ep \in SoundEndpoints(endpoints, names, n, x)
  BY <1>2, EndpointFacts
<1>4. DOMAIN endpoints = Nodes
  BY DEF IndInv, EndpointsSound
<1>5. endpoints' = Written(endpoints, n, x, new)
  BY <1>2, <1>4 DEF Bind, Written
<1>6. new \in SoundEndpoints(endpoints, names, n, x) /\ new.state # "proxying"
  BY <1>3, EmptySeq DEF SoundEndpoints
<1>7. /\ Grows(endpoints, names, endpoints', names)
      /\ EndpointsStep(endpoints, endpoints', names, wire)
      /\ \A m \in Nodes : DOMAIN endpoints'[m] = DOMAIN endpoints[m]
  <2> HIDE DEF new, ep
  <2>1. new.state = "proxying" => Reaches(endpoints', wire, n, new.target)
    BY <1>6
  <2> QED BY <1>2, <1>5, <1>6, <2>1, EndpointsWrite
<1>11. TasksStep(endpoints', names, tasks, tasks')
  <2> DEFINE s == TasksFor(x, ep.queue)
  <2>1. ep.queue \in Seq(QueuedMail(endpoints, names, n, EndOf(x)))
    BY <1>3 DEF SoundEndpoints
  <2>2. ep.queue \in Seq(QueuedMail(endpoints', names, n, EndOf(x)))
    BY <2>1, <1>7, QueuedMailGrows, SeqMonotonic
  <2>3. s \in Seq(Tasks(endpoints', names, n))
    BY <1>2, <1>7, <2>2, TasksForSound
  <2>4. tasks' = [tasks EXCEPT ![n][t] = @ \o s]
    BY DEF Bind
  <2> HIDE DEF s
  <2> QED BY <2>3, <2>4, TasksOne
<1>12. StepsSoundly
  BY <1>1, <1>7, <1>11, SteadyAlone, WiresAlone, CallsAlone, HeldAlone
     DEF StepsSoundly
<1> QED BY <1>1, <1>12 DEF IndInv, RestSound, CountersSound
-----------------------------------------------------------------------------
(* Pipes and invitations.                                                    *)

\* A temporary name says whom it is for.
LEMMA TemporaryFacts ==
    /\ \A m, k : Temporary(m) = Temporary(k) => m = k
    /\ \A m \in Nodes : Temporary(m) \in Keys /\ Temporary(m) \notin Nodes
                        /\ Temporary(m) # InitialChannel
<1>1. \A m, k : Temporary(m) = Temporary(k) => m = k
  BY DEF Temporary
<1>2. \A m \in Nodes : Temporary(m) \notin Nodes /\ Temporary(m) # InitialChannel
  BY NodesAssumption
<1>3. \A m \in Nodes : Temporary(m) \in Keys
  BY DEF Keys
<1> QED BY <1>1, <1>2, <1>3

\* No node invites itself.
LEMMA InvitationFacts ==
    ASSUME NEW n, NEW m, <<n, m>> \in Invitations
    PROVE  /\ n \in Nodes /\ m \in Nodes /\ n # m
           /\ \A k : <<k, m>> \in Invitations => k = n
<1>1. <<n, m>> \in Nodes \X Nodes
  BY NodesAssumption
<1>2. <<n, m>>[1] # <<n, m>>[2]
  BY NodesAssumption
<1>3. ASSUME NEW k, <<k, m>> \in Invitations PROVE k = n
  <2>1. <<k, m>>[2] = <<n, m>>[2] => <<k, m>> = <<n, m>>
    BY <1>3, NodesAssumption
  <2> QED BY <2>1
<1> QED BY <1>1, <1>2, <1>3

\* The two endpoints of a new pipe.
LEMMA CreatePipeSound ==
    ASSUME IndInv, NEW n \in Nodes, CreatePipe(n), NEW W2
    PROVE  /\ Grows(endpoints, names, endpoints', names')
           /\ EndpointsStep(endpoints, endpoints', names', W2)
           /\ NamesSound(names', pipes')
           /\ pipes' \in 1..MaxPipes
           /\ \A s \in {1, 2} : /\ <<pipes', s, 0>> \in DOMAIN endpoints'[n] \cap Names
                                /\ names'[<<pipes', s>>] = 1
<1> DEFINE p == pipes'
           pair == Entangled(n, p)
<1>1. p \in 1..MaxPipes /\ p = pipes + 1 /\ pipes \in Nat
  <2>1. MaxPipes \in Nat /\ pipes \in 0..MaxPipes
    BY BoundsAssumption DEF IndInv, CountersSound
  <2> QED BY <2>1 DEF CreatePipe
<1>2. DOMAIN endpoints = Nodes /\ names \in [Ends -> Nat]
      /\ \A e \in Ends : e[1] > pipes => names[e] = 0
  BY DEF IndInv, EndpointsSound, NamesSound
<1>3. /\ endpoints' = [endpoints EXCEPT ![n] = InsertAll(@, pair)]
      /\ names' = [names EXCEPT ![<<p, 1>>] = 1, ![<<p, 2>>] = 1]
  BY <1>1 DEF CreatePipe
<1>4. DOMAIN pair = {<<p, 1, 0>>, <<p, 2, 0>>}
      /\ \A s \in {1, 2} : pair[<<p, s, 0>>] = NewEndpoint(Address(n, <<p, 3 - s, 0>>))
  BY DEF Entangled
<1> HIDE DEF p, pair
<1>5. /\ DOMAIN endpoints' = Nodes
      /\ \A m \in Nodes : m # n => endpoints'[m] = endpoints[m]
      /\ DOMAIN endpoints'[n] = DOMAIN endpoints[n] \cup {<<p, 1, 0>>, <<p, 2, 0>>}
      /\ \A x \in DOMAIN endpoints[n] : endpoints'[n][x] = endpoints[n][x]
      /\ \A x \in DOMAIN pair \ DOMAIN endpoints[n] : endpoints'[n][x] = pair[x]
  BY <1>2, <1>3, <1>4 DEF InsertAll
<1>6. /\ names' \in [Ends -> Nat]
      /\ \A s \in {1, 2} : <<p, s>> \in Ends /\ names'[<<p, s>>] = 1
      /\ \A e \in Ends : e[1] # p => names'[e] = names[e]
      /\ \A e \in Ends : e[1] = p => names[e] = 0
  <2>1. <<p, 1>> \in Ends /\ <<p, 2>> \in Ends /\ <<p, 1>> # <<p, 2>>
    BY <1>1 DEF Ends
  <2>2. \A e \in Ends : e[1] # p => e # <<p, 1>> /\ e # <<p, 2>>
    OBVIOUS
  <2>3. \A e \in Ends : e[1] = p => names[e] = 0
    BY <1>1, <1>2
  <2> QED BY <1>2, <1>3, <2>1, <2>2, <2>3
<1>7. \A e \in Ends : names[e] <= names'[e]
  BY <1>2, <1>6
<1>8. Grows(endpoints, names, endpoints', names')
  BY <1>2, <1>5, <1>6, <1>7 DEF Grows
<1>9. \A s \in {1, 2} : <<p, s, 0>> \in DOMAIN endpoints'[n] \cap Names
  BY <1>1, <1>5 DEF Names
<1>10. ASSUME NEW s \in {1, 2}
       PROVE  /\ <<p, s, 0>> \in Given(names')
              /\ pair[<<p, s, 0>>] \in SoundEndpoints(endpoints', names', n, <<p, s, 0>>)
              /\ pair[<<p, s, 0>>].state # "proxying"
  <2> DEFINE x == <<p, s, 0>>
             y == <<p, 3 - s, 0>>
  <2>1. EndOf(x) = <<p, s>> /\ EndOf(y) = <<p, 3 - s>> /\ Partner(EndOf(x)) = <<p, 3 - s>>
    BY DEF EndOf, Partner
  <2>2. x \in Given(names')
    <3>1. x[3] = 0 /\ names'[EndOf(x)] = 1
      BY <1>6, <2>1
    <3> QED BY <1>9, <3>1 DEF Given
  <2>3. y \in DOMAIN endpoints'[n] \cap Names
    <3>1. 3 - s \in {1, 2}
      OBVIOUS
    <3> QED BY <1>9, <3>1
  <2>4. Address(n, y) \in Peers(endpoints', EndOf(x))
    BY <2>1, <2>3 DEF Peers, Addresses, Address
  <2>5. NewEndpoint(Address(n, y)) \in SoundEndpoints(endpoints', names', n, x)
    BY <2>4, EmptySeq DEF NewEndpoint, SoundEndpoints
  <2>6. NewEndpoint(Address(n, y)).state # "proxying"
    BY DEF NewEndpoint
  <2> QED BY <1>4, <2>2, <2>5, <2>6
<1>11. EndpointsStep(endpoints, endpoints', names', W2)
  <2> SUFFICES ASSUME NEW m \in Nodes, NEW x \in DOMAIN endpoints'[m],
                      ~(x \in DOMAIN endpoints[m] /\ endpoints'[m][x] = endpoints[m][x])
               PROVE  /\ x \in Given(names')
                      /\ endpoints'[m][x] \in SoundEndpoints(endpoints', names', m, x)
                      /\ endpoints'[m][x].state # "proxying"
    BY <1>5 DEF EndpointsStep
  <2>1. m = n /\ x \notin DOMAIN endpoints[n]
    BY <1>5
  <2>2. PICK s \in {1, 2} : x = <<p, s, 0>>
    BY <1>5, <2>1
  <2>3. endpoints'[n][x] = pair[x]
    BY <1>4, <1>5, <2>1, <2>2
  <2> QED BY <1>10, <2>1, <2>2, <2>3
<1>12. NamesSound(names', p)
  <2>1. \A e \in Ends : e[1] > p => e[1] > pipes /\ e[1] # p
    BY <1>1 DEF Ends
  <2> QED BY <1>2, <1>6, <2>1 DEF NamesSound
<1> QED BY <1>1, <1>6, <1>8, <1>9, <1>11, <1>12 DEF p

\* The application creates a pipe.
LEMMA CreateMessagePipesSound ==
    ASSUME IndInv, NEW n \in Nodes, NEW t \in Threads, CreateMessagePipes(n, t)
    PROVE  StepsSoundly /\ RestSound'
<1>1. /\ channels' = channels /\ pending' = pending /\ wire' = wire /\ call' = call
      /\ tasks' = tasks /\ joined' = joined /\ acceptCallback' = acceptCallback
      /\ moves' = moves /\ carriers' = carriers /\ told' = told /\ sent' = sent
      /\ got' = got
  BY DEF CreateMessagePipes
<1>2. /\ Grows(endpoints, names, endpoints', names')
      /\ EndpointsStep(endpoints, endpoints', names', wire)
      /\ NamesSound(names', pipes')
      /\ pipes' \in 1..MaxPipes
      /\ \A s \in {1, 2} : <<pipes', s, 0>> \in DOMAIN endpoints'[n]
  <2>1. CreatePipe(n)
    BY DEF CreateMessagePipes
  <2> QED BY <2>1, CreatePipeSound
<1>3. HeldStep(endpoints', held, held')
  <2>1. held' = [held EXCEPT ![n] = @ \cup {<<pipes', 1, 0>>, <<pipes', 2, 0>>}]
    BY DEF CreateMessagePipes
  <2> QED BY <1>2, <2>1 DEF HeldStep, IndInv, HeldSound
<1>4. StepsSoundly
  BY <1>1, <1>2, <1>3, SteadyAlone, WiresAlone, CallsAlone, TasksAlone DEF StepsSoundly
<1>5. pipes' \in 0..MaxPipes
  BY <1>2
<1> QED BY <1>1, <1>2, <1>4, <1>5 DEF IndInv, RestSound, CountersSound

\* n invites m.
LEMMA SendInvitationSound ==
    ASSUME IndInv, NEW n \in Nodes, NEW t \in Threads, NEW m \in Nodes, SendInvitation(n, t, m)
    PROVE  StepsSoundly /\ RestSound'
<1> DEFINE p == pipes'
           k == Temporary(m)
           msg == [type |-> "INVITE", inviter |-> n, temporary |-> k, peer |-> <<p, 1, 0>>]
<1>1. /\ call' = call /\ tasks' = tasks /\ joined' = joined /\ carriers' = carriers
      /\ told' = told /\ sent' = sent /\ got' = got
  BY DEF SendInvitation
<1>2. /\ Grows(endpoints, names, endpoints', names')
      /\ EndpointsStep(endpoints, endpoints', names', wire')
      /\ NamesSound(names', p) /\ p \in 1..MaxPipes
      /\ \A s \in {1, 2} : /\ <<p, s, 0>> \in DOMAIN endpoints'[n] \cap Names
                           /\ names'[<<p, s>>] = 1
  <2>1. CreatePipe(n)
    BY DEF SendInvitation
  <2> QED BY <2>1, CreatePipeSound
<1>3. /\ <<n, m>> \in Invitations /\ n # m /\ ~Engaged(channels, n, m)
      /\ k \notin DOMAIN channels[n]
  BY InvitationFacts DEF SendInvitation, Engaged
<1>4. k \notin DOMAIN pending[n]
  <2>1. ASSUME k \in DOMAIN pending[n] PROVE FALSE
    <3>1. PICK j \in Nodes : k = Temporary(j) /\ Engaged(channels, n, j)
      BY <2>1 DEF IndInv, PendingSound, PendingOk
    <3>2. j = m
      BY <3>1, TemporaryFacts
    <3> QED BY <1>3, <3>1, <3>2
  <2> QED BY <2>1
<1>5. /\ DOMAIN channels' = Nodes
      /\ \A a \in Nodes : a # n => channels'[a] = channels[a]
      /\ DOMAIN channels'[n] = DOMAIN channels[n] \cup {k}
      /\ channels'[n][k] = m
      /\ \A j \in DOMAIN channels[n] : channels'[n][j] = channels[n][j]
  <2>1. channels' = [channels EXCEPT ![n] = Insert(@, k, m)] /\ DOMAIN channels = Nodes
    BY DEF SendInvitation, IndInv, ChannelsSound
  <2>2. channels'[n] = Insert(channels[n], k, m)
    BY <2>1
  <2>3. DOMAIN channels' = Nodes /\ \A a \in Nodes : a # n => channels'[a] = channels[a]
    BY <2>1
  <2> HIDE DEF k
  <2>4. /\ DOMAIN channels'[n] = DOMAIN channels[n] \cup {k}
        /\ \A j \in DOMAIN channels[n] : channels'[n][j] = channels[n][j]
        /\ k \notin DOMAIN channels[n] => channels'[n][k] = m
    BY <2>2 DEF Insert, InsertAll
  <2> QED BY <1>3, <2>3, <2>4
<1>6. /\ DOMAIN pending' = Nodes
      /\ \A a \in Nodes : a # n => pending'[a] = pending[a]
      /\ DOMAIN pending'[n] = DOMAIN pending[n] \cup {k}
      /\ pending'[n][k] = <<p, 2, 0>>
      /\ \A j \in DOMAIN pending[n] : pending'[n][j] = pending[n][j]
  <2>1. pending' = [pending EXCEPT ![n] = Insert(@, k, <<p, 2, 0>>)] /\ DOMAIN pending = Nodes
    BY DEF SendInvitation, IndInv, PendingSound
  <2>2. pending'[n] = Insert(pending[n], k, <<p, 2, 0>>)
    BY <2>1
  <2>3. DOMAIN pending' = Nodes /\ \A a \in Nodes : a # n => pending'[a] = pending[a]
    BY <2>1
  <2> HIDE DEF k
  <2>4. /\ DOMAIN pending'[n] = DOMAIN pending[n] \cup {k}
        /\ \A j \in DOMAIN pending[n] : pending'[n][j] = pending[n][j]
        /\ k \notin DOMAIN pending[n] => pending'[n][k] = <<p, 2, 0>>
    BY <2>2 DEF Insert, InsertAll
  <2> QED BY <1>4, <2>3, <2>4
<1>7. \A a, b \in Nodes : Engaged(channels, a, b) => Engaged(channels', a, b)
  BY <1>5 DEF Engaged
<1>8. Engaged(channels', n, m)
  BY <1>5 DEF Engaged
<1>9. Steady(channels, pending, channels', pending')
  <2>1. ASSUME NEW a \in Nodes, NEW b \in Nodes, Engaged(channels, a, b),
               Temporary(b) \in DOMAIN pending'[a]
        PROVE  /\ Temporary(b) \in DOMAIN pending[a]
               /\ pending'[a][Temporary(b)] = pending[a][Temporary(b)]
    <3>1. a = n => Temporary(b) # k
      BY <1>3, <2>1, TemporaryFacts
    <3> HIDE DEF k
    <3> QED BY <1>6, <2>1, <3>1
  <2> QED BY <1>7, <2>1 DEF Steady
<1>10. WiresStep(endpoints', names', channels', pending', wire, wire')
  <2>1. EndOf(<<p, 1, 0>>) = <<p, 1>> /\ Partner(<<p, 1>>) = <<p, 2>>
        /\ EndOf(<<p, 2, 0>>) = <<p, 2>>
    BY DEF EndOf, Partner
  <2>2. PendingFor(pending', n, m, <<p, 2>>)
    BY <1>6, <2>1 DEF PendingFor
  <2>3. names'[<<p, 2>>] > 0
    BY <1>2
  <2>4. msg \in Invites(endpoints', names', channels', pending', n, m)
    BY <1>2, <1>3, <1>8, <2>1, <2>2, <2>3 DEF Invites
  <2>5. msg \in Traffic(endpoints', names', channels', pending', n, m)
    BY <2>4 DEF Traffic
  <2>6. wire' = [wire EXCEPT ![n][m] = Append(@, msg)]
    BY DEF SendInvitation
  <2>7. msg.type # "USER"
    OBVIOUS
  <2> HIDE DEF msg
  <2> QED BY <2>5, <2>6, <2>7, WiresWrite
<1>11. HeldStep(endpoints', held, held')
  <2>1. held' = [held EXCEPT ![n] = @ \cup {<<p, 1, 0>>}]
    BY DEF SendInvitation
  <2> QED BY <1>2, <2>1 DEF HeldStep, IndInv, HeldSound
<1>12. StepsSoundly
  BY <1>1, <1>2, <1>9, <1>10, <1>11, CallsAlone, TasksAlone DEF StepsSoundly
<1>13. ChannelsSound(channels')
  <2>1. ASSUME NEW a \in Nodes, NEW j \in DOMAIN channels'[a]
        PROVE  ChannelOk(a, j, channels'[a][j])
    <3>1. CASE a = n /\ j = k
      <4>1. /\ channels'[a][j] = m /\ j \in Keys /\ j \notin Nodes /\ j # InitialChannel
            /\ \A b \in Nodes : j = Temporary(b) => m = b
        BY <1>5, <3>1, TemporaryFacts
      <4> QED BY <1>3, <3>1, <4>1 DEF ChannelOk
    <3>2. CASE ~(a = n /\ j = k)
      <4>1. j \in DOMAIN channels[a] /\ channels'[a][j] = channels[a][j]
        BY <1>5, <3>2
      <4> QED BY <4>1 DEF IndInv, ChannelsSound
    <3> QED BY <3>1, <3>2
  <2> QED BY <1>5, <2>1 DEF ChannelsSound
<1>14. PendingSound(channels', pending')
  <2>1. ASSUME NEW a \in Nodes, NEW j \in DOMAIN pending'[a]
        PROVE  PendingOk(channels', a, j, pending'[a][j])
    <3>1. CASE a = n /\ j = k
      <4>1. pending'[a][j] \in Names /\ pending'[a][j][3] = 0
        BY <1>2, <1>6, <3>1
      <4> QED BY <1>8, <3>1, <4>1 DEF PendingOk
    <3>2. CASE ~(a = n /\ j = k)
      <4>1. j \in DOMAIN pending[a] /\ pending'[a][j] = pending[a][j]
        BY <1>6, <3>2
      <4>2. PendingOk(channels, a, j, pending[a][j])
        BY <4>1 DEF IndInv, PendingSound
      <4> QED BY <1>7, <4>1, <4>2 DEF PendingOk
    <3> QED BY <3>1, <3>2
  <2> QED BY <1>6, <2>1 DEF PendingSound
<1>15. CountersSound'
  <2>1. moves' \in [1..MaxPipes -> Nat]
    <3>1. moves' = [moves EXCEPT ![p] = 1]
      BY DEF SendInvitation
    <3> QED BY <1>2, <3>1 DEF IndInv, CountersSound
  <2>2. acceptCallback' \in [Nodes -> Nodes \cup {NoOne}]
    <3>1. acceptCallback' = [acceptCallback EXCEPT ![n] = m]
      BY DEF SendInvitation
    <3> QED BY <3>1 DEF IndInv, CountersSound
  <2>3. pipes' \in 0..MaxPipes
    BY <1>2
  <2> QED BY <1>1, <2>1, <2>2, <2>3 DEF IndInv, CountersSound
<1> QED BY <1>1, <1>2, <1>12, <1>13, <1>14, <1>15 DEF IndInv, RestSound
\* n accepts an invitation.
LEMMA AcceptInvitationSound ==
    ASSUME IndInv, NEW n \in Nodes, NEW t \in Threads, AcceptInvitation(n, t)
    PROVE  StepsSoundly /\ RestSound'
<1>1. /\ endpoints' = endpoints /\ names' = names /\ pending' = pending
      /\ wire' = wire /\ call' = call /\ tasks' = tasks /\ pipes' = pipes
      /\ acceptCallback' = acceptCallback /\ held' = held /\ moves' = moves
      /\ carriers' = carriers /\ told' = told /\ sent' = sent /\ got' = got
  BY DEF AcceptInvitation, appVars
<1>2. PICK m : /\ <<m, n>> \in Invitations
               /\ channels' = [channels EXCEPT ![n] = Insert(@, InitialChannel, m)]
  <2>1. PICK i \in Invitations : /\ i[2] = n
             /\ channels' = [channels EXCEPT ![n] = Insert(@, InitialChannel, i[1])]
    BY DEF AcceptInvitation
  <2>2. i = <<i[1], n>>
    BY <2>1, NodesAssumption
  <2> QED BY <2>1, <2>2
<1>3. m \in Nodes /\ m # n
  BY <1>2, InvitationFacts
<1>4. /\ DOMAIN channels' = Nodes
      /\ \A a \in Nodes : a # n => channels'[a] = channels[a]
      /\ DOMAIN channels'[n] = DOMAIN channels[n] \cup {InitialChannel}
      /\ InitialChannel \notin DOMAIN channels[n] => channels'[n][InitialChannel] = m
      /\ \A j \in DOMAIN channels[n] : channels'[n][j] = channels[n][j]
  BY <1>2 DEF IndInv, ChannelsSound, Insert, InsertAll
<1>5. \A a, b \in Nodes : Engaged(channels, a, b) => Engaged(channels', a, b)
  BY <1>4 DEF Engaged
<1>6. Steady(channels, pending, channels', pending)
  BY <1>5 DEF Steady
<1>7. ChannelsSound(channels')
  <2>1. ASSUME NEW a \in Nodes, NEW j \in DOMAIN channels'[a]
        PROVE  ChannelOk(a, j, channels'[a][j])
    <3>1. CASE j \in DOMAIN channels[a]
      <4>1. channels'[a][j] = channels[a][j]
        BY <1>4, <3>1
      <4> QED BY <3>1, <4>1 DEF IndInv, ChannelsSound
    <3>2. CASE j \notin DOMAIN channels[a]
      <4>1. a = n /\ j = InitialChannel /\ channels'[a][j] = m
        BY <1>4, <3>2
      <4>2. InitialChannel \in Keys /\ InitialChannel \notin Nodes
            /\ \A i \in Nodes : InitialChannel # Temporary(i)
        BY NodesAssumption, TemporaryFacts DEF Keys
      <4> QED BY <1>2, <1>3, <4>1, <4>2 DEF ChannelOk
    <3> QED BY <3>1, <3>2
  <2> QED BY <1>4, <2>1 DEF ChannelsSound
<1>8. PendingSound(channels', pending)
  <2>1. ASSUME NEW a \in Nodes, NEW j \in DOMAIN pending[a]
        PROVE  PendingOk(channels', a, j, pending[a][j])
    BY <1>5 DEF IndInv, PendingSound, PendingOk
  <2> QED BY <2>1 DEF IndInv, PendingSound
<1>9. StepsSoundly
  <2>1. Grows(endpoints, names, endpoints, names)
    BY GrowsAlone
  <2> QED BY <1>1, <1>6, <2>1, EndpointsAlone, WiresAlone, CallsAlone, TasksAlone, HeldAlone
          DEF StepsSoundly
<1>10. joined' \subseteq Nodes
  BY DEF AcceptInvitation, IndInv, CountersSound
<1> QED BY <1>1, <1>7, <1>8, <1>9, <1>10 DEF IndInv, RestSound, CountersSound

\* The message n reads from m is fit to be on that wire.
LEMMA ReceivedFacts ==
    ASSUME IndInv, NEW n \in Nodes, NEW m \in Nodes, NEW type, Receives(n, m, type)
    PROVE  /\ wire[m][n] # << >> /\ Head(wire[m][n]).type = type
           /\ Head(wire[m][n]) \in Traffic(endpoints, names, channels, pending, m, n)
<1>1. wire[m][n] # << >> /\ Head(wire[m][n]).type = type
  BY DEF Receives
<1>2. wire[m][n] \in Seq(Traffic(endpoints, names, channels, pending, m, n))
  BY WireIsSeq DEF IndInv
<1> QED BY <1>1, <1>2, HeadTailProperties

\* n is invited by m.
LEMMA OnReceivedInvitationSound ==
    ASSUME IndInv, NEW n \in Nodes, NEW m \in Nodes, OnReceivedInvitation(n, m)
    PROVE  StepsSoundly /\ RestSound'
<1> DEFINE msg == Head(wire[m][n])
           end == Partner(EndOf(msg.peer))
           x   == FreshName(end)
           new == NewEndpoint(Address(m, msg.peer))
           answer == [type |-> "ACCEPT", temporary |-> msg.temporary, node |-> n, ep |-> x]
           task == [op |-> "joined", ep |-> x]
<1>1. /\ pending' = pending /\ call' = call /\ pipes' = pipes /\ joined' = joined
      /\ acceptCallback' = acceptCallback /\ held' = held /\ moves' = moves
      /\ carriers' = carriers /\ told' = told /\ sent' = sent /\ got' = got
  BY DEF OnReceivedInvitation, appVars
<1>2. msg \in Invites(endpoints, names, channels, pending, m, n) /\ wire[m][n] # << >>
      /\ msg.type = "INVITE"
  <2>1. Receives(n, m, "INVITE")
    BY DEF OnReceivedInvitation
  <2>2. msg.type = "INVITE" /\ msg \in Traffic(endpoints, names, channels, pending, m, n)
        /\ wire[m][n] # << >>
    BY <2>1, ReceivedFacts
  <2> QED BY <2>2 DEF Traffic, RoutedMail, Mail, Accepts
<1>3. /\ msg.inviter = m /\ msg.temporary = Temporary(n) /\ msg.peer \in DOMAIN endpoints[m]
      /\ <<m, n>> \in Invitations /\ Engaged(channels, m, n)
      /\ names[end] > 0 /\ PendingFor(pending, m, n, end)
  BY <1>2 DEF Invites
<1>4. m # n /\ \A k : <<k, n>> \in Invitations => k = m
  BY <1>3, InvitationFacts
<1>5. /\ InitialChannel \in DOMAIN channels[n]
      /\ channels' = [channels EXCEPT ![n] = Rename(@, InitialChannel, m)]
      /\ endpoints' = [endpoints EXCEPT ![n] = Insert(@, x, new)]
      /\ names' = [names EXCEPT ![end] = @ + 1]
      /\ wire' = [wire EXCEPT ![m][n] = Tail(@), ![n][m] = Append(@, answer)]
      /\ tasks' = [tasks EXCEPT ![n][Origin] = Append(@, task)]
  BY <1>3 DEF OnReceivedInvitation, NameInviter
<1>6. /\ msg.peer \in Names /\ EndOf(msg.peer) \in Ends /\ end \in Ends
      /\ Partner(end) = EndOf(msg.peer)
  BY <1>3, EndpointFacts, EndsFit
<1>7. DOMAIN endpoints = Nodes /\ names \in [Ends -> Nat]
      /\ \A e \in Ends : e[1] > pipes => names[e] = 0
  BY DEF IndInv, EndpointsSound, NamesSound
<1>8. x \in Names /\ EndOf(x) = end /\ x[3] = names[end]
  <2> HIDE DEF end
  <2> QED BY <1>6, <1>7 DEF FreshName, Ends, Names, EndOf
<1> HIDE DEF msg, end, x, new, answer, task
<1>9. /\ names' \in [Ends -> Nat] /\ names'[end] = names[end] + 1
      /\ \A e \in Ends : names[e] <= names'[e]
      /\ \A e \in Ends : e # end => names'[e] = names[e]
  BY <1>5, <1>6, <1>7
<1>10. x \in Given(names')
  <2>1. x[3] < names'[EndOf(x)]
    BY <1>6, <1>7, <1>8, <1>9
  <2> QED BY <1>8, <2>1 DEF Given
<1>11. x \notin DOMAIN endpoints[n]
  <2>1. ~(x[3] < names[EndOf(x)])
    BY <1>6, <1>7, <1>8
  <2>2. x \notin Given(names)
    BY <2>1 DEF Given
  <2> QED BY <2>2, EndpointFacts
<1>12. /\ DOMAIN endpoints' = Nodes
       /\ \A a \in Nodes : a # n => endpoints'[a] = endpoints[a]
       /\ DOMAIN endpoints'[n] = DOMAIN endpoints[n] \cup {x}
       /\ endpoints'[n][x] = new
       /\ \A y \in DOMAIN endpoints[n] : endpoints'[n][y] = endpoints[n][y]
  BY <1>5, <1>7, <1>11 DEF Insert, InsertAll
<1>13. Grows(endpoints, names, endpoints', names')
  BY <1>7, <1>9, <1>12 DEF Grows
<1>14. new \in SoundEndpoints(endpoints', names', n, x) /\ new.state # "proxying"
  <2>1. Address(m, msg.peer) \in Peers(endpoints', EndOf(x))
    BY <1>3, <1>4, <1>6, <1>8, <1>12 DEF Peers, Addresses, Address
  <2> QED BY <2>1, EmptySeq DEF new, NewEndpoint, SoundEndpoints
<1>15. EndpointsStep(endpoints, endpoints', names', wire')
  BY <1>10, <1>12, <1>14 DEF EndpointsStep
<1>16. /\ DOMAIN channels' = Nodes
       /\ \A a \in Nodes : a # n => channels'[a] = channels[a]
       /\ DOMAIN channels'[n] = (DOMAIN channels[n] \ {InitialChannel}) \cup {m}
       /\ channels'[n][m] = channels[n][InitialChannel]
       /\ \A j \in DOMAIN channels[n] \ {InitialChannel, m} : channels'[n][j] = channels[n][j]
  BY <1>5 DEF IndInv, ChannelsSound, Rename
<1>17. \A a, b \in Nodes : Engaged(channels, a, b) => Engaged(channels', a, b)
  <2>1. \A b \in Nodes : b # InitialChannel /\ Temporary(b) # InitialChannel
    BY NodesAssumption
  <2> QED BY <1>16, <2>1 DEF Engaged
<1>18. Steady(channels, pending, channels', pending)
  BY <1>17 DEF Steady
<1>19. WiresStep(endpoints', names', channels', pending, wire, wire')
  <2>1. Engaged(channels', m, n)
    BY <1>3, <1>17
  <2>2. answer \in Accepts(endpoints', channels', pending, m, n)
    BY <1>3, <1>6, <1>7, <1>8, <1>12, <2>1 DEF answer, Accepts
  <2>3. answer \in Traffic(endpoints', names', channels', pending, n, m)
    BY <2>2 DEF Traffic
  <2>4. answer.type # "USER"
    BY DEF answer
  <2>5. \A y : ~Carries(Head(wire[m][n]), y)
    BY <1>2 DEF Carries, msg
  <2> QED BY <1>2, <1>4, <1>5, <2>3, <2>4, <2>5, WiresReadWrite
<1>20. TasksStep(endpoints', names', tasks, tasks')
  <2>1. task \in Tasks(endpoints', names', n)
    BY <1>12 DEF task, Tasks
  <2>2. DOMAIN tasks = Nodes /\ DOMAIN tasks[n] = Threads
        /\ tasks[n][Origin] \in Seq(Tasks(endpoints, names, n))
    BY ThreadsAssumption DEF IndInv, TasksSound
  <2>3. Append(tasks[n][Origin], task) = tasks[n][Origin] \o <<task>>
    BY <2>2
  <2>4. tasks' = [tasks EXCEPT ![n][Origin] = @ \o <<task>>]
    BY <1>5, <2>2, <2>3
  <2>5. <<task>> \in Seq(Tasks(endpoints', names', n))
    BY <2>1
  <2> QED BY <2>4, <2>5, TasksOne, ThreadsAssumption
<1>21. StepsSoundly
  BY <1>1, <1>13, <1>15, <1>18, <1>19, <1>20, CallsAlone, HeldAlone DEF StepsSoundly
<1>22. ChannelsSound(channels')
  <2>0. channels[n][InitialChannel] = m
    <3>1. ChannelOk(n, InitialChannel, channels[n][InitialChannel])
      BY <1>5 DEF IndInv, ChannelsSound
    <3> QED BY <1>4, <3>1 DEF ChannelOk
  <2>1. ASSUME NEW a \in Nodes, NEW j \in DOMAIN channels'[a]
        PROVE  ChannelOk(a, j, channels'[a][j])
    <3>1. CASE a = n /\ j = m
      <4>1. j \in Keys /\ j # InitialChannel /\ \A i \in Nodes : j # Temporary(i)
        BY <3>1, NodesAssumption, TemporaryFacts DEF Keys
      <4> QED BY <1>4, <1>16, <2>0, <3>1, <4>1 DEF ChannelOk
    <3>2. CASE ~(a = n /\ j = m)
      <4>1. j \in DOMAIN channels[a] /\ channels'[a][j] = channels[a][j]
        BY <1>16, <3>2
      <4> QED BY <4>1 DEF IndInv, ChannelsSound
    <3> QED BY <3>1, <3>2
  <2> QED BY <1>16, <2>1 DEF ChannelsSound
<1>23. PendingSound(channels', pending)
  <2>1. ASSUME NEW a \in Nodes, NEW j \in DOMAIN pending[a]
        PROVE  PendingOk(channels', a, j, pending[a][j])
    BY <1>17 DEF IndInv, PendingSound, PendingOk
  <2> QED BY <2>1 DEF IndInv, PendingSound
<1>24. NamesSound(names', pipes)
  <2>1. ~(end[1] > pipes)
    BY <1>3, <1>6, <1>7
  <2> QED BY <1>7, <1>9, <2>1 DEF NamesSound
<1> QED BY <1>1, <1>21, <1>22, <1>23, <1>24 DEF IndInv, RestSound, CountersSound
-----------------------------------------------------------------------------
(* Messages that wait are sent on.                                           *)

\* What waits for an end can be sent to a later stage y of it, once that can
\* be reached.
LEMMA RetargetSound ==
    ASSUME NEW E, NEW N, NEW W, NEW n \in Nodes, NEW dest, NEW e \in Ends,
           NEW y \in Names, EndOf(y) = e, Reaches(E, W, n, Address(dest, y)),
           NEW q \in Seq(QueuedMail(E, N, n, e))
    PROVE  Retarget(q, y) \in Seq(Outgoing(E, N, W, n, dest))
<1> DEFINE S == QueuedMail(E, N, n, e)
           S2 == Outgoing(E, N, W, n, dest)
<1>1. ASSUME NEW msg \in S PROVE [msg EXCEPT !.target = y] \in S2
  <2> DEFINE msg2 == [msg EXCEPT !.target = y]
  <2>1. msg \in Mail(E, N) /\ EndOf(msg.id) = Partner(e)
    BY DEF QueuedMail
  <2>2. msg2 \in Mail(E, N) /\ msg2.target = y /\ msg2.id = msg.id
    BY <2>1 DEF Mail
  <2>3. EndOf(msg2.target) = Partner(EndOf(msg2.id))
    BY <2>1, <2>2, EndsFit
  <2>4. msg2 \in S2
    <3> HIDE DEF msg2
    <3> QED BY <2>2, <2>3 DEF RoutedMail, Outgoing
  <2> QED BY <2>4
<1> HIDE DEF S, S2
<1>2. q \in Seq(S)
  BY DEF S
<1>3. Retarget(q, y) \in Seq(S2)
  BY <1>1, <1>2 DEF Retarget
<1> QED BY <1>3 DEF S2

\* A call that has messages to another node.
LEMMA CallFacts ==
    ASSUME NEW E, NEW N, NEW W, NEW n \in Nodes, NEW dest \in Nodes \ {n},
           NEW c, c.op \in {"idle", "send", "accept"}, c.via \in Names \cup {NoOne},
           c.lock \in Names \cup {NoOne}, c.dest = dest,
           c.msgs \in Seq(Outgoing(E, N, W, n, dest)),
           c = [op |-> c.op, via |-> c.via, lock |-> c.lock, dest |-> c.dest, msgs |-> c.msgs]
    PROVE  c \in Calls(E, N, W, n)
<1>1. Outgoing(E, N, W, n, dest) \subseteq RoutedMail(E, N)
  BY DEF Outgoing
<1>2. c.msgs \in Seq(RoutedMail(E, N))
  BY <1>1, SeqMonotonic
<1> QED BY <1>2 DEF Calls

\* The answer to an invitation arrives: what was queued for the invitee goes
\* after it.
LEMMA OnReceivedAcceptInvitationSound ==
    ASSUME IndInv, NEW n \in Nodes, NEW m \in Nodes, OnReceivedAcceptInvitation(n, m)
    PROVE  StepsSoundly /\ RestSound'
<1> DEFINE msg == Head(wire[m][n])
           k   == Temporary(m)
           x   == pending[n][k]
           ep  == endpoints[n][x]
           new == Proxying(ep, Address(m, msg.ep))
           c   == FlushReserved(n, x, m, msg.ep)
<1>1. /\ names' = names /\ pipes' = pipes /\ joined' = joined /\ tasks' = tasks
      /\ acceptCallback' = acceptCallback /\ held' = held /\ moves' = moves
      /\ carriers' = carriers /\ told' = told /\ sent' = sent /\ got' = got
  BY DEF OnReceivedAcceptInvitation, appVars
<1>2. msg \in Accepts(endpoints, channels, pending, n, m) /\ wire[m][n] # << >>
      /\ msg.type = "ACCEPT"
  <2>1. Receives(n, m, "ACCEPT")
    BY DEF OnReceivedAcceptInvitation
  <2>2. msg.type = "ACCEPT" /\ msg \in Traffic(endpoints, names, channels, pending, m, n)
        /\ wire[m][n] # << >>
    BY <2>1, ReceivedFacts
  <2> QED BY <2>2 DEF Traffic, RoutedMail, Mail, Invites
<1>3. /\ msg.node = m /\ msg.temporary = k /\ msg.ep \in DOMAIN endpoints[m]
      /\ <<n, m>> \in Invitations /\ msg.ep[3] > 0
      /\ PendingFor(pending, n, m, EndOf(msg.ep))
  BY <1>2 DEF Accepts
<1>4. n # m
  BY <1>3, InvitationFacts
<1>5. /\ k \in DOMAIN pending[n] /\ x \in DOMAIN endpoints[n] /\ k \in DOMAIN channels[n]
      /\ pending' = [pending EXCEPT ![n] = Restrict(@, DOMAIN @ \ {k})]
      /\ endpoints' = [endpoints EXCEPT ![n][x] = new]
      /\ channels' = [channels EXCEPT ![n] = Rename(@, k, m)]
      /\ call' = [call EXCEPT ![n][IO] = c]
      /\ wire' = [wire EXCEPT ![m][n] = Tail(@)]
  <2> HIDE DEF k
  <2> QED BY <1>3 DEF OnReceivedAcceptInvitation, Local
<1>6. /\ EndOf(x) = EndOf(msg.ep) /\ x[3] = 0 /\ x \in Names /\ msg.ep \in Names
      /\ EndOf(x) \in Ends /\ ep \in SoundEndpoints(endpoints, names, n, x)
  <2>1. PendingOk(channels, n, k, x)
    BY <1>5 DEF IndInv, PendingSound
  <2>2. x[3] = 0
    BY <2>1 DEF PendingOk
  <2>3. EndOf(x) = EndOf(msg.ep)
    BY <1>3, <1>5 DEF PendingFor
  <2>4. msg.ep \in Names
    BY <1>3, EndpointFacts
  <2> QED BY <1>5, <2>2, <2>3, <2>4, EndpointFacts
<1> HIDE DEF msg, k, x, ep, new, c
<1>7. new \in SoundEndpoints(endpoints, names, n, x) /\ new.target = Address(m, msg.ep)
  <2>1. Address(m, msg.ep) \in Onward(n, x)
    BY <1>3, <1>4, <1>6 DEF Address, Addresses, Onward
  <2> QED BY <1>6, <2>1, EmptySeq DEF new, Proxying, SoundEndpoints, Onward
<1>8. Written(endpoints, n, x, new) = endpoints'
  BY <1>5 DEF Written
<1>9. Reaches(endpoints', wire', n, Address(m, msg.ep))
  <2>1. msg.ep \in DOMAIN endpoints'[m]
    BY <1>3, <1>4, <1>5 DEF IndInv, EndpointsSound
  <2> QED BY <2>1 DEF Reaches, Address, Leads
<1>10. /\ Grows(endpoints, names, endpoints', names)
       /\ EndpointsStep(endpoints, endpoints', names, wire')
  BY <1>5, <1>7, <1>8, <1>9, EndpointsWrite, ZenonT(60)
<1>11. /\ DOMAIN channels' = Nodes
       /\ \A a \in Nodes : a # n => channels'[a] = channels[a]
       /\ DOMAIN channels'[n] = (DOMAIN channels[n] \ {k}) \cup {m}
       /\ channels'[n][m] = channels[n][k]
       /\ \A j \in DOMAIN channels[n] \ {k, m} : channels'[n][j] = channels[n][j]
  BY <1>5 DEF IndInv, ChannelsSound, Rename
<1>12. \A a, b \in Nodes : Engaged(channels, a, b) => Engaged(channels', a, b)
  <2>1. ASSUME NEW b \in Nodes, b # m PROVE b # k /\ Temporary(b) # k
    BY <2>1, TemporaryFacts DEF k
  <2>2. Engaged(channels', n, m)
    BY <1>11 DEF Engaged
  <2> QED BY <1>11, <2>1, <2>2 DEF Engaged
<1>13. /\ DOMAIN pending' = Nodes
       /\ \A a \in Nodes : a # n => pending'[a] = pending[a]
       /\ DOMAIN pending'[n] = DOMAIN pending[n] \ {k}
       /\ \A j \in DOMAIN pending[n] \ {k} : pending'[n][j] = pending[n][j]
  BY <1>5 DEF IndInv, PendingSound, Restrict
<1>14. Steady(channels, pending, channels', pending')
  BY <1>12, <1>13 DEF Steady
<1>15. WiresStep(endpoints', names, channels', pending', wire, wire')
  <2>1. \A y : ~Carries(Head(wire[m][n]), y)
    BY <1>2 DEF Carries, msg
  <2> QED BY <1>2, <1>5, <2>1, WiresRead
<1>16. CallsStep(endpoints', names, wire', call, call')
  <2>1. ep.queue \in Seq(QueuedMail(endpoints, names, n, EndOf(x)))
    BY <1>6 DEF SoundEndpoints
  <2>2. ep.queue \in Seq(QueuedMail(endpoints', names, n, EndOf(x)))
    BY <2>1, <1>10, QueuedMailGrows, SeqMonotonic
  <2>3. c.msgs = Retarget(ep.queue, msg.ep)
    BY DEF c, FlushReserved, ep
  <2>4. c.msgs \in Seq(Outgoing(endpoints', names, wire', n, m))
    BY <1>6, <1>9, <2>2, <2>3, RetargetSound
  <2>5. c \in Calls(endpoints', names, wire', n)
    <3>1. /\ c.op = "accept" /\ c.via = NoOne /\ c.lock = x /\ c.dest = m
          /\ c = [op |-> c.op, via |-> c.via, lock |-> c.lock, dest |-> c.dest, msgs |-> c.msgs]
      BY DEF c, FlushReserved
    <3> QED BY <1>4, <1>6, <2>4, <3>1, CallFacts
  <2>6. IO \in AllThreads
    BY DEF AllThreads
  <2> QED BY <1>5, <2>5, <2>6, CallsOne
<1>17. StepsSoundly
  BY <1>1, <1>10, <1>14, <1>15, <1>16, TasksAlone, HeldAlone DEF StepsSoundly
<1>18. ChannelsSound(channels')
  <2>1. channels[n][k] = m
    <3>1. ChannelOk(n, k, channels[n][k])
      BY <1>5 DEF IndInv, ChannelsSound
    <3> QED BY <3>1 DEF ChannelOk, k
  <2>2. ASSUME NEW a \in Nodes, NEW j \in DOMAIN channels'[a]
        PROVE  ChannelOk(a, j, channels'[a][j])
    <3>1. CASE a = n /\ j = m
      <4>1. j \in Keys /\ j # InitialChannel /\ \A i \in Nodes : j # Temporary(i)
        BY <3>1, NodesAssumption, TemporaryFacts DEF Keys
      <4> QED BY <1>4, <1>11, <2>1, <3>1, <4>1 DEF ChannelOk
    <3>2. CASE ~(a = n /\ j = m)
      <4>1. j \in DOMAIN channels[a] /\ channels'[a][j] = channels[a][j]
        BY <1>11, <3>2
      <4> QED BY <4>1 DEF IndInv, ChannelsSound
    <3> QED BY <3>1, <3>2
  <2> QED BY <1>11, <2>2 DEF ChannelsSound
<1>19. PendingSound(channels', pending')
  <2>1. ASSUME NEW a \in Nodes, NEW j \in DOMAIN pending'[a]
        PROVE  PendingOk(channels', a, j, pending'[a][j])
    <3>1. j \in DOMAIN pending[a] /\ pending'[a][j] = pending[a][j]
      BY <1>13
    <3>2. PendingOk(channels, a, j, pending[a][j])
      BY <3>1 DEF IndInv, PendingSound
    <3> QED BY <1>12, <3>1, <3>2 DEF PendingOk
  <2> QED BY <1>13, <2>1 DEF PendingSound
<1> QED BY <1>1, <1>17, <1>18, <1>19 DEF IndInv, RestSound, CountersSound
\* The elements of a sequence.
LEMMA ToSetFacts ==
    ASSUME NEW S, NEW s \in Seq(S)
    PROVE  ToSet(s) \subseteq S /\ \A i \in DOMAIN s : s[i] \in ToSet(s)
BY DEF ToSet

\* Endpoint x becomes a proxy for the later stage that descriptor d names.
LEMMA ProxySound ==
    ASSUME NEW E, NEW N, NEW n \in Nodes, NEW dest \in Nodes \ {n},
           NEW d \in Carried(E, N), NEW ep \in SoundEndpoints(E, N, n, d.name)
    PROVE  /\ Proxying(ep, Address(dest, d.cross)) \in SoundEndpoints(E, N, n, d.name)
           /\ Proxying(ep, Address(dest, d.cross)).target = Address(dest, d.cross)
           /\ Proxying(ep, Address(dest, d.cross)).state = "proxying"
           /\ Proxying(ep, Address(dest, d.cross)).peer = ep.peer
<1> DEFINE a == Address(dest, d.cross)
<1>1. a \in Onward(n, d.name)
  <2>1. d.cross \in Names /\ d.name \in Names /\ EndOf(d.cross) = EndOf(d.name)
        /\ d.cross[3] > d.name[3]
    BY DEF Carried, Given, Names
  <2> QED BY <2>1 DEF Address, Addresses, Onward
<1>2. a \in Addresses
  BY <1>1 DEF Onward
<1> HIDE DEF a
<1>3. << >> \in Seq(QueuedMail(E, N, n, EndOf(d.name)))
  BY EmptySeq
<1>4. Proxying(ep, a) \in SoundEndpoints(E, N, n, d.name)
  BY <1>1, <1>2, <1>3 DEF Proxying, SoundEndpoints
<1>5. /\ Proxying(ep, a).target = a /\ Proxying(ep, a).state = "proxying"
      /\ Proxying(ep, a).peer = ep.peer
  BY DEF Proxying, SoundEndpoints
<1> QED BY <1>4, <1>5 DEF a

\* What the endpoints of a message turn into once it is written.
LEMMA MovedFacts ==
    ASSUME NEW table, NEW descs, NEW dest
    PROVE  /\ DOMAIN Moved(table, descs, dest) = DOMAIN table
           /\ \A x \in DOMAIN table :
                 \/ x \notin DescriptorNames(descs) /\ Moved(table, descs, dest)[x] = table[x]
                 \/ \E d \in ToSet(descs) :
                       /\ d.name = x
                       /\ Moved(table, descs, dest)[x] = Proxying(table[x], Address(dest, d.cross))
<1>1. ASSUME NEW x \in DOMAIN table, x \in DescriptorNames(descs)
      PROVE  \E d \in ToSet(descs) :
                /\ d.name = x
                /\ Moved(table, descs, dest)[x] = Proxying(table[x], Address(dest, d.cross))
  <2>1. DescriptorOf(x, descs) \in ToSet(descs) /\ DescriptorOf(x, descs).name = x
    BY <1>1 DEF DescriptorNames, DescriptorOf
  <2>2. Moved(table, descs, dest)[x]
           = Proxying(table[x], Address(dest, DescriptorOf(x, descs).cross))
    BY <1>1 DEF Moved
  <2> QED BY <2>1, <2>2
<1>2. \A x \in DOMAIN table : x \notin DescriptorNames(descs) =>
         Moved(table, descs, dest)[x] = table[x]
  BY DEF Moved
<1>3. DOMAIN Moved(table, descs, dest) = DOMAIN table
  BY DEF Moved
<1> QED BY <1>1, <1>2, <1>3

\* The front message of a call and where it goes.
LEMMA FlushFacts ==
    ASSUME IndInv, NEW n \in Nodes, NEW t \in AllThreads, FlushOne(n, t)
    PROVE  LET dest == call[n][t].dest
               msg  == Head(call[n][t].msgs)
           IN /\ dest \in Nodes \ {n} /\ dest \in DOMAIN channels[n] /\ channels[n][dest] = dest
              /\ call[n][t].msgs \in Seq(Outgoing(endpoints, names, wire, n, dest))
              /\ call[n][t].msgs # << >>
              /\ msg \in Outgoing(endpoints, names, wire, n, dest)
              /\ ToSet(msg.descs) \subseteq Carried(endpoints, names)
              /\ msg.descs \in Seq(Carried(endpoints, names))
<1> DEFINE dest == call[n][t].dest
           msgs == call[n][t].msgs
           msg  == Head(msgs)
           S    == Outgoing(endpoints, names, wire, n, dest)
<1>1. msgs # << >> /\ dest \in DOMAIN channels[n]
  BY DEF FlushOne
<1>2. call[n][t] \in Calls(endpoints, names, wire, n)
  BY DEF IndInv, CallsSound
<1>3. dest \in Nodes \ {n} /\ msgs \in Seq(S)
  BY <1>1, <1>2 DEF Calls
<1>4. channels[n][dest] = dest
  <2>1. ChannelOk(n, dest, channels[n][dest])
    BY <1>1 DEF IndInv, ChannelsSound
  <2> QED BY <2>1, <1>3 DEF ChannelOk
<1>5. msg \in S
  <2> HIDE DEF S, msgs
  <2> QED BY <1>1, <1>3, HeadTailProperties
<1>6. msg.descs \in Seq(Carried(endpoints, names))
  BY <1>5 DEF Outgoing, RoutedMail, Mail
<1>7. ToSet(msg.descs) \subseteq Carried(endpoints, names)
  BY <1>6, ToSetFacts
<1> QED BY <1>1, <1>3, <1>4, <1>5, <1>6, <1>7

\* The front message of a call is written.
LEMMA FlushOneSound ==
    ASSUME IndInv, NEW n \in Nodes, NEW t \in AllThreads, FlushOne(n, t)
    PROVE  StepsSoundly /\ RestSound'
<1> DEFINE dest  == call[n][t].dest
           msgs  == call[n][t].msgs
           msg   == Head(msgs)
           descs == msg.descs
           out   == [msg EXCEPT !.pipes = << >>]
           c     == [call[n][t] EXCEPT !.msgs = Tail(msgs) \o QueuedOn(n, descs)]
<1>1. /\ names' = names /\ channels' = channels /\ pending' = pending /\ tasks' = tasks
      /\ pipes' = pipes /\ joined' = joined /\ acceptCallback' = acceptCallback
      /\ held' = held /\ moves' = moves /\ carriers' = carriers /\ told' = told
      /\ sent' = sent /\ got' = got
  BY DEF FlushOne, appVars
<1>2. /\ dest \in Nodes \ {n} /\ channels[n][dest] = dest
      /\ msgs \in Seq(Outgoing(endpoints, names, wire, n, dest)) /\ msgs # << >>
      /\ msg \in Outgoing(endpoints, names, wire, n, dest)
      /\ ToSet(descs) \subseteq Carried(endpoints, names)
      /\ descs \in Seq(Carried(endpoints, names))
  BY FlushFacts
<1>3. /\ \A x \in DescriptorNames(descs) : x \in DOMAIN endpoints[n]
      /\ endpoints' = [endpoints EXCEPT ![n] = Moved(@, descs, dest)]
      /\ wire' = [wire EXCEPT ![n][dest] = Append(@, out)]
      /\ call' = [call EXCEPT ![n][t] = c]
  <2>1. DOMAIN call = Nodes /\ DOMAIN call[n] = AllThreads
    BY DEF IndInv, CallsSound
  <2> QED BY <1>2, <2>1 DEF FlushOne, Local
<1>4. call[n][t] \in Calls(endpoints, names, wire, n) /\ DOMAIN endpoints = Nodes
  BY DEF IndInv, CallsSound, EndpointsSound
<1>5. /\ out \in RoutedMail(endpoints, names) /\ out.type = "USER"
      /\ out.target = msg.target /\ out.descs = descs
      /\ Reaches(endpoints, wire, n, Address(dest, msg.target))
  <2>1. msg \in RoutedMail(endpoints, names)
        /\ Reaches(endpoints, wire, n, Address(dest, msg.target))
    BY <1>2 DEF Outgoing
  <2> QED BY <2>1, EmptySeq DEF RoutedMail, Mail
<1> HIDE DEF dest, msgs, msg, descs, out, c
<1>6. /\ DOMAIN endpoints' = Nodes
      /\ \A m \in Nodes : m # n => endpoints'[m] = endpoints[m]
      /\ endpoints'[n] = Moved(endpoints[n], descs, dest)
  BY <1>3, <1>4
<1>7. \A m \in Nodes : DOMAIN endpoints'[m] = DOMAIN endpoints[m]
  BY <1>6, MovedFacts
<1>8. Grows(endpoints, names, endpoints', names)
  BY <1>7, GrowsAlone
<1>9. WiresStep(endpoints', names, channels, pending, wire, wire')
  <2>1. out \in Traffic(endpoints', names, channels, pending, n, dest)
    BY <1>5, <1>8, RoutedMailGrows DEF Traffic
  <2>2. Leads(wire[n][dest], DOMAIN endpoints[dest], out.target)
    BY <1>5 DEF Reaches, Address
  <2>3. Leads(wire[n][dest], DOMAIN endpoints'[dest], out.target)
    BY <1>2, <1>7, <2>2
  <2> QED BY <1>2, <1>3, <2>1, <2>3, WiresWrite
<1>10. ASSUME NEW d \in ToSet(descs)
       PROVE  Reaches(endpoints', wire', n, Address(dest, d.cross))
  <2>1. Carries(out, d.cross)
    BY <1>5 DEF Carries
  <2>2. wire[n][dest] \in Seq(Traffic(endpoints, names, channels, pending, n, dest))
    BY <1>2, WireIsSeq DEF IndInv
  <2>3. wire'[n][dest] = Append(wire[n][dest], out)
    BY <1>2, <1>3 DEF IndInv, WiresSound
  <2>4. Leads(wire'[n][dest], DOMAIN endpoints'[dest], d.cross)
    BY <2>1, <2>2, <2>3, LeadsAppended
  <2> QED BY <2>4 DEF Reaches, Address
<1>11. EndpointsStep(endpoints, endpoints', names, wire')
  <2>1. ASSUME NEW x \in DOMAIN endpoints[n], endpoints'[n][x] # endpoints[n][x]
        PROVE  /\ endpoints'[n][x] \in SoundEndpoints(endpoints', names, n, x)
               /\ Reaches(endpoints', wire', n, endpoints'[n][x].target)
    <3>1. PICK d \in ToSet(descs) :
             /\ d.name = x
             /\ endpoints'[n][x] = Proxying(endpoints[n][x], Address(dest, d.cross))
      BY <1>6, <2>1, MovedFacts
    <3>2. endpoints[n][x] \in SoundEndpoints(endpoints, names, n, d.name)
      BY <3>1, EndpointFacts
    <3>3. d \in Carried(endpoints, names)
      BY <1>2
    <3>4. /\ endpoints'[n][x] \in SoundEndpoints(endpoints, names, n, x)
          /\ endpoints'[n][x].target = Address(dest, d.cross)
      <4> DEFINE old == endpoints[n][x]
      <4>1. old \in SoundEndpoints(endpoints, names, n, d.name)
        BY <3>2
      <4> HIDE DEF old
      <4>2. dest \in Nodes \ {n}
        BY <1>2
      <4>3. ASSUME NEW k \in Nodes \ {n},
                   NEW o \in SoundEndpoints(endpoints, names, n, d.name)
            PROVE  /\ Proxying(o, Address(k, d.cross)) \in SoundEndpoints(endpoints, names, n, d.name)
                   /\ Proxying(o, Address(k, d.cross)).target = Address(k, d.cross)
        BY <3>3, ProxySound
      <4>4. /\ Proxying(old, Address(dest, d.cross)) \in SoundEndpoints(endpoints, names, n, d.name)
            /\ Proxying(old, Address(dest, d.cross)).target = Address(dest, d.cross)
        BY <4>1, <4>2, <4>3
      <4>5. endpoints'[n][x] = Proxying(old, Address(dest, d.cross)) /\ d.name = x
        BY <3>1 DEF old
      <4> QED BY <4>4, <4>5, Zenon
    <3>5. endpoints'[n][x] \in SoundEndpoints(endpoints', names, n, x)
      BY <1>8, <3>4, SoundEndpointsGrow
    <3>6. Reaches(endpoints', wire', n, Address(dest, d.cross))
      BY <1>10
    <3> QED BY <3>4, <3>5, <3>6
  <2>2. \A x \in DOMAIN endpoints[n] : x \in Given(names)
    BY EndpointFacts
  <2> QED BY <1>6, <1>7, <2>1, <2>2 DEF EndpointsStep
<1>12. QueuedOn(n, descs) \in Seq(Outgoing(endpoints', names, wire', n, dest))
  <2> DEFINE S == Outgoing(endpoints', names, wire', n, dest)
             f == [i \in DOMAIN descs |-> Retarget(endpoints[n][descs[i].name].queue, descs[i].cross)]
  <2>1. ASSUME NEW i \in DOMAIN descs PROVE f[i] \in Seq(S)
    <3> DEFINE d == descs[i]
               q == endpoints[n][d.name].queue
    <3>1. d \in ToSet(descs) /\ d \in Carried(endpoints, names)
      BY <1>2, <2>1, ToSetFacts
    <3>2. d.name \in DOMAIN endpoints[n]
      BY <1>3, <3>1 DEF DescriptorNames
    <3>3. d.cross \in Names /\ EndOf(d.cross) = EndOf(d.name) /\ EndOf(d.cross) \in Ends
      BY <3>1, EndsFit DEF Carried, Given
    <3>4. q \in Seq(QueuedMail(endpoints, names, n, EndOf(d.name)))
      BY <3>2, EndpointFacts DEF SoundEndpoints
    <3>5. q \in Seq(QueuedMail(endpoints', names, n, EndOf(d.cross)))
      BY <1>8, <3>3, <3>4, QueuedMailGrows, SeqMonotonic
    <3>6. Reaches(endpoints', wire', n, Address(dest, d.cross))
      BY <1>10, <3>1
    <3> HIDE DEF d, q
    <3>7. Retarget(q, d.cross) \in Seq(S)
      BY <3>3, <3>5, <3>6, RetargetSound
    <3> QED BY <2>1, <3>7 DEF d, q
  <2> HIDE DEF S
  <2>2. f \in Seq(Seq(S))
    <3>1. DOMAIN f = DOMAIN descs
      OBVIOUS
    <3>2. f = [i \in DOMAIN descs |-> f[i]]
      OBVIOUS
    <3> HIDE DEF f
    <3>3. Len(descs) \in Nat /\ DOMAIN descs = 1..Len(descs)
      BY <1>2
    <3> QED BY <2>1, <3>1, <3>2, <3>3
  <2>3. FlattenSeq(f) \in Seq(S)
    <3> HIDE DEF f
    <3> QED BY <2>2, FlattenType
  <2> QED BY <2>3 DEF QueuedOn, S
<1>13. CallsStep(endpoints', names, wire', call, call')
  <2> DEFINE S == Outgoing(endpoints', names, wire', n, dest)
  <2>1. Tail(msgs) \in Seq(S)
    <3>1. call[n][t] \in Calls(endpoints', names, wire', n)
      BY <1>1, <1>4, <1>8, <1>9, CallsGrow DEF IndInv
    <3>2. msgs \in Seq(S)
      BY <1>2, <3>1 DEF Calls, msgs, dest
    <3> HIDE DEF S
    <3> QED BY <1>2, <3>2, HeadTailProperties
  <2>2. c.msgs \in Seq(S)
    <3>1. c.msgs = Tail(msgs) \o QueuedOn(n, descs)
      BY <1>4 DEF c, Calls
    <3> HIDE DEF S
    <3>2. QueuedOn(n, descs) \in Seq(S)
      BY <1>12 DEF S
    <3> QED BY <2>1, <3>1, <3>2, ConcatProperties
  <2>3. c \in Calls(endpoints', names, wire', n)
    <3>1. /\ c.op \in {"idle", "send", "accept"} /\ c.via \in Names \cup {NoOne}
          /\ c.lock \in Names \cup {NoOne} /\ c.dest = dest
          /\ c = [op |-> c.op, via |-> c.via, lock |-> c.lock, dest |-> c.dest, msgs |-> c.msgs]
      <4> DEFINE r == call[n][t]
                 s == Tail(msgs) \o QueuedOn(n, descs)
      <4>1. r \in [op : {"idle", "send", "accept"}, via : Names \cup {NoOne},
                   lock : Names \cup {NoOne}, dest : Nodes \cup {NoOne},
                   msgs : Seq(RoutedMail(endpoints, names))]
        BY <1>4 DEF Calls
      <4>2. c = [r EXCEPT !.msgs = s] /\ dest = r.dest
        BY DEF c, dest
      <4> HIDE DEF r, s
      <4> QED BY <4>1, <4>2
    <3> QED BY <1>2, <2>2, <3>1, CallFacts
  <2> QED BY <1>3, <2>3, CallsOne
<1>14. StepsSoundly
  BY <1>1, <1>8, <1>9, <1>11, <1>13, SteadyAlone, TasksAlone, HeldAlone DEF StepsSoundly
<1> QED BY <1>1, <1>14 DEF IndInv, RestSound, CountersSound
-----------------------------------------------------------------------------
(* Messages that are sent.                                                   *)

\* A message for endpoint x of n is queued on it or posted to its receiver;
\* E1 is the table once what came with it is in place.
LEMMA AcceptMessageSound ==
    ASSUME IndInv, NEW n \in Nodes, NEW table, NEW E1, NEW N2, NEW W2,
           E1 = [endpoints EXCEPT ![n] = table],
           Grows(endpoints, names, E1, N2), EndpointsStep(endpoints, E1, N2, W2),
           NEW x \in DOMAIN table, table[x] \in SoundEndpoints(E1, N2, n, x), x \in Given(N2),
           NEW msg \in QueuedMail(E1, N2, n, EndOf(x)),
           AcceptMessage(n, table, x, msg)
    PROVE  /\ Grows(endpoints, names, endpoints', N2)
           /\ EndpointsStep(endpoints, endpoints', N2, W2)
           /\ TasksStep(endpoints', N2, tasks, tasks')
<1>1. DOMAIN endpoints = Nodes /\ E1[n] = table /\ DOMAIN E1 = Nodes
      /\ \A m \in Nodes : m # n => E1[m] = endpoints[m]
  BY DEF IndInv, EndpointsSound
<1>2. CASE /\ table[x].state = "queueing"
           /\ endpoints' = [endpoints EXCEPT ![n] = [table EXCEPT ![x].queue = Append(@, msg)]]
           /\ tasks' = tasks
  <2> DEFINE ep  == table[x]
             new == [ep EXCEPT !.queue = Append(ep.queue, msg)]
  <2>1. /\ DOMAIN endpoints' = Nodes /\ DOMAIN endpoints'[n] = DOMAIN table
        /\ endpoints'[n][x] = new
        /\ \A y \in DOMAIN table : y # x => endpoints'[n][y] = table[y]
        /\ \A m \in Nodes : m # n => endpoints'[m] = endpoints[m]
    BY <1>1, <1>2
  <2>2. ep \in SoundEndpoints(E1, N2, n, x) /\ ep.state = "queueing"
    BY <1>2
  <2> HIDE DEF ep
  <2>3. new \in SoundEndpoints(E1, N2, n, x) /\ new.state = "queueing"
    <3> DEFINE S == QueuedMail(E1, N2, n, EndOf(x))
               q == Append(ep.queue, msg)
    <3>1. ep.queue \in Seq(S)
      BY <2>2 DEF SoundEndpoints
    <3>2. q \in Seq(S)
      <4> HIDE DEF S
      <4>1. msg \in S
        BY DEF S
      <4> QED BY <3>1, <4>1, AppendProperties
    <3>3. new = [ep EXCEPT !.queue = q]
      OBVIOUS
    <3> HIDE DEF q, new
    <3> QED BY <2>2, <3>2, <3>3 DEF SoundEndpoints
  <2> HIDE DEF new
  <2>4. \A m \in Nodes : DOMAIN endpoints'[m] = DOMAIN E1[m]
    BY <1>1, <2>1
  <2>5. Grows(endpoints, names, endpoints', N2)
    BY <2>4 DEF Grows
  <2>6. Grows(E1, N2, endpoints', N2)
    <3>1. \A e \in Ends : N2[e] <= N2[e]
      BY DEF Grows
    <3> QED BY <2>4, <3>1 DEF Grows
  <2>7. new \in SoundEndpoints(endpoints', N2, n, x)
    BY <2>3, <2>6, SoundEndpointsGrow
  <2>8. EndpointsStep(endpoints, endpoints', N2, W2)
    <3> SUFFICES ASSUME NEW m \in Nodes, NEW y \in DOMAIN endpoints'[m]
                 PROVE  \/ y \in DOMAIN endpoints[m] /\ endpoints'[m][y] = endpoints[m][y]
                        \/ /\ y \in Given(N2)
                           /\ endpoints'[m][y] \in SoundEndpoints(endpoints', N2, m, y)
                           /\ endpoints'[m][y].state = "proxying" =>
                                 Reaches(endpoints', W2, m, endpoints'[m][y].target)
      BY <2>1 DEF EndpointsStep
    <3>1. CASE m = n /\ y = x
      BY <2>1, <2>3, <2>7, <3>1
    <3>2. CASE ~(m = n /\ y = x)
      <4>1. y \in DOMAIN E1[m] /\ endpoints'[m][y] = E1[m][y]
        BY <1>1, <2>1, <3>2
      <4>2. CASE y \in DOMAIN endpoints[m] /\ E1[m][y] = endpoints[m][y]
        BY <4>1, <4>2
      <4>3. CASE /\ y \in Given(N2) /\ E1[m][y] \in SoundEndpoints(E1, N2, m, y)
                 /\ E1[m][y].state = "proxying" => Reaches(E1, W2, m, E1[m][y].target)
        <5>1. E1[m][y] \in SoundEndpoints(endpoints', N2, m, y)
          BY <2>6, <4>3, SoundEndpointsGrow
        <5>2. ASSUME E1[m][y].state = "proxying"
              PROVE  Reaches(endpoints', W2, m, E1[m][y].target)
          <6>1. E1[m][y].target.node \in Nodes
            BY <4>3, <5>2 DEF SoundEndpoints, Onward, Addresses
          <6>2. Reaches(E1, W2, m, E1[m][y].target)
            BY <4>3, <5>2
          <6> QED BY <2>4, <6>1, <6>2 DEF Reaches
        <5> QED BY <4>1, <4>3, <5>1, <5>2
      <4> QED BY <4>1, <4>2, <4>3 DEF EndpointsStep
    <3> QED BY <3>1, <3>2
  <2> QED BY <1>2, <2>5, <2>8, TasksAlone
<1>3. CASE /\ table[x].state = "bound"
           /\ endpoints' = [endpoints EXCEPT ![n] = table]
           /\ tasks' = [tasks EXCEPT ![n][table[x].runner] = @ \o TasksFor(x, <<msg>>)]
  <2>1. endpoints' = E1
    BY <1>3
  <2>2. table[x].runner \in Threads
    BY <1>3 DEF SoundEndpoints
  <2>3. <<msg>> \in Seq(QueuedMail(E1, N2, n, EndOf(x)))
    OBVIOUS
  <2>4. TasksFor(x, <<msg>>) \in Seq(Tasks(E1, N2, n))
    BY <1>1, <2>3, TasksForSound
  <2>5. TasksStep(E1, N2, tasks, tasks')
    BY <1>3, <2>2, <2>4, TasksOne
  <2> QED BY <2>1, <2>5
<1> QED BY <1>2, <1>3 DEF AcceptMessage

\* What every send does.
LEMMA SendsFacts ==
    ASSUME IndInv, NEW n \in Nodes, NEW t, NEW c \in held[n], NEW hs \in HandleLists(n, c),
           Sends(n, t, c, hs)
    PROVE  /\ Grows(endpoints, names, endpoints, names') /\ NamesSound(names', pipes)
           /\ CountersSound' /\ HeldStep(endpoints, held, held')
           /\ hs \in Seq(held[n])
           /\ c \in DOMAIN endpoints[n] /\ endpoints[n][c].peer \in Peers(endpoints, EndOf(c))
           /\ NewMessage(n, c, hs) \in RoutedMail(endpoints, names')
           /\ EndOf(NewMessage(n, c, hs).id) = EndOf(c)
           /\ NewMessage(n, c, hs).target = endpoints[n][c].peer.ep
           /\ NewMessage(n, c, hs).pipes = << >>
           /\ NewMessage(n, c, hs).descs = [i \in DOMAIN hs |-> Descriptor(n, hs[i])]
<1>1. PICK k \in 0..MaxHandles : hs \in [1..k -> held[n]]
  <2>1. PICK k \in 0..MaxHandles : hs \in [1..k -> {x \in held[n] : MaySend(n, x, c)}]
    BY DEF HandleLists
  <2> QED BY <2>1
<1>2. k \in Nat /\ DOMAIN hs = 1..k /\ hs \in Seq(held[n]) /\ ToSet(hs) \subseteq held[n]
  <2>1. k \in Nat
    BY BoundsAssumption
  <2>2. hs \in Seq(held[n])
    BY <1>1, <2>1
  <2> QED BY <1>1, <2>1, <2>2, ToSetFacts
<1>3. held[n] \subseteq DOMAIN endpoints[n]
  BY DEF IndInv, HeldSound
<1>4. names \in [Ends -> Nat] /\ \A e \in Ends : e[1] > pipes => names[e] = 0
  BY DEF IndInv, NamesSound
<1>5. names' = [e \in Ends |->
                   IF \E x \in ToSet(hs) : EndOf(x) = e THEN names[e] + 1 ELSE names[e]]
  BY DEF Sends
<1>6. names' \in [Ends -> Nat] /\ \A e \in Ends : names[e] <= names'[e]
  BY <1>4, <1>5
<1>7. Grows(endpoints, names, endpoints, names')
  BY <1>4, <1>6 DEF Grows
<1>8. \A x \in DOMAIN endpoints[n] : /\ x \in Names /\ EndOf(x) \in Ends /\ x \in Given(names)
                                     /\ endpoints[n][x] \in SoundEndpoints(endpoints, names, n, x)
  BY EndpointFacts
<1>9. NamesSound(names', pipes)
  <2>1. ASSUME NEW e \in Ends, e[1] > pipes PROVE names'[e] = 0
    <3>1. names[e] = 0
      BY <1>4, <2>1
    <3>2. ASSUME NEW x \in ToSet(hs), EndOf(x) = e PROVE FALSE
      <4>1. x \in Given(names) /\ x \in Names
        BY <1>2, <1>3, <1>8
      <4>2. x[3] < 0 /\ x[3] \in Nat
        BY <3>1, <3>2, <4>1 DEF Given, Names
      <4> QED BY <4>2
    <3> QED BY <1>5, <3>1, <3>2
  <2> QED BY <1>6, <2>1 DEF NamesSound
<1>10. CountersSound'
  <2>1. sent \in [Ends -> Nat] /\ moves \in [1..MaxPipes -> Nat] /\ carriers \subseteq 1..MaxPipes
    BY DEF IndInv, CountersSound
  <2>2. c \in Names /\ EndOf(c) \in Ends /\ c[1] \in 1..MaxPipes
    BY <1>3, <1>8 DEF Names
  <2>3. sent' \in [Ends -> Nat]
    <3>1. sent' = [sent EXCEPT ![EndOf(c)] = @ + 1]
      BY DEF Sends
    <3> QED BY <2>1, <2>2, <3>1
  <2>4. moves' \in [1..MaxPipes -> Nat]
    <3>1. IsFiniteSet(ToSet(hs))
      <4>1. IsFiniteSet(1..k)
        <5>1. 1 \in Int /\ k \in Int
          BY <1>2
        <5> QED BY <5>1, FS_Interval
      <4>2. hs \in Surjection(1..k, ToSet(hs))
        BY <1>1, <1>2 DEF Surjection, ToSet
      <4> QED BY <4>1, <4>2, FS_Surjection
    <3>2. \A p \in 1..MaxPipes : Cardinality({x \in ToSet(hs) : x[1] = p}) \in Nat
      <4>1. \A p \in 1..MaxPipes : IsFiniteSet({x \in ToSet(hs) : x[1] = p})
        BY <3>1, FS_Subset
      <4> QED BY <4>1, FS_CardinalityType
    <3>3. moves' = [p \in 1..MaxPipes |->
                       moves[p] + Cardinality({x \in ToSet(hs) : x[1] = p})]
      BY DEF Sends
    <3> QED BY <2>1, <3>2, <3>3
  <2>5. carriers' \subseteq 1..MaxPipes
    BY <2>1, <2>2 DEF Sends
  <2> QED BY <2>3, <2>4, <2>5 DEF Sends, IndInv, CountersSound
<1>11. HeldStep(endpoints, held, held')
  BY DEF Sends, HeldStep, IndInv, HeldSound
<1>12. /\ c \in DOMAIN endpoints[n] /\ c \in Names /\ EndOf(c) \in Ends
       /\ endpoints[n][c].peer \in Peers(endpoints, EndOf(c))
  BY <1>3, <1>8 DEF SoundEndpoints
<1>13. ASSUME NEW x \in ToSet(hs) PROVE Descriptor(n, x) \in Carried(endpoints, names')
  <2> DEFINE e == EndOf(x)
             y == FreshName(e)
             peer == endpoints[n][x].peer
  <2>1. x \in Names /\ e \in Ends /\ x \in Given(names)
        /\ peer \in Peers(endpoints, e)
    BY <1>2, <1>3, <1>8 DEF SoundEndpoints
  <2>2. names'[e] = names[e] + 1 /\ names[e] \in Nat /\ x[3] < names[e]
    BY <1>4, <1>5, <2>1 DEF Given
  <2>3. y \in Names /\ EndOf(y) = e /\ y[3] = names[e]
    <3> HIDE DEF e
    <3> QED BY <2>1, <2>2 DEF FreshName, Ends, Names, EndOf
  <2>4. y \in Given(names')
    <3>1. y[3] < names'[EndOf(y)]
      BY <2>2, <2>3
    <3> QED BY <2>3, <3>1 DEF Given
  <2>5. Descriptor(n, x) = [name |-> x, cross |-> y, peer |-> peer] /\ peer \in Addresses
    BY <2>1 DEF Descriptor, Peers
  <2>6. e = EndOf(x)
    OBVIOUS
  <2> HIDE DEF e, y, peer
  <2> QED BY <2>1, <2>2, <2>3, <2>4, <2>5, <2>6 DEF Carried
<1>14. [i \in DOMAIN hs |-> Descriptor(n, hs[i])] \in Seq(Carried(endpoints, names'))
  <2> DEFINE f == [i \in DOMAIN hs |-> Descriptor(n, hs[i])]
             S == Carried(endpoints, names')
  <2>1. \A i \in 1..k : f[i] \in S
    BY <1>2, <1>13 DEF ToSet
  <2>2. f = [i \in 1..k |-> f[i]]
    BY <1>2
  <2> HIDE DEF f, S
  <2>3. f \in Seq(S)
    BY <1>2, <2>1, <2>2
  <2> QED BY <2>3 DEF f, S
<1>15. /\ NewMessage(n, c, hs) \in RoutedMail(endpoints, names')
       /\ EndOf(NewMessage(n, c, hs).id) = EndOf(c)
       /\ NewMessage(n, c, hs).target = endpoints[n][c].peer.ep
       /\ NewMessage(n, c, hs).pipes = << >>
       /\ NewMessage(n, c, hs).descs = [i \in DOMAIN hs |-> Descriptor(n, hs[i])]
  <2> DEFINE msg == NewMessage(n, c, hs)
             descs == [i \in DOMAIN hs |-> Descriptor(n, hs[i])]
             peer == endpoints[n][c].peer
             id == <<c[1], c[2], sent[EndOf(c)] + 1>>
  <2>1. msg = [type |-> "USER", id |-> id, target |-> peer.ep, descs |-> descs, pipes |-> << >>]
    BY DEF NewMessage
  <2>2. id \in Ids /\ EndOf(id) = EndOf(c)
    <3>1. sent[EndOf(c)] + 1 \in Nat \ {0}
      BY <1>12 DEF IndInv, CountersSound
    <3> QED BY <1>12, <3>1 DEF Ids, Names, EndOf
  <2>3. peer.ep \in Names /\ EndOf(peer.ep) = Partner(EndOf(c))
    BY <1>12 DEF Peers, Addresses
  <2>4. descs \in Seq(Carried(endpoints, names'))
    BY <1>14
  <2>5. << >> \in Seq(Names)
    BY EmptySeq
  <2>6. peer = endpoints[n][c].peer /\ descs = [i \in DOMAIN hs |-> Descriptor(n, hs[i])]
    OBVIOUS
  <2> HIDE DEF msg, descs, peer, id
  <2>7. msg \in Mail(endpoints, names')
    BY <2>1, <2>2, <2>3, <2>4, <2>5 DEF Mail
  <2>8. msg.id = id /\ msg.target = peer.ep /\ msg.pipes = << >> /\ msg.descs = descs
    BY <2>1
  <2>9. msg \in RoutedMail(endpoints, names')
    BY <2>2, <2>3, <2>7, <2>8 DEF RoutedMail
  <2> QED BY <2>2, <2>6, <2>8, <2>9 DEF msg
<1> QED BY <1>2, <1>7, <1>9, <1>10, <1>11, <1>12, <1>15

\* What no send touches.
LEMMA SendsRest ==
    ASSUME IndInv, NEW n \in Nodes, NEW t, NEW c \in held[n], NEW hs \in HandleLists(n, c),
           Sends(n, t, c, hs)
    PROVE  /\ RestSound' /\ wire' = wire
           /\ Steady(channels, pending, channels', pending')
           /\ WiresStep(endpoints', names', channels', pending', wire, wire')
<1>1. CountersSound' /\ NamesSound(names', pipes)
  BY SendsFacts
<1>2. /\ channels' = channels /\ pending' = pending /\ wire' = wire
      /\ got' = got /\ pipes' = pipes
  BY DEF Sends
<1>3. RestSound'
  BY <1>1, <1>2 DEF RestSound, IndInv
<1>4. Steady(channels, pending, channels', pending')
  BY <1>2, SteadyAlone
<1>5. WiresStep(endpoints', names', channels', pending', wire, wire')
  BY <1>2, WiresAlone
<1> QED BY <1>2, <1>3, <1>4, <1>5

\* The peer is on another node.
LEMMA SendToRemotePeerSound ==
    ASSUME IndInv, NEW n \in Nodes, NEW t \in Threads,
           NEW c \in held[n], NEW hs \in HandleLists(n, c), SendToRemotePeer(n, t, c, hs)
    PROVE  StepsSoundly /\ RestSound'
<1> DEFINE peer == endpoints[n][c].peer
           msg  == NewMessage(n, c, hs)
           new  == [op |-> "send", via |-> c, lock |-> NoOne, dest |-> peer.node, msgs |-> <<msg>>]
<1>1. Sends(n, t, c, hs) /\ peer.ep \notin DOMAIN endpoints[n]
      /\ call' = [call EXCEPT ![n][t] = new] /\ endpoints' = endpoints /\ tasks' = tasks
  BY DEF SendToRemotePeer, Local
<1>2. /\ Grows(endpoints, names, endpoints, names') /\ HeldStep(endpoints, held, held')
      /\ c \in DOMAIN endpoints[n] /\ peer \in Peers(endpoints, EndOf(c))
      /\ msg \in RoutedMail(endpoints, names') /\ msg.target = peer.ep
  <2>1. Sends(n, t, c, hs)
    BY <1>1
  <2> QED BY <2>1, SendsFacts, ZenonT(90)
<1>3. /\ RestSound' /\ wire' = wire /\ Steady(channels, pending, channels', pending')
      /\ WiresStep(endpoints', names', channels', pending', wire, wire')
  BY <1>1, SendsRest
<1>4. c \in Names
  BY <1>2, EndpointFacts
<1>5. peer.node \in Nodes \ {n} /\ peer.ep \in DOMAIN endpoints[peer.node] /\ peer \in Addresses
  BY <1>1, <1>2 DEF Peers, Addresses
<1> HIDE DEF peer, msg
<1>6. Reaches(endpoints, wire, n, Address(peer.node, msg.target))
  BY <1>2, <1>5 DEF Reaches, Leads, Address
<1>7. msg \in Outgoing(endpoints, names', wire, n, peer.node)
  BY <1>2, <1>6 DEF Outgoing
<1>8. <<msg>> \in Seq(Outgoing(endpoints, names', wire, n, peer.node))
  BY <1>7
<1>9. new \in Calls(endpoints, names', wire, n)
  <2>1. /\ new.op = "send" /\ new.via = c /\ new.lock = NoOne /\ new.dest = peer.node
        /\ new.msgs = <<msg>>
        /\ new = [op |-> new.op, via |-> new.via, lock |-> new.lock, dest |-> new.dest,
                  msgs |-> new.msgs]
    OBVIOUS
  <2> HIDE DEF new
  <2> QED BY <1>4, <1>5, <1>8, <2>1, CallFacts
<1> HIDE DEF new
<1>10. t \in AllThreads
  BY DEF AllThreads
<1>11. CallsStep(endpoints', names', wire', call, call')
  BY <1>1, <1>3, <1>9, <1>10, CallsOne
<1>12. EndpointsStep(endpoints, endpoints', names', wire')
  BY <1>1, EndpointsAlone
<1>13. TasksStep(endpoints', names', tasks, tasks')
  BY <1>1, TasksAlone
<1> QED BY <1>1, <1>2, <1>3, <1>11, <1>12, <1>13 DEF StepsSoundly

\* The peer was here, and has moved on.
LEMMA SendThroughProxySound ==
    ASSUME IndInv, NEW n \in Nodes, NEW t \in Threads,
           NEW c \in held[n], NEW hs \in HandleLists(n, c), SendThroughProxy(n, t, c, hs)
    PROVE  StepsSoundly /\ RestSound'
<1> DEFINE x    == endpoints[n][c].peer.ep
           a    == endpoints[n][x].target
           msg  == NewMessage(n, c, hs)
           new  == [op |-> "send", via |-> c, lock |-> x, dest |-> a.node,
                    msgs |-> Retarget(<<msg>>, a.ep)]
<1>1. /\ Sends(n, t, c, hs) /\ x \in DOMAIN endpoints[n] /\ endpoints[n][x].state = "proxying"
      /\ call' = [call EXCEPT ![n][t] = new] /\ endpoints' = endpoints /\ tasks' = tasks
  BY DEF SendThroughProxy, Local
<1>2. /\ Grows(endpoints, names, endpoints, names') /\ HeldStep(endpoints, held, held')
      /\ c \in DOMAIN endpoints[n] /\ endpoints[n][c].peer \in Peers(endpoints, EndOf(c))
      /\ msg \in RoutedMail(endpoints, names') /\ EndOf(msg.id) = EndOf(c)
      /\ msg.pipes = << >>
  <2>1. Sends(n, t, c, hs)
    BY <1>1
  <2> QED BY <2>1, SendsFacts, ZenonT(90)
<1>3. /\ RestSound' /\ wire' = wire /\ Steady(channels, pending, channels', pending')
      /\ WiresStep(endpoints', names', channels', pending', wire, wire')
  BY <1>1, SendsRest
<1>4. /\ c \in Names /\ x \in Names /\ EndOf(c) \in Ends /\ EndOf(x) \in Ends
      /\ endpoints[n][x] \in SoundEndpoints(endpoints, names, n, x)
  BY <1>1, <1>2, EndpointFacts
<1>5. EndOf(x) = Partner(EndOf(c)) /\ EndOf(c) = Partner(EndOf(x))
  BY <1>2, <1>4, EndsFit DEF Peers
<1>6. a \in Onward(n, x)
  BY <1>1, <1>4 DEF SoundEndpoints
<1>7. /\ a.node \in Nodes \ {n} /\ a.ep \in Names /\ EndOf(a.ep) = EndOf(x)
      /\ a = Address(a.node, a.ep)
  BY <1>6 DEF Onward, Addresses, Address
<1>8. Reaches(endpoints, wire, n, Address(a.node, a.ep))
  <2>1. Reaches(endpoints, wire, n, a)
    BY <1>1 DEF IndInv, ProxiesReach
  <2> QED BY <1>7, <2>1
<1> HIDE DEF x, a, msg
<1>9. msg \in QueuedMail(endpoints, names', n, EndOf(x))
  <2>1. ToSet(msg.pipes) = {}
    BY <1>2 DEF ToSet
  <2> QED BY <1>2, <1>5, <2>1 DEF RoutedMail, QueuedMail
<1>10. Retarget(<<msg>>, a.ep) \in Seq(Outgoing(endpoints, names', wire, n, a.node))
  <2>1. <<msg>> \in Seq(QueuedMail(endpoints, names', n, EndOf(x)))
    BY <1>9
  <2> QED BY <1>4, <1>7, <1>8, <2>1, RetargetSound
<1>11. new \in Calls(endpoints, names', wire, n)
  <2>1. /\ new.op = "send" /\ new.via = c /\ new.lock = x /\ new.dest = a.node
        /\ new.msgs = Retarget(<<msg>>, a.ep)
        /\ new = [op |-> new.op, via |-> new.via, lock |-> new.lock, dest |-> new.dest,
                  msgs |-> new.msgs]
    OBVIOUS
  <2> HIDE DEF new
  <2> QED BY <1>4, <1>7, <1>10, <2>1, CallFacts
<1> HIDE DEF new
<1>12. t \in AllThreads
  BY DEF AllThreads
<1>13. CallsStep(endpoints', names', wire', call, call')
  BY <1>1, <1>3, <1>11, <1>12, CallsOne
<1>14. EndpointsStep(endpoints, endpoints', names', wire')
  BY <1>1, EndpointsAlone
<1>15. TasksStep(endpoints', names', tasks, tasks')
  BY <1>1, TasksAlone
<1> QED BY <1>1, <1>2, <1>3, <1>13, <1>14, <1>15 DEF StepsSoundly

\* The peer is here.
LEMMA SendToLocalPeerSound ==
    ASSUME IndInv, NEW n \in Nodes, NEW t \in Threads,
           NEW c \in held[n], NEW hs \in HandleLists(n, c), SendToLocalPeer(n, t, c, hs)
    PROVE  StepsSoundly /\ RestSound'
<1> DEFINE x   == endpoints[n][c].peer.ep
           msg == NewMessage(n, c, hs)
           out == [msg EXCEPT !.pipes = ExistingPipes(msg.descs)]
<1>1. /\ Sends(n, t, c, hs) /\ x \in DOMAIN endpoints[n]
      /\ AcceptMessage(n, endpoints[n], x, out) /\ call' = call
  BY DEF SendToLocalPeer, Local
<1>2. /\ Grows(endpoints, names, endpoints, names') /\ HeldStep(endpoints, held, held')
      /\ c \in DOMAIN endpoints[n] /\ endpoints[n][c].peer \in Peers(endpoints, EndOf(c))
      /\ msg \in RoutedMail(endpoints, names') /\ EndOf(msg.id) = EndOf(c)
      /\ hs \in Seq(held[n]) /\ msg.descs = [i \in DOMAIN hs |-> Descriptor(n, hs[i])]
  <2>1. Sends(n, t, c, hs)
    BY <1>1
  <2> QED BY <2>1, SendsFacts, SMTT(30)
<1>3. /\ RestSound' /\ wire' = wire /\ Steady(channels, pending, channels', pending')
      /\ WiresStep(endpoints', names', channels', pending', wire, wire')
  BY <1>1, SendsRest
<1>4. /\ c \in Names /\ x \in Names /\ EndOf(c) \in Ends /\ EndOf(x) \in Ends
      /\ x \in Given(names)
      /\ endpoints[n][x] \in SoundEndpoints(endpoints, names, n, x)
  BY <1>1, <1>2, EndpointFacts
<1>5. EndOf(c) = Partner(EndOf(x))
  BY <1>2, <1>4, EndsFit DEF Peers
<1>6. ExistingPipes(msg.descs) = hs
  <2>1. DOMAIN msg.descs = DOMAIN hs /\ \A i \in DOMAIN hs : msg.descs[i].name = hs[i]
    <3> HIDE DEF msg
    <3> QED BY <1>2 DEF Descriptor
  <2>2. hs = [i \in DOMAIN hs |-> hs[i]]
    BY <1>2
  <2> HIDE DEF msg
  <2> QED BY <2>1, <2>2 DEF ExistingPipes
<1>7. out \in QueuedMail(endpoints, names', n, EndOf(x))
  <2>1. held[n] \subseteq DOMAIN endpoints[n]
    BY DEF IndInv, HeldSound
  <2>2. DOMAIN endpoints[n] \subseteq Names
    BY EndpointFacts
  <2>3. hs \in Seq(Names) /\ ToSet(hs) \subseteq DOMAIN endpoints[n]
    <3>1. hs \in Seq(Names)
      BY <1>2, <2>1, <2>2
    <3>2. ToSet(hs) \subseteq held[n]
      BY <1>2, ToSetFacts
    <3> QED BY <2>1, <3>1, <3>2
  <2>4. out = [msg EXCEPT !.pipes = hs]
    BY <1>6
  <2> HIDE DEF msg, out, x
  <2>5. msg \in Mail(endpoints, names')
    BY <1>2 DEF RoutedMail
  <2>6. out \in Mail(endpoints, names') /\ out.id = msg.id /\ out.pipes = hs
    BY <2>3, <2>4, <2>5 DEF Mail
  <2>7. EndOf(out.id) = Partner(EndOf(x)) /\ ToSet(out.pipes) \subseteq DOMAIN endpoints[n]
    BY <1>2, <1>5, <2>3, <2>6
  <2> QED BY <2>6, <2>7 DEF QueuedMail
<1> DEFINE E1 == [endpoints EXCEPT ![n] = endpoints[n]]
<1>8. DOMAIN E1 = Nodes /\ \A m \in Nodes : E1[m] = endpoints[m]
  BY DEF IndInv, EndpointsSound
<1> HIDE DEF x, out
<1>9. ASSUME NEW E3, NEW N2, E3 = E1, N2 = names', NEW W2
      PROVE  /\ Grows(endpoints, names, endpoints', N2)
             /\ EndpointsStep(endpoints, endpoints', N2, W2)
             /\ TasksStep(endpoints', N2, tasks, tasks')
  <2> DEFINE table == endpoints[n]
  <2>1. E3 = [endpoints EXCEPT ![n] = table]
    BY <1>9
  <2>2. DOMAIN E3 = Nodes /\ \A m \in Nodes : E3[m] = endpoints[m]
    BY <1>8, <1>9
  <2> HIDE DEF E1
  <2>3. Grows(endpoints, names, E3, N2) /\ Grows(endpoints, N2, E3, N2)
    <3>1. Grows(endpoints, names, endpoints, N2)
      BY <1>2, <1>9
    <3> QED BY <2>2, <3>1 DEF Grows
  <2>4. EndpointsStep(endpoints, E3, N2, W2)
    BY <2>2 DEF EndpointsStep
  <2>5. endpoints[n][x] \in SoundEndpoints(E3, N2, n, x)
    BY <1>4, <2>3, SoundEndpointsGrow
  <2>6. x \in Given(N2)
    BY <1>4, <2>3, GivenGrows
  <2>7. out \in QueuedMail(E3, N2, n, EndOf(x))
    <3>1. out \in QueuedMail(endpoints, N2, n, EndOf(x))
      BY <1>7, <1>9
    <3> QED BY <2>3, <3>1, QueuedMailGrows
  <2>8. x \in DOMAIN table /\ table[x] \in SoundEndpoints(E3, N2, n, x)
        /\ AcceptMessage(n, table, x, out)
    BY <1>1, <2>5
  <2> HIDE DEF table
  <2> QED BY <2>1, <2>3, <2>4, <2>6, <2>7, <2>8, AcceptMessageSound
<1>11. /\ Grows(endpoints, names, endpoints', names')
       /\ EndpointsStep(endpoints, endpoints', names', wire')
       /\ TasksStep(endpoints', names', tasks, tasks')
  BY <1>9
<1>12. HeldStep(endpoints', held, held')
  BY <1>2, <1>11 DEF HeldStep, Grows
<1>13. CallsStep(endpoints', names', wire', call, call')
  BY <1>1, CallsAlone
<1> QED BY <1>3, <1>11, <1>12, <1>13 DEF StepsSoundly

\* The application sends a message.
LEMMA SendMessageSound ==
    ASSUME IndInv, NEW n \in Nodes, NEW t \in Threads, SendMessage(n, t)
    PROVE  StepsSoundly /\ RestSound'
<1>1. PICK c \in held[n] : \E hs \in HandleLists(n, c) :
          \/ SendToRemotePeer(n, t, c, hs)
          \/ SendThroughProxy(n, t, c, hs)
          \/ SendToLocalPeer(n, t, c, hs)
  BY DEF SendMessage
<1>2. PICK hs \in HandleLists(n, c) :
          \/ SendToRemotePeer(n, t, c, hs)
          \/ SendThroughProxy(n, t, c, hs)
          \/ SendToLocalPeer(n, t, c, hs)
  BY <1>1
<1>3. CASE SendToRemotePeer(n, t, c, hs)
  BY <1>3, SendToRemotePeerSound
<1>4. CASE SendThroughProxy(n, t, c, hs)
  BY <1>4, SendThroughProxySound
<1>5. CASE SendToLocalPeer(n, t, c, hs)
  BY <1>5, SendToLocalPeerSound
<1> QED BY <1>2, <1>3, <1>4, <1>5
-----------------------------------------------------------------------------
(* Messages that arrive.                                                     *)

\* A new endpoint is sound once its peer is known.
LEMMA NewEndpointSound ==
    ASSUME NEW E, NEW N, NEW n, NEW x, NEW peer \in Peers(E, EndOf(x))
    PROVE  /\ NewEndpoint(peer) \in SoundEndpoints(E, N, n, x)
           /\ NewEndpoint(peer).state = "queueing"
<1>1. << >> \in Seq(QueuedMail(E, N, n, EndOf(x)))
  BY EmptySeq
<1> QED BY <1>1 DEF NewEndpoint, SoundEndpoints

\* The tables when n's becomes `table`.
WithTable(E, n, table) == [E EXCEPT ![n] = table]

\* The endpoints a message brings are in n's table, and all is sound in it.
LEMMA RecoverSound ==
    ASSUME IndInv, NEW n \in Nodes, NEW descs,
           ToSet(descs) \subseteq Carried(endpoints, names),
           \A d \in ToSet(descs) : d.cross \notin DOMAIN endpoints[n],
           NEW E1, NEW table, table = Recover(n, descs),
           E1 = WithTable(endpoints, n, table), NEW W2
    PROVE  /\ DOMAIN E1 = Nodes /\ E1[n] = table
           /\ \A m \in Nodes : m # n => E1[m] = endpoints[m]
           /\ DOMAIN endpoints[n] \subseteq DOMAIN table
           /\ \A x \in DOMAIN endpoints[n] : table[x] = endpoints[n][x]
           /\ \A d \in ToSet(descs) : /\ d.cross \in DOMAIN table
                                      /\ table[d.cross].state = "queueing"
           /\ Grows(endpoints, names, E1, names)
           /\ EndpointsStep(endpoints, E1, names, W2)
           /\ \A x \in DOMAIN table : /\ x \in Given(names)
                                      /\ table[x] \in SoundEndpoints(E1, names, n, x)
<1> DEFINE new == {d.cross : d \in ToSet(descs)}
<1>1. /\ DOMAIN table = DOMAIN endpoints[n] \cup new
      /\ \A x \in DOMAIN endpoints[n] : table[x] = endpoints[n][x]
      /\ \A x \in new : table[x] = NewEndpoint((CHOOSE d \in ToSet(descs) : d.cross = x).peer)
  BY DEF Recover, InsertAll
<1>2. ASSUME NEW x \in new
      PROVE  \E d \in ToSet(descs) : d.cross = x /\ table[x] = NewEndpoint(d.peer)
  <2> DEFINE d == CHOOSE d \in ToSet(descs) : d.cross = x
  <2>1. d \in ToSet(descs) /\ d.cross = x
    OBVIOUS
  <2>2. table[x] = NewEndpoint(d.peer)
    BY <1>1
  <2> QED BY <2>1, <2>2
<1>3. DOMAIN E1 = Nodes /\ E1[n] = table /\ \A m \in Nodes : m # n => E1[m] = endpoints[m]
  BY DEF IndInv, EndpointsSound, WithTable
<1>4. Grows(endpoints, names, E1, names)
  <2>1. \A m \in Nodes : DOMAIN endpoints[m] \subseteq DOMAIN E1[m]
    BY <1>1, <1>3
  <2> QED BY <2>1, GrowsAlone
<1>5. ASSUME NEW x \in new
      PROVE  /\ x \in Given(names) /\ table[x] \in SoundEndpoints(E1, names, n, x)
             /\ table[x].state = "queueing"
  <2>1. PICK d \in ToSet(descs) : d.cross = x /\ table[x] = NewEndpoint(d.peer)
    BY <1>2
  <2>2. d \in Carried(E1, names)
    BY <1>4, CarriedGrows
  <2>3. x \in Given(names) /\ d.peer \in Peers(E1, EndOf(x))
    BY <2>1, <2>2 DEF Carried
  <2> QED BY <2>1, <2>3, NewEndpointSound
<1>6. ASSUME NEW x \in DOMAIN endpoints[n]
      PROVE  x \in Given(names) /\ table[x] \in SoundEndpoints(E1, names, n, x)
  <2>1. x \in Given(names) /\ endpoints[n][x] \in SoundEndpoints(endpoints, names, n, x)
    BY EndpointFacts
  <2>2. endpoints[n][x] \in SoundEndpoints(E1, names, n, x)
    BY <1>4, <2>1, SoundEndpointsGrow
  <2> QED BY <1>1, <2>1, <2>2
<1>7. \A x \in DOMAIN table : x \in Given(names) /\ table[x] \in SoundEndpoints(E1, names, n, x)
  BY <1>1, <1>5, <1>6
<1>8. EndpointsStep(endpoints, E1, names, W2)
  <2> SUFFICES ASSUME NEW m \in Nodes, NEW x \in DOMAIN E1[m]
               PROVE  \/ x \in DOMAIN endpoints[m] /\ E1[m][x] = endpoints[m][x]
                      \/ /\ x \in Given(names)
                         /\ E1[m][x] \in SoundEndpoints(E1, names, m, x)
                         /\ E1[m][x].state = "proxying" => Reaches(E1, W2, m, E1[m][x].target)
    BY <1>3 DEF EndpointsStep
  <2>1. CASE m # n
    BY <1>3, <2>1
  <2>2. CASE m = n
    <3>1. CASE x \in DOMAIN endpoints[n]
      BY <1>1, <1>3, <2>2, <3>1
    <3>2. CASE x \in new
      BY <1>3, <1>5, <2>2, <3>2
    <3> QED BY <1>1, <1>3, <2>2, <3>1, <3>2
  <2> QED BY <2>1, <2>2
<1>9. \A d \in ToSet(descs) : d.cross \in DOMAIN table /\ table[d.cross].state = "queueing"
  BY <1>1, <1>5
<1> QED BY <1>1, <1>3, <1>4, <1>7, <1>8, <1>9

\* The user message that n reads from m.
LEMMA ReceivedUserFacts ==
    ASSUME IndInv, NEW n \in Nodes, NEW m \in Nodes, ReceivesUserMessage(n, m)
    PROVE  LET msg == Head(wire[m][n])
           IN /\ wire[m][n] # << >> /\ msg.type = "USER"
              /\ msg \in RoutedMail(endpoints, names) /\ msg \in Mail(endpoints, names)
              /\ EndOf(msg.id) = Partner(EndOf(msg.target))
              /\ msg.descs \in Seq(Carried(endpoints, names))
              /\ ToSet(msg.descs) \subseteq Carried(endpoints, names)
              /\ msg.target \in DOMAIN endpoints[n]
              /\ \A d \in ToSet(msg.descs) : d.cross \notin DOMAIN endpoints[n]
<1> DEFINE msg == Head(wire[m][n])
<1>1. /\ wire[m][n] # << >> /\ msg.type = "USER"
      /\ msg \in Traffic(endpoints, names, channels, pending, m, n)
  BY ReceivedFacts DEF ReceivesUserMessage
<1>2. msg.target \in DOMAIN endpoints[n]
      /\ \A d \in ToSet(msg.descs) : d.cross \notin DOMAIN endpoints[n]
  BY DEF ReceivesUserMessage, Local
<1> HIDE DEF msg
<1>3. msg \in RoutedMail(endpoints, names)
  BY <1>1 DEF Traffic, Invites, Accepts
<1>4. msg \in Mail(endpoints, names) /\ EndOf(msg.target) = Partner(EndOf(msg.id))
  BY <1>3 DEF RoutedMail
<1>5. msg.id \in Ids /\ msg.descs \in Seq(Carried(endpoints, names))
  BY <1>4 DEF Mail
<1>6. EndOf(msg.id) \in Ends
  BY <1>5 DEF Ids, EndOf, Ends
<1>7. ToSet(msg.descs) \subseteq Carried(endpoints, names)
  BY <1>5, ToSetFacts
<1>8. EndOf(msg.id) = Partner(EndOf(msg.target))
  BY <1>4, <1>6, EndsFit
<1> QED BY <1>1, <1>2, <1>3, <1>4, <1>5, <1>7, <1>8 DEF msg

\* A user message arrives where its target is.
LEMMA OnReceivedUserMessageSound ==
    ASSUME IndInv, NEW n \in Nodes, NEW m \in Nodes, OnReceivedUserMessage(n, m)
    PROVE  StepsSoundly /\ RestSound'
<1> DEFINE msg   == Head(wire[m][n])
           descs == msg.descs
           x     == msg.target
           table == Recover(n, descs)
           E1    == WithTable(endpoints, n, table)
           out   == [msg EXCEPT !.pipes = [i \in DOMAIN descs |-> descs[i].cross]]
<1>1. /\ names' = names /\ channels' = channels /\ pending' = pending /\ call' = call
      /\ pipes' = pipes /\ joined' = joined /\ held' = held /\ moves' = moves
      /\ carriers' = carriers /\ told' = told /\ sent' = sent /\ got' = got
      /\ acceptCallback' = acceptCallback /\ wire' = [wire EXCEPT ![m][n] = Tail(@)]
  BY DEF OnReceivedUserMessage, appVars
<1>2. ReceivesUserMessage(n, m) /\ AcceptMessage(n, table, x, out)
  BY DEF OnReceivedUserMessage
<1>3. /\ wire[m][n] # << >> /\ msg.type = "USER"
      /\ msg \in Mail(endpoints, names) /\ EndOf(msg.id) = Partner(EndOf(x))
      /\ descs \in Seq(Carried(endpoints, names))
      /\ ToSet(descs) \subseteq Carried(endpoints, names)
      /\ x \in DOMAIN endpoints[n]
      /\ \A d \in ToSet(descs) : d.cross \notin DOMAIN endpoints[n]
  BY <1>2, ReceivedUserFacts
<1>4. E1 = WithTable(endpoints, n, table) /\ table = Recover(n, descs)
      /\ out = [msg EXCEPT !.pipes = [i \in DOMAIN descs |-> descs[i].cross]]
      /\ descs = msg.descs /\ msg = Head(wire[m][n])
  OBVIOUS
<1> HIDE DEF msg, descs, x, table, E1, out
<1>5. ASSUME NEW W2 PROVE EndpointsStep(endpoints, E1, names, W2)
  BY <1>3, <1>4, RecoverSound
<1>6. /\ DOMAIN E1 = Nodes /\ E1[n] = table
      /\ DOMAIN endpoints[n] \subseteq DOMAIN table
      /\ \A d \in ToSet(descs) : d.cross \in DOMAIN table
      /\ Grows(endpoints, names, E1, names)
      /\ \A y \in DOMAIN table : y \in Given(names) /\ table[y] \in SoundEndpoints(E1, names, n, y)
  <2>1. /\ DOMAIN E1 = Nodes /\ E1[n] = table
        /\ DOMAIN endpoints[n] \subseteq DOMAIN table
        /\ \A d \in ToSet(descs) : d.cross \in DOMAIN table
        /\ Grows(endpoints, names, E1, names) /\ EndpointsStep(endpoints, E1, names, wire)
        /\ \A y \in DOMAIN table : /\ y \in Given(names)
                                   /\ table[y] \in SoundEndpoints(E1, names, n, y)
    BY <1>3, <1>4, RecoverSound, SMTT(60)
  <2> QED BY <2>1
<1>7. out \in QueuedMail(E1, names, n, EndOf(x))
  <2> DEFINE crosses == [i \in DOMAIN descs |-> descs[i].cross]
  <2>1. \A i \in DOMAIN descs : descs[i].cross \in Names /\ descs[i].cross \in DOMAIN table
    BY <1>3, <1>6, ToSetFacts DEF Carried, Given
  <2>2. crosses \in Seq(Names)
    <3>1. Len(descs) \in Nat /\ DOMAIN descs = 1..Len(descs)
      BY <1>3
    <3> QED BY <2>1, <3>1
  <2>3. ToSet(crosses) \subseteq DOMAIN table
    BY <2>1 DEF ToSet
  <2>4. out = [msg EXCEPT !.pipes = crosses]
    BY <1>4
  <2>5. msg \in Mail(E1, names)
    BY <1>3, <1>6, MailGrows
  <2> HIDE DEF crosses
  <2>6. out \in Mail(E1, names) /\ out.id = msg.id /\ out.pipes = crosses
    BY <2>2, <2>4, <2>5 DEF Mail
  <2>7. EndOf(out.id) = Partner(EndOf(x)) /\ ToSet(out.pipes) \subseteq DOMAIN E1[n]
    BY <1>3, <1>6, <2>3, <2>6
  <2> QED BY <2>6, <2>7 DEF QueuedMail
<1>8. ASSUME NEW W2
      PROVE  /\ Grows(endpoints, names, endpoints', names)
             /\ EndpointsStep(endpoints, endpoints', names, W2)
             /\ TasksStep(endpoints', names, tasks, tasks')
  <2>1. x \in DOMAIN table /\ x \in Given(names) /\ table[x] \in SoundEndpoints(E1, names, n, x)
    BY <1>3, <1>6
  <2>2. EndpointsStep(endpoints, E1, names, W2)
    BY <1>5
  <2>3. E1 = [endpoints EXCEPT ![n] = table]
    BY <1>4 DEF WithTable
  <2> QED BY <1>2, <1>6, <1>7, <2>1, <2>2, <2>3, AcceptMessageSound
<1>9. DOMAIN endpoints'[n] = DOMAIN table
  <2>1. DOMAIN endpoints = Nodes
    BY DEF IndInv, EndpointsSound
  <2> QED BY <1>2, <2>1 DEF AcceptMessage
<1>10. WiresStep(endpoints', names, channels, pending, wire, wire')
  <2>1. \A y : Carries(Head(wire[m][n]), y) => y \in DOMAIN endpoints'[n]
    BY <1>4, <1>6, <1>9 DEF Carries
  <2> QED BY <1>1, <1>3, <2>1, WiresRead
<1>11. StepsSoundly
  BY <1>1, <1>8, <1>10, SteadyAlone, CallsAlone, HeldAlone DEF StepsSoundly
<1> QED BY <1>1, <1>11 DEF IndInv, RestSound, CountersSound

\* The next hop of a descriptor, once its end has been given one more name.
LEMMA InchwormFacts ==
    ASSUME NEW E, NEW E2, NEW N2, Grows(E, names, E2, N2),
           NEW d \in Carried(E, names), N2[EndOf(d.cross)] = names[EndOf(d.cross)] + 1
    PROVE  /\ Inchworm(d) \in Carried(E2, N2)
           /\ Inchworm(d).name = d.cross
<1> DEFINE x == d.cross
           e == EndOf(x)
           y == FreshName(e)
<1>1. /\ d = [name |-> d.name, cross |-> x, peer |-> d.peer]
      /\ x \in Names /\ x[3] < names[e] /\ EndOf(d.name) = e /\ d.peer \in Peers(E, e)
      /\ d.peer \in Addresses
  BY DEF Carried, Given
<1>2. e \in Ends /\ names[e] \in Nat /\ N2[e] = names[e] + 1 /\ N2[e] \in Nat
  BY <1>1, EndsFit DEF Grows
<1>3. Inchworm(d) = [name |-> x, cross |-> y, peer |-> d.peer]
  <2>1. FreshName(EndOf(d.cross)) = y /\ d.cross = x
    OBVIOUS
  <2>2. d = [name |-> d.name, cross |-> d.cross, peer |-> d.peer]
    BY <1>1
  <2>3. Inchworm(d) = [d EXCEPT !.name = x, !.cross = y]
    BY <2>1 DEF Inchworm
  <2> HIDE DEF x, y
  <2> QED BY <2>2, <2>3
<1>4. y \in Names /\ EndOf(y) = e /\ y[3] = names[e]
  <2> HIDE DEF e
  <2> QED BY <1>2 DEF FreshName, Ends, Names, EndOf
<1>5. y \in Given(N2)
  <2>1. y[3] < N2[EndOf(y)]
    BY <1>2, <1>4
  <2> QED BY <1>4, <2>1 DEF Given
<1>6. d.peer \in Peers(E2, e)
  BY <1>1, PeersGrow
<1>7. e = EndOf(x)
  OBVIOUS
<1> HIDE DEF x, e, y
<1>8. Inchworm(d) \in Carried(E2, N2)
  BY <1>1, <1>2, <1>3, <1>4, <1>5, <1>6, <1>7 DEF Carried
<1> QED BY <1>3, <1>8 DEF x

\* The proxy that a message arrives at, and the way on.
LEMMA ForwardFacts ==
    ASSUME IndInv, NEW n \in Nodes, NEW m \in Nodes, ForwardUserMessage(n, m)
    PROVE  LET x == Head(wire[m][n]).target
               a == endpoints[n][x].target
           IN /\ x \in DOMAIN endpoints[n] /\ a \in Addresses
              /\ a.node \in Nodes \ {n} /\ channels[n][a.node] = a.node
              /\ EndOf(a.ep) = EndOf(x)
              /\ Leads(wire[n][a.node], DOMAIN endpoints[a.node], a.ep)
<1> DEFINE x == Head(wire[m][n]).target
           a == endpoints[n][x].target
<1>1. /\ x \in DOMAIN endpoints[n] /\ endpoints[n][x].state = "proxying"
      /\ a.node \in DOMAIN channels[n]
  BY DEF ForwardUserMessage, ReceivesUserMessage, Local
<1>2. a \in Onward(n, x)
  BY <1>1, EndpointFacts DEF SoundEndpoints
<1>3. a \in Addresses /\ a.node \in Nodes /\ a.node # n /\ EndOf(a.ep) = EndOf(x)
  BY <1>2 DEF Onward, Addresses
<1>4. ChannelOk(n, a.node, channels[n][a.node])
  BY <1>1 DEF IndInv, ChannelsSound
<1>5. channels[n][a.node] = a.node
  BY <1>3, <1>4 DEF ChannelOk
<1>6. Reaches(endpoints, wire, n, a)
  BY <1>1 DEF IndInv, ProxiesReach
<1> QED BY <1>1, <1>3, <1>5, <1>6 DEF Reaches

\* A user message is sent on, and what it brings moves on with it.
LEMMA ForwardUserMessageSound ==
    ASSUME IndInv, NEW n \in Nodes, NEW m \in Nodes, ForwardUserMessage(n, m)
    PROVE  StepsSoundly /\ RestSound'
<1> DEFINE msg    == Head(wire[m][n])
           old    == msg.descs
           x      == msg.target
           a      == endpoints[n][x].target
           k      == a.node
           descs  == [i \in DOMAIN old |-> Inchworm(old[i])]
           table  == Recover(n, old)
           E1     == WithTable(endpoints, n, table)
           out    == [msg EXCEPT !.target = a.ep, !.descs = descs]
<1>1. /\ channels' = channels /\ pending' = pending /\ call' = call /\ tasks' = tasks
      /\ pipes' = pipes /\ joined' = joined /\ held' = held /\ moves' = moves
      /\ carriers' = carriers /\ told' = told /\ sent' = sent /\ got' = got
      /\ acceptCallback' = acceptCallback
  BY DEF ForwardUserMessage, appVars
<1>2. /\ ReceivesUserMessage(n, m)
      /\ endpoints' = [endpoints EXCEPT ![n] = Moved(table, descs, k)]
      /\ names' = [e \in Ends |-> IF \E d \in ToSet(descs) : EndOf(d.name) = e
                                  THEN names[e] + 1 ELSE names[e]]
      /\ wire' = [wire EXCEPT ![m][n] = Tail(@), ![n][channels[n][k]] = Append(@, out)]
  BY DEF ForwardUserMessage
<1>3. /\ wire[m][n] # << >> /\ msg.type = "USER"
      /\ msg \in RoutedMail(endpoints, names)
      /\ EndOf(msg.id) = Partner(EndOf(x))
      /\ old \in Seq(Carried(endpoints, names))
      /\ ToSet(old) \subseteq Carried(endpoints, names)
      /\ \A d \in ToSet(old) : d.cross \notin DOMAIN endpoints[n]
  BY <1>2, ReceivedUserFacts
<1>4. /\ x \in DOMAIN endpoints[n] /\ a \in Addresses
      /\ k \in Nodes \ {n} /\ channels[n][k] = k /\ EndOf(a.ep) = EndOf(x)
      /\ Leads(wire[n][k], DOMAIN endpoints[k], a.ep)
  BY ForwardFacts
<1>5. /\ E1 = WithTable(endpoints, n, table) /\ table = Recover(n, old)
      /\ out = [msg EXCEPT !.target = a.ep, !.descs = descs]
      /\ old = msg.descs /\ msg = Head(wire[m][n]) /\ x = msg.target
      /\ DOMAIN descs = DOMAIN old /\ \A i \in DOMAIN old : descs[i] = Inchworm(old[i])
      /\ descs = [i \in DOMAIN old |-> descs[i]]
  OBVIOUS
<1>6. wire' = [wire EXCEPT ![m][n] = Tail(@), ![n][k] = Append(@, out)]
  BY <1>2, <1>4
<1> HIDE DEF msg, old, x, a, k, descs, table, E1, out
<1>7. ASSUME NEW W2 PROVE EndpointsStep(endpoints, E1, names, W2)
  BY <1>3, <1>5, RecoverSound
<1>8. /\ DOMAIN E1 = Nodes /\ E1[n] = table
      /\ DOMAIN endpoints[n] \subseteq DOMAIN table
      /\ \A d \in ToSet(old) : d.cross \in DOMAIN table
      /\ Grows(endpoints, names, E1, names)
      /\ \A y \in DOMAIN table : y \in Given(names) /\ table[y] \in SoundEndpoints(E1, names, n, y)
  <2>1. /\ DOMAIN E1 = Nodes /\ E1[n] = table
        /\ DOMAIN endpoints[n] \subseteq DOMAIN table
        /\ \A d \in ToSet(old) : d.cross \in DOMAIN table
        /\ Grows(endpoints, names, E1, names) /\ EndpointsStep(endpoints, E1, names, wire)
        /\ \A y \in DOMAIN table : /\ y \in Given(names)
                                   /\ table[y] \in SoundEndpoints(E1, names, n, y)
    BY <1>3, <1>5, RecoverSound, SMTT(60)
  <2> QED BY <2>1
<1>9. \A i \in Nodes : i # n => E1[i] = endpoints[i]
  BY <1>5 DEF IndInv, EndpointsSound, WithTable
<1>10. /\ DOMAIN endpoints' = Nodes /\ endpoints'[n] = Moved(table, descs, k)
       /\ \A i \in Nodes : i # n => endpoints'[i] = endpoints[i]
  BY <1>2 DEF IndInv, EndpointsSound
<1>11. \A i \in Nodes : DOMAIN endpoints'[i] = DOMAIN E1[i]
  BY <1>8, <1>9, <1>10, MovedFacts
<1>12. names \in [Ends -> Nat] /\ \A e \in Ends : e[1] > pipes => names[e] = 0
  BY DEF IndInv, NamesSound
<1>13. names' \in [Ends -> Nat] /\ \A e \in Ends : names[e] <= names'[e]
  BY <1>2, <1>12
<1>14. /\ Grows(endpoints, names, endpoints', names')
       /\ Grows(E1, names, endpoints', names')
       /\ Grows(E1, names', endpoints', names')
  <2>1. \A i \in Nodes : DOMAIN endpoints[i] \subseteq DOMAIN E1[i]
    BY <1>8 DEF Grows
  <2>2. \A e \in Ends : names'[e] <= names'[e]
    BY <1>13
  <2> QED BY <1>11, <1>12, <1>13, <2>1, <2>2 DEF Grows
<1>15. ASSUME NEW d \in ToSet(old)
       PROVE  /\ names'[EndOf(d.cross)] = names[EndOf(d.cross)] + 1
              /\ Inchworm(d) \in ToSet(descs)
              /\ Inchworm(d) \in Carried(endpoints', names')
              /\ Inchworm(d).name = d.cross
  <2>1. d \in Carried(endpoints, names)
    BY <1>3
  <2>2. d.cross \in Names /\ EndOf(d.cross) \in Ends
    BY <2>1, EndsFit DEF Carried, Given
  <2>3. Inchworm(d) \in ToSet(descs)
    BY <1>5 DEF ToSet
  <2>4. Inchworm(d).name = d.cross
    <3>1. d = [name |-> d.name, cross |-> d.cross, peer |-> d.peer]
      BY <2>1 DEF Carried
    <3> QED BY <3>1 DEF Inchworm
  <2>5. names'[EndOf(d.cross)] = names[EndOf(d.cross)] + 1
    BY <1>2, <2>2, <2>3, <2>4
  <2>6. Inchworm(d) \in Carried(endpoints', names')
    BY <1>14, <2>1, <2>5, InchwormFacts
  <2> QED BY <2>3, <2>4, <2>5, <2>6
<1>16. /\ \A d \in ToSet(descs) : \E c \in ToSet(old) : d = Inchworm(c)
       /\ ToSet(descs) \subseteq Carried(endpoints', names')
       /\ descs \in Seq(Carried(endpoints', names'))
  <2>1. \A i \in DOMAIN old : old[i] \in ToSet(old)
    BY <1>3, ToSetFacts
  <2>2. \A i \in DOMAIN old : descs[i] \in Carried(endpoints', names')
    BY <1>5, <1>15, <2>1
  <2>3. descs \in Seq(Carried(endpoints', names'))
    <3> DEFINE S == Carried(endpoints', names')
    <3>1. Len(old) \in Nat /\ DOMAIN old = 1..Len(old)
      BY <1>3
    <3>2. \A i \in DOMAIN old : descs[i] \in S
      BY <2>2
    <3> HIDE DEF S
    <3>3. descs \in Seq(S)
      BY <1>5, <3>1, <3>2, SMTT(30)
    <3> QED BY <3>3 DEF S
  <2>4. \A d \in ToSet(descs) : \E i \in DOMAIN old : d = descs[i]
    BY <1>5 DEF ToSet
  <2>5. \A d \in ToSet(descs) : \E c \in ToSet(old) : d = Inchworm(c)
    BY <1>5, <2>1, <2>4, SMTT(30)
  <2>6. ToSet(descs) \subseteq Carried(endpoints', names')
    BY <1>5, <2>2, <2>4
  <2> QED BY <2>3, <2>5, <2>6
<1>17. NamesSound(names', pipes)
  <2>1. ASSUME NEW e \in Ends, e[1] > pipes PROVE names'[e] = 0
    <3>1. names[e] = 0
      BY <1>12, <2>1
    <3>2. ASSUME NEW d \in ToSet(descs), EndOf(d.name) = e PROVE FALSE
      <4>1. PICK c \in ToSet(old) : d = Inchworm(c)
        BY <1>16
      <4>2. c.cross \in Given(names) /\ EndOf(c.cross) = e
        BY <1>3, <1>15, <3>2, <4>1 DEF Carried
      <4>3. c.cross[3] < 0 /\ c.cross[3] \in Nat
        BY <3>1, <4>2 DEF Given, Names
      <4> QED BY <4>3
    <3> QED BY <1>2, <3>1, <3>2
  <2> QED BY <1>13, <2>1 DEF NamesSound
<1>18. /\ out \in RoutedMail(endpoints', names') /\ out.type = "USER"
       /\ out.target = a.ep /\ out.descs = descs
  <2>1. msg \in RoutedMail(endpoints', names')
    BY <1>3, <1>14, RoutedMailGrows
  <2>2. a.ep \in Names
    BY <1>4 DEF Addresses
  <2>3. EndOf(a.ep) = Partner(EndOf(msg.id))
    <3>1. EndOf(msg.target) = Partner(EndOf(msg.id))
      BY <1>3 DEF RoutedMail
    <3> QED BY <1>4, <1>5, <3>1
  <2>4. msg \in Mail(endpoints', names')
    BY <2>1 DEF RoutedMail
  <2>5. /\ out \in Mail(endpoints', names') /\ out.type = "USER" /\ out.id = msg.id
        /\ out.target = a.ep /\ out.descs = descs
    BY <1>5, <1>16, <2>2, <2>4 DEF Mail
  <2> QED BY <2>3, <2>5 DEF RoutedMail
<1>19. WiresStep(endpoints', names', channels, pending, wire, wire')
  <2>1. \A y : Carries(Head(wire[m][n]), y) => y \in DOMAIN endpoints'[n]
    BY <1>5, <1>8, <1>11 DEF Carries
  <2>2. out \in Traffic(endpoints', names', channels, pending, n, k)
    BY <1>18 DEF Traffic
  <2>3. Leads(wire[n][k], DOMAIN endpoints'[k], out.target)
    BY <1>4, <1>10, <1>18
  <2>4. k \in Nodes /\ k # n
    BY <1>4
  <2> QED BY <1>3, <1>6, <2>1, <2>2, <2>3, <2>4, WiresReadWrite
<1>20. ASSUME NEW d \in ToSet(descs)
       PROVE  Reaches(endpoints', wire', n, Address(k, d.cross))
  <2>1. Carries(out, d.cross)
    BY <1>18 DEF Carries
  <2>2. wire[n][k] \in Seq(Traffic(endpoints, names, channels, pending, n, k))
    BY <1>4, WireIsSeq DEF IndInv
  <2>3. wire'[n][k] = Append(wire[n][k], out)
    BY <1>4, <1>6 DEF IndInv, WiresSound
  <2>4. Leads(wire'[n][k], DOMAIN endpoints'[k], d.cross)
    BY <2>1, <2>2, <2>3, LeadsAppended
  <2> QED BY <2>4 DEF Reaches, Address
<1>21. ASSUME NEW y \in DOMAIN table, y \in DescriptorNames(descs)
       PROVE  /\ endpoints'[n][y] \in SoundEndpoints(endpoints', names', n, y)
              /\ Reaches(endpoints', wire', n, endpoints'[n][y].target)
  <2>1. PICK d \in ToSet(descs) :
           d.name = y /\ endpoints'[n][y] = Proxying(table[y], Address(k, d.cross))
    BY <1>10, <1>21, MovedFacts
  <2> DEFINE ep == table[y]
  <2>2. ep \in SoundEndpoints(endpoints', names', n, d.name)
    BY <1>8, <1>14, <2>1, SoundEndpointsGrow
  <2>3. d \in Carried(endpoints', names')
    BY <1>16
  <2> HIDE DEF ep
  <2>4. /\ Proxying(ep, Address(k, d.cross)) \in SoundEndpoints(endpoints', names', n, d.name)
        /\ Proxying(ep, Address(k, d.cross)).target = Address(k, d.cross)
    <3>1. ASSUME NEW E2, NEW N2, d \in Carried(E2, N2), NEW j \in Nodes \ {n},
                 NEW o \in SoundEndpoints(E2, N2, n, d.name)
          PROVE  /\ Proxying(o, Address(j, d.cross)) \in SoundEndpoints(E2, N2, n, d.name)
                 /\ Proxying(o, Address(j, d.cross)).target = Address(j, d.cross)
      <4>1. Proxying(o, Address(j, d.cross)) \in SoundEndpoints(E2, N2, n, d.name)
        BY <3>1, ProxySound
      <4>2. Proxying(o, Address(j, d.cross)).target = Address(j, d.cross)
        <5> DEFINE b == Address(j, d.cross)
        <5> HIDE DEF b
        <5>1. Proxying(o, b).target = b
          BY DEF Proxying, SoundEndpoints
        <5> QED BY <5>1 DEF b
      <4> QED BY <4>1, <4>2
    <3>2. k \in Nodes \ {n}
      BY <1>4
    <3> QED BY <2>2, <2>3, <3>1, <3>2
  <2>5. endpoints'[n][y] = Proxying(ep, Address(k, d.cross)) /\ d.name = y
    BY <2>1 DEF ep
  <2> QED BY <1>20, <2>4, <2>5, Zenon
<1>22. EndpointsStep(endpoints, endpoints', names', wire')
  <2> SUFFICES ASSUME NEW i \in Nodes, NEW y \in DOMAIN endpoints'[i]
               PROVE  \/ y \in DOMAIN endpoints[i] /\ endpoints'[i][y] = endpoints[i][y]
                      \/ /\ y \in Given(names')
                         /\ endpoints'[i][y] \in SoundEndpoints(endpoints', names', i, y)
                         /\ endpoints'[i][y].state = "proxying" =>
                               Reaches(endpoints', wire', i, endpoints'[i][y].target)
    BY <1>10 DEF EndpointsStep
  <2>1. CASE i # n
    BY <1>10, <2>1
  <2>2. CASE i = n /\ y \in DescriptorNames(descs)
    <3>1. y \in DOMAIN table
      BY <1>8, <1>11, <2>2
    <3>2. y \in Given(names')
      BY <1>8, <1>14, <3>1, GivenGrows
    <3> QED BY <1>21, <2>2, <3>1, <3>2
  <2>3. CASE i = n /\ y \notin DescriptorNames(descs)
    <3>1. y \in DOMAIN E1[n] /\ endpoints'[n][y] = E1[n][y]
      <4>1. y \in DOMAIN E1[n] /\ y \in DOMAIN table
        BY <1>8, <1>11, <2>3
      <4>2. Moved(table, descs, k)[y] = table[y]
        BY <2>3, <4>1, MovedFacts DEF DescriptorNames
      <4> QED BY <1>8, <1>10, <4>1, <4>2
    <3>2. CASE y \in DOMAIN endpoints[n] /\ E1[n][y] = endpoints[n][y]
      BY <2>3, <3>1, <3>2
    <3>3. CASE /\ y \in Given(names) /\ E1[n][y] \in SoundEndpoints(E1, names, n, y)
               /\ E1[n][y].state = "proxying" => Reaches(E1, wire', n, E1[n][y].target)
      <4>1. y \in Given(names') /\ E1[n][y] \in SoundEndpoints(endpoints', names', n, y)
        BY <1>14, <3>3, GivenGrows, SoundEndpointsGrow
      <4>2. ASSUME E1[n][y].state = "proxying"
            PROVE  Reaches(endpoints', wire', n, E1[n][y].target)
        <5>1. E1[n][y].target.node \in Nodes
          BY <3>3, <4>2 DEF SoundEndpoints, Onward, Addresses
        <5>2. Reaches(E1, wire', n, E1[n][y].target)
          BY <3>3, <4>2
        <5> QED BY <1>11, <5>1, <5>2 DEF Reaches
      <4> QED BY <2>3, <3>1, <4>1, <4>2
    <3>4. EndpointsStep(endpoints, E1, names, wire')
      BY <1>7
    <3> QED BY <3>1, <3>2, <3>3, <3>4 DEF EndpointsStep
  <2> QED BY <2>1, <2>2, <2>3
<1>23. StepsSoundly
  BY <1>1, <1>14, <1>19, <1>22, SteadyAlone, CallsAlone, TasksAlone, HeldAlone
     DEF StepsSoundly
<1> QED BY <1>1, <1>17, <1>23 DEF IndInv, RestSound, CountersSound
-----------------------------------------------------------------------------
(* The invariant holds.                                                      *)

\* Nothing exists yet.
LEMMA InitSound == Init => IndInv
<1> SUFFICES ASSUME Init PROVE IndInv
  OBVIOUS
<1>1. CountersSound
  BY BoundsAssumption DEF Init, CountersSound
<1>2. NamesSound(names, pipes)
  BY DEF Init, NamesSound
<1>3. /\ DOMAIN endpoints = Nodes /\ \A n \in Nodes : DOMAIN endpoints[n] = {}
      /\ DOMAIN channels = Nodes /\ \A n \in Nodes : DOMAIN channels[n] = {}
      /\ DOMAIN pending = Nodes /\ \A n \in Nodes : DOMAIN pending[n] = {}
  BY DEF Init
<1>4. EndpointsSound(endpoints, names) /\ ProxiesReach(endpoints, wire)
  BY <1>3 DEF EndpointsSound, ProxiesReach
<1>5. ChannelsSound(channels) /\ PendingSound(channels, pending)
  BY <1>3 DEF ChannelsSound, PendingSound
<1>6. WiresSound(endpoints, names, channels, pending, wire)
  BY EmptySeq DEF Init, WiresSound
<1>7. WiresOrdered(endpoints, wire)
  BY DEF Init, WiresOrdered, Ordered
<1>8. CallsSound(endpoints, names, wire, call)
  <2>1. \A n \in Nodes : Idle \in Calls(endpoints, names, wire, n)
    BY EmptySeq DEF Idle, Calls
  <2>2. DOMAIN call = Nodes
        /\ \A n \in Nodes : /\ DOMAIN call[n] = AllThreads
                            /\ \A t \in AllThreads : call[n][t] = Idle
    BY DEF Init
  <2> QED BY <2>1, <2>2 DEF CallsSound
<1>9. TasksSound(endpoints, names, tasks)
  BY EmptySeq DEF Init, TasksSound
<1>10. HeldSound(endpoints, held)
  BY DEF Init, HeldSound
<1>11. GotSound(got)
  BY EmptySeq DEF Init, GotSound
<1> QED BY <1>1, <1>2, <1>4, <1>5, <1>6, <1>7, <1>8, <1>9, <1>10, <1>11 DEF IndInv

\* Every step of the network writes only what is sound.
LEMMA NextSound == IndInv /\ [Next]_vars => IndInv'
<1> SUFFICES ASSUME IndInv, [Next]_vars PROVE IndInv'
  OBVIOUS
<1>1. ASSUME StepsSoundly, RestSound' PROVE IndInv'
  BY <1>1, SoundStepKeeps DEF RestSound, IndInv
<1>2. ASSUME NEW n \in Nodes, NEW t \in Threads, Application(n, t)
      PROVE  StepsSoundly /\ RestSound'
  <2>1. CASE CreateMessagePipes(n, t)
    BY <2>1, CreateMessagePipesSound
  <2>2. ASSUME NEW m \in Nodes, SendInvitation(n, t, m) PROVE StepsSoundly /\ RestSound'
    BY <2>2, SendInvitationSound
  <2>3. CASE AcceptInvitation(n, t)
    BY <2>3, AcceptInvitationSound
  <2>4. CASE SendMessage(n, t)
    BY <2>4, SendMessageSound
  <2>5. ASSUME NEW x \in held[n], Bind(n, t, x) PROVE StepsSoundly /\ RestSound'
    BY <2>5, BindSound
  <2> QED BY <1>2, <2>1, <2>2, <2>3, <2>4, <2>5 DEF Application
<1>3. ASSUME NEW n \in Nodes, NEW m \in Nodes,
             \/ OnReceivedInvitation(n, m)
             \/ OnReceivedAcceptInvitation(n, m)
             \/ OnReceivedUserMessage(n, m)
             \/ ForwardUserMessage(n, m)
      PROVE  StepsSoundly /\ RestSound'
  BY <1>3, OnReceivedInvitationSound, OnReceivedAcceptInvitationSound,
     OnReceivedUserMessageSound, ForwardUserMessageSound
<1>4. ASSUME NEW n \in Nodes, NEW t \in AllThreads, Flush(n, t)
      PROVE  StepsSoundly /\ RestSound'
  BY <1>4, FlushOneSound, FlushDoneSound DEF Flush
<1>5. CASE Next
  <2>1. PICK n \in Nodes :
           \/ \E t \in Threads : Application(n, t) \/ RunTask(n, t)
           \/ IOThread(n)
           \/ \E t \in AllThreads : Flush(n, t)
    BY <1>5 DEF Next
  <2>2. CASE \E t \in Threads : Application(n, t) \/ RunTask(n, t)
    BY <1>1, <1>2, <2>2, RunTaskSound
  <2>3. CASE IOThread(n)
    BY <1>1, <1>3, <2>3 DEF IOThread
  <2>4. CASE \E t \in AllThreads : Flush(n, t)
    BY <1>1, <1>4, <2>4
  <2> QED BY <2>1, <2>2, <2>3, <2>4
<1>6. CASE UNCHANGED vars
  BY <1>6 DEF vars, netVars, appVars, IndInv, CountersSound
<1> QED BY <1>5, <1>6

\* The inductive invariant holds in every behaviour of any network.
THEOREM InductiveInvariant == Spec => []IndInv
<1>1. Init => IndInv
  BY InitSound
<1>2. IndInv /\ [Next]_vars => IndInv'
  BY NextSound
<1> QED BY <1>1, <1>2, PTL DEF Spec
-----------------------------------------------------------------------------
(* What it says.                                                             *)

\* A receiver is never given a message that was not sent on the other end of
\* its own pipe, whichever way the two ends have moved.
THEOREM RightReceiverAlways == Spec => []RightReceiver
<1>1. IndInv => RightReceiver
  <2> SUFFICES ASSUME IndInv, NEW e \in Ends, NEW id \in ToSet(got[e])
               PROVE  EndOf(id) = Partner(e)
    BY DEF RightReceiver
  <2>1. got[e] \in Seq(SentTo(e))
    BY DEF IndInv, GotSound
  <2>2. id \in SentTo(e)
    BY <2>1, ToSetFacts
  <2> QED BY <2>2 DEF SentTo
<1> QED BY <1>1, InductiveInvariant, PTL

\* No user message is ahead, on its wire, of the message that introduces its
\* target: a node that reads it can find the endpoint.
THEOREM NoOrphansEver == Spec => []NoOrphans
<1>1. IndInv => NoOrphans
  <2> SUFFICES ASSUME IndInv, NEW m \in Nodes, NEW n \in Nodes, NEW i \in DOMAIN wire[m][n],
                      wire[m][n][i].type = "USER"
               PROVE  \/ wire[m][n][i].target \in Local(n)
                      \/ Introduced(m, n, wire[m][n][i].target, i - 1)
    BY DEF NoOrphans
  <2>1. Ordered(wire[m][n], DOMAIN endpoints[n])
    BY DEF IndInv, WiresOrdered
  <2> QED BY <2>1 DEF Ordered, Carries, Introduced, Local
<1> QED BY <1>1, InductiveInvariant, PTL

\* A proxy leads to a later stage of the same end, at another node or on its
\* way there.
THEOREM ProxiesAlwaysLeadOn == Spec => []ProxiesLeadOn
<1>1. IndInv => ProxiesLeadOn
  <2> SUFFICES ASSUME IndInv, NEW n \in Nodes, NEW x \in DOMAIN endpoints[n],
                      endpoints[n][x].state = "proxying"
               PROVE  LET a == endpoints[n][x].target
                      IN /\ a.node # n
                         /\ EndOf(a.ep) = EndOf(x) /\ a.ep[3] > x[3]
                         /\ \/ a.ep \in Local(a.node)
                            \/ Introduced(n, a.node, a.ep, Len(wire[n][a.node]))
    BY DEF ProxiesLeadOn, Local
  <2> DEFINE a == endpoints[n][x].target
  <2>1. a \in Onward(n, x)
    BY EndpointFacts DEF SoundEndpoints
  <2>2. Reaches(endpoints, wire, n, a)
    BY DEF IndInv, ProxiesReach
  <2> HIDE DEF a
  <2>3. a.node \in Nodes /\ a.node # n /\ EndOf(a.ep) = EndOf(x) /\ a.ep[3] > x[3]
    BY <2>1 DEF Onward, Addresses
  <2>4. DOMAIN wire[n][a.node] = 1..Len(wire[n][a.node])
    BY <2>3, WireIsSeq DEF IndInv
  <2>5. \/ a.ep \in Local(a.node)
        \/ Introduced(n, a.node, a.ep, Len(wire[n][a.node]))
    BY <2>2, <2>4 DEF Reaches, Leads, Carries, Introduced, Local
  <2> QED BY <2>3, <2>5 DEF a
<1> QED BY <1>1, InductiveInvariant, PTL
-----------------------------------------------------------------------------
(* Types.                                                                    *)

\* Mail is made of user messages.
LEMMA MailTyped ==
    ASSUME NEW E, NEW N, NEW msg \in Mail(E, N)
    PROVE  IsUserMessage(msg)
<1>1. /\ msg.type = "USER" /\ msg.id \in Ids /\ msg.target \in Names
      /\ msg.descs \in Seq(Carried(E, N)) /\ msg.pipes \in Seq(Names)
  BY DEF Mail
<1>2. Carried(E, N) \subseteq Descriptors
  BY DEF Carried, Given, Descriptors
<1>3. ToSet(msg.descs) \subseteq Carried(E, N) /\ ToSet(msg.pipes) \subseteq Names
  BY <1>1, ToSetFacts
<1> QED BY <1>1, <1>2, <1>3 DEF IsUserMessage

\* Traffic is made of user messages and control messages.
LEMMA TrafficTyped ==
    ASSUME IndInv, NEW n \in Nodes, NEW m \in Nodes,
           NEW msg \in Traffic(endpoints, names, channels, pending, m, n)
    PROVE  IsUserMessage(msg) \/ IsControlMessage(msg)
<1>1. CASE msg \in RoutedMail(endpoints, names)
  BY <1>1, MailTyped DEF RoutedMail
<1>2. \A k \in Nodes : DOMAIN endpoints[k] \subseteq Names
  BY EndpointFacts
<1>3. CASE msg \in Invites(endpoints, names, channels, pending, m, n)
  <2>1. msg \in [type : {"INVITE"}, inviter : {m}, temporary : {Temporary(n)},
                 peer : DOMAIN endpoints[m]]
    BY <1>3 DEF Invites
  <2>2. Temporary(n) \in Keys
    BY TemporaryFacts
  <2>3. DOMAIN endpoints[m] \subseteq Names
    BY <1>2
  <2> QED BY <2>1, <2>2, <2>3 DEF IsControlMessage
<1>4. CASE msg \in Accepts(endpoints, channels, pending, n, m)
  <2>1. msg \in [type : {"ACCEPT"}, temporary : {Temporary(m)}, node : {m},
                 ep : DOMAIN endpoints[m]]
    BY <1>4 DEF Accepts
  <2>2. Temporary(m) \in Keys
    BY TemporaryFacts
  <2>3. DOMAIN endpoints[m] \subseteq Names
    BY <1>2
  <2> QED BY <2>1, <2>2, <2>3 DEF IsControlMessage
<1> QED BY <1>1, <1>3, <1>4 DEF Traffic

\* The variables of one node are of their types.
LEMMA NodeTyped ==
    ASSUME IndInv, NEW n \in Nodes
    PROVE  /\ Local(n) \subseteq Names
           /\ \A x \in Local(n) : IsEndpoint(endpoints[n][x])
           /\ DOMAIN channels[n] \subseteq Keys
           /\ \A k \in DOMAIN channels[n] : channels[n][k] \in Nodes \ {n}
           /\ DOMAIN pending[n] \subseteq Keys
           /\ \A k \in DOMAIN pending[n] : pending[n][k] \in Names
           /\ held[n] \subseteq Names
<1>1. Local(n) \subseteq Names
  BY EndpointFacts DEF Local
<1>2. ASSUME NEW x \in Local(n) PROVE IsEndpoint(endpoints[n][x])
  <2> DEFINE ep == endpoints[n][x]
  <2>1. ep \in SoundEndpoints(endpoints, names, n, x)
    BY EndpointFacts DEF Local
  <2> HIDE DEF ep
  <2>2. ep.queue \in Seq(QueuedMail(endpoints, names, n, EndOf(x)))
    BY <2>1 DEF SoundEndpoints
  <2>3. ToSet(ep.queue) \subseteq QueuedMail(endpoints, names, n, EndOf(x))
    BY <2>2, ToSetFacts
  <2>4. \A msg \in ToSet(ep.queue) : IsUserMessage(msg)
    BY <2>3, MailTyped DEF QueuedMail
  <2>5. ep.peer \in Addresses
    BY <2>1 DEF SoundEndpoints, Peers
  <2>6. /\ ep.state \in {"queueing", "bound", "proxying"}
        /\ ep.target \in Addresses \cup {NoAddress}
        /\ ep.runner \in Threads \cup {NoOne}
    BY <2>1 DEF SoundEndpoints
  <2>7. IsEndpoint(ep)
    BY <2>4, <2>5, <2>6 DEF IsEndpoint
  <2> QED BY <2>7 DEF ep
<1>3. \A k \in DOMAIN channels[n] : ChannelOk(n, k, channels[n][k])
  BY DEF IndInv, ChannelsSound
<1>4. \A k \in DOMAIN channels[n] : k \in Keys /\ channels[n][k] \in Nodes \ {n}
  BY <1>3 DEF ChannelOk
<1>5. \A k \in DOMAIN pending[n] : PendingOk(channels, n, k, pending[n][k])
  BY DEF IndInv, PendingSound
<1>6. \A k \in DOMAIN pending[n] : k \in Keys /\ pending[n][k] \in Names
  BY <1>5, TemporaryFacts DEF PendingOk
<1>7. held[n] \subseteq Names
  BY <1>1 DEF IndInv, HeldSound, Local
<1> QED BY <1>1, <1>2, <1>4, <1>6, <1>7

\* What the threads of one node are at is of its type.
LEMMA ThreadsTyped ==
    ASSUME IndInv, NEW n \in Nodes
    PROVE  /\ \A t \in AllThreads :
                 /\ call[n][t].op \in {"idle", "send", "accept"}
                 /\ call[n][t].via \in Names \cup {NoOne}
                 /\ call[n][t].lock \in Names \cup {NoOne}
                 /\ call[n][t].dest \in Keys \cup {NoOne}
                 /\ \A msg \in ToSet(call[n][t].msgs) : IsUserMessage(msg)
           /\ \A t \in Threads : \A task \in ToSet(tasks[n][t]) :
                 \/ task.op = "message" /\ task.ep \in Names /\ IsUserMessage(task.msg)
                 \/ task.op = "joined" /\ task.ep \in Names
                 \/ task.op = "accepted" /\ task.node \in Nodes
<1>1. ASSUME NEW t \in AllThreads
      PROVE  /\ call[n][t].op \in {"idle", "send", "accept"}
             /\ call[n][t].via \in Names \cup {NoOne}
             /\ call[n][t].lock \in Names \cup {NoOne}
             /\ call[n][t].dest \in Keys \cup {NoOne}
             /\ \A msg \in ToSet(call[n][t].msgs) : IsUserMessage(msg)
  <2>1. call[n][t] \in Calls(endpoints, names, wire, n)
    BY DEF IndInv, CallsSound
  <2>2. call[n][t] \in [op : {"idle", "send", "accept"}, via : Names \cup {NoOne},
                        lock : Names \cup {NoOne}, dest : Nodes \cup {NoOne},
                        msgs : Seq(RoutedMail(endpoints, names))]
    BY <2>1 DEF Calls
  <2>3. ToSet(call[n][t].msgs) \subseteq RoutedMail(endpoints, names)
    BY <2>2, ToSetFacts
  <2>4. \A msg \in ToSet(call[n][t].msgs) : IsUserMessage(msg)
    BY <2>3, MailTyped DEF RoutedMail
  <2> QED BY <2>2, <2>4 DEF Keys
<1>2. ASSUME NEW t \in Threads, NEW task \in ToSet(tasks[n][t])
      PROVE  \/ task.op = "message" /\ task.ep \in Names /\ IsUserMessage(task.msg)
             \/ task.op = "joined" /\ task.ep \in Names
             \/ task.op = "accepted" /\ task.node \in Nodes
  <2>1. task \in Tasks(endpoints, names, n)
    <3>1. tasks[n][t] \in Seq(Tasks(endpoints, names, n))
      BY DEF IndInv, TasksSound
    <3> QED BY <3>1, ToSetFacts
  <2>2. DOMAIN endpoints[n] \subseteq Names
    BY EndpointFacts
  <2> QED BY <2>1, <2>2, MailTyped DEF Tasks
<1> QED BY <1>1, <1>2

\* Every variable of any network stays within its type.
THEOREM TypeCorrect == Spec => []TypeOK
<1>1. IndInv => TypeOK
  <2> SUFFICES ASSUME IndInv PROVE TypeOK
    OBVIOUS
  <2>1. ASSUME NEW n \in Nodes, NEW m \in Nodes, NEW msg \in ToSet(wire[m][n])
        PROVE  IsUserMessage(msg) \/ IsControlMessage(msg)
    <3>1. wire[m][n] \in Seq(Traffic(endpoints, names, channels, pending, m, n))
      BY WireIsSeq DEF IndInv
    <3>2. msg \in Traffic(endpoints, names, channels, pending, m, n)
      BY <3>1, ToSetFacts
    <3> QED BY <3>2, TrafficTyped
  <2>2. /\ joined \subseteq Nodes /\ names \in [Ends -> Nat] /\ sent \in [Ends -> Nat]
        /\ pipes \in 0..MaxPipes /\ moves \in [1..MaxPipes -> Nat]
        /\ carriers \subseteq 1..MaxPipes
        /\ \A n \in Nodes : acceptCallback[n] \in Nodes \cup {NoOne} /\ told[n] \subseteq Nodes
    BY DEF IndInv, CountersSound, NamesSound
  <2>3. ASSUME NEW e \in Ends PROVE ToSet(got[e]) \subseteq Ids
    <3>1. got[e] \in Seq(SentTo(e))
      BY DEF IndInv, GotSound
    <3>2. ToSet(got[e]) \subseteq SentTo(e)
      BY <3>1, ToSetFacts
    <3> QED BY <3>2 DEF SentTo
  <2> QED BY <2>1, <2>2, <2>3, NodeTyped, ThreadsTyped DEF TypeOK
<1> QED BY <1>1, InductiveInvariant, PTL
-----------------------------------------------------------------------------
(* Routes.                                                                   *)

\* What may become of an endpoint: its peer stays, and once it is bound or a
\* proxy all but its queue does.
Kept(ep, ep2) ==
    /\ ep2.peer = ep.peer
    /\ ep.state # "queueing" => [ep2 EXCEPT !.queue = << >>] = [ep EXCEPT !.queue = << >>]

\* No endpoint is forgotten, and each becomes what it may.
RoutesKept(E, E2) ==
    \A n \in Nodes : \A x \in DOMAIN E[n] : x \in DOMAIN E2[n] /\ Kept(E[n][x], E2[n][x])

\* Only the table of n changes.
LEMMA RoutesOne ==
    ASSUME IndInv, NEW n \in Nodes, NEW table, NEW E2,
           E2 = WithTable(endpoints, n, table),
           \A x \in DOMAIN endpoints[n] : x \in DOMAIN table /\ Kept(endpoints[n][x], table[x])
    PROVE  RoutesKept(endpoints, E2)
<1>1. E2[n] = table /\ \A m \in Nodes : m # n => E2[m] = endpoints[m]
  BY DEF IndInv, EndpointsSound, WithTable
<1> QED BY <1>1 DEF RoutesKept, Kept

\* Entries are added.
LEMMA InsertKeeps ==
    ASSUME NEW map, NEW more, NEW x \in DOMAIN map
    PROVE  x \in DOMAIN InsertAll(map, more) /\ InsertAll(map, more)[x] = map[x]
BY DEF InsertAll

\* The actions that only add endpoints, or none.
LEMMA AddingKeeps ==
    ASSUME IndInv, NEW n \in Nodes,
           \/ endpoints' = endpoints
           \/ \E more : endpoints' = [endpoints EXCEPT ![n] = InsertAll(@, more)]
    PROVE  RoutesKept(endpoints, endpoints')
<1>1. CASE endpoints' = endpoints
  BY <1>1 DEF RoutesKept, Kept
<1>2. ASSUME NEW more, endpoints' = [endpoints EXCEPT ![n] = InsertAll(@, more)]
      PROVE  RoutesKept(endpoints, endpoints')
  <2> DEFINE table == InsertAll(endpoints[n], more)
  <2>1. endpoints' = WithTable(endpoints, n, table)
    BY <1>2 DEF WithTable
  <2>2. \A x \in DOMAIN endpoints[n] : x \in DOMAIN table /\ Kept(endpoints[n][x], table[x])
    BY InsertKeeps DEF Kept
  <2> HIDE DEF table
  <2> QED BY <2>1, <2>2, RoutesOne
<1> QED BY <1>1, <1>2

\* A message is accepted, in a table that has kept all endpoints.
LEMMA AcceptMessageKeeps ==
    ASSUME IndInv, NEW n \in Nodes, NEW table, NEW x \in DOMAIN table, NEW msg,
           \A y \in DOMAIN endpoints[n] : y \in DOMAIN table /\ table[y] = endpoints[n][y],
           AcceptMessage(n, table, x, msg)
    PROVE  RoutesKept(endpoints, endpoints')
<1>1. CASE endpoints' = [endpoints EXCEPT ![n] = table]
  <2>1. endpoints' = WithTable(endpoints, n, table)
    BY <1>1 DEF WithTable
  <2>2. \A y \in DOMAIN endpoints[n] : y \in DOMAIN table /\ Kept(endpoints[n][y], table[y])
    BY DEF Kept
  <2> QED BY <2>1, <2>2, RoutesOne
<1>2. CASE /\ table[x].state = "queueing"
           /\ endpoints' = [endpoints EXCEPT ![n] = [table EXCEPT ![x].queue = Append(@, msg)]]
  <2> DEFINE table2 == [table EXCEPT ![x].queue = Append(@, msg)]
  <2>1. endpoints' = WithTable(endpoints, n, table2)
    BY <1>2 DEF WithTable
  <2>2. /\ DOMAIN table2 = DOMAIN table
        /\ \A y \in DOMAIN table : y # x => table2[y] = table[y]
        /\ table2[x] = [table[x] EXCEPT !.queue = Append(table[x].queue, msg)]
    OBVIOUS
  <2> HIDE DEF table2
  <2>3. ASSUME NEW y \in DOMAIN endpoints[n]
        PROVE  y \in DOMAIN table2 /\ Kept(endpoints[n][y], table2[y])
    <3>1. y \in DOMAIN table2 /\ table[y] = endpoints[n][y]
      BY <2>2
    <3>2. CASE y # x
      BY <2>2, <3>1, <3>2 DEF Kept
    <3>3. CASE y = x
      <4> DEFINE ep == endpoints[n][y]
      <4>1. ep \in SoundEndpoints(endpoints, names, n, y)
        BY EndpointFacts
      <4>2. table2[y] = [ep EXCEPT !.queue = Append(ep.queue, msg)] /\ ep.state = "queueing"
        BY <1>2, <2>2, <3>1, <3>3
      <4> HIDE DEF ep
      <4>3. table2[y].peer = ep.peer
        BY <4>1, <4>2 DEF SoundEndpoints
      <4>4. Kept(ep, table2[y])
        BY <4>2, <4>3 DEF Kept
      <4> QED BY <3>1, <4>4 DEF ep
    <3> QED BY <3>2, <3>3
  <2> QED BY <2>1, <2>3, RoutesOne
<1> QED BY <1>1, <1>2 DEF AcceptMessage

\* A queueing endpoint is bound, or becomes a proxy.
LEMMA WrittenKeeps ==
    ASSUME IndInv, NEW n \in Nodes, NEW x \in DOMAIN endpoints[n], NEW ep,
           endpoints[n][x].state = "queueing", ep.peer = endpoints[n][x].peer,
           NEW E2, E2 = Written(endpoints, n, x, ep)
    PROVE  RoutesKept(endpoints, E2)
<1>1. /\ DOMAIN E2 = Nodes /\ DOMAIN E2[n] = DOMAIN endpoints[n] /\ E2[n][x] = ep
      /\ \A y \in DOMAIN endpoints[n] : y # x => E2[n][y] = endpoints[n][y]
      /\ \A m \in Nodes : m # n => E2[m] = endpoints[m]
  BY DEF IndInv, EndpointsSound, Written
<1> QED BY <1>1 DEF RoutesKept, Kept

\* The endpoints of a message move on, from a table that has kept all.
LEMMA MovedKeeps ==
    ASSUME IndInv, NEW n \in Nodes, NEW table, NEW descs, NEW dest,
           \A y \in DOMAIN endpoints[n] : y \in DOMAIN table /\ table[y] = endpoints[n][y],
           \A y \in DOMAIN endpoints[n] :
               y \in DescriptorNames(descs) => endpoints[n][y].state = "queueing",
           NEW E2, E2 = WithTable(endpoints, n, Moved(table, descs, dest))
    PROVE  RoutesKept(endpoints, E2)
<1> DEFINE table2 == Moved(table, descs, dest)
<1>1. DOMAIN table2 = DOMAIN table
  BY MovedFacts
<1>2. ASSUME NEW y \in DOMAIN endpoints[n]
      PROVE  y \in DOMAIN table2 /\ Kept(endpoints[n][y], table2[y])
  <2>1. CASE y \notin DescriptorNames(descs)
    <3>1. table2[y] = table[y]
      BY <2>1 DEF Moved
    <3> QED BY <1>1, <3>1 DEF Kept
  <2>2. CASE y \in DescriptorNames(descs)
    <3> DEFINE ep == endpoints[n][y]
               a  == Address(dest, DescriptorOf(y, descs).cross)
    <3>1. table2[y] = Proxying(ep, a) /\ ep.state = "queueing"
      BY <2>2 DEF Moved
    <3>2. ep \in SoundEndpoints(endpoints, names, n, y)
      BY EndpointFacts
    <3> HIDE DEF ep, a, table2
    <3>3. table2[y].peer = ep.peer
      BY <3>1, <3>2 DEF Proxying, SoundEndpoints
    <3>4. Kept(ep, table2[y])
      BY <3>1, <3>3 DEF Kept
    <3> QED BY <1>1, <3>4 DEF ep
  <2> QED BY <2>1, <2>2
<1> HIDE DEF table2
<1>3. E2 = WithTable(endpoints, n, table2)
  BY DEF table2
<1> QED BY <1>2, <1>3, RoutesOne

\* Sending keeps the routes.
LEMMA SendMessageKeeps ==
    ASSUME IndInv, NEW n \in Nodes, NEW t \in Threads, SendMessage(n, t)
    PROVE  RoutesKept(endpoints, endpoints')
<1>1. CASE endpoints' = endpoints
  BY <1>1, AddingKeeps
<1>2. ASSUME NEW c, NEW hs, SendToLocalPeer(n, t, c, hs)
      PROVE  RoutesKept(endpoints, endpoints')
  <2> DEFINE table == endpoints[n]
             x     == endpoints[n][c].peer.ep
  <2>1. PICK msg : x \in DOMAIN table /\ AcceptMessage(n, table, x, msg)
    BY <1>2 DEF SendToLocalPeer, Local
  <2>2. \A y \in DOMAIN endpoints[n] : y \in DOMAIN table /\ table[y] = endpoints[n][y]
    OBVIOUS
  <2> HIDE DEF table, x
  <2> QED BY <2>1, <2>2, AcceptMessageKeeps
<1> QED BY <1>1, <1>2 DEF SendMessage, SendToRemotePeer, SendThroughProxy

\* So does what arrives.
LEMMA ReceptionKeeps ==
    ASSUME IndInv, NEW n \in Nodes, NEW m \in Nodes,
           \/ OnReceivedInvitation(n, m)
           \/ OnReceivedAcceptInvitation(n, m)
           \/ OnReceivedUserMessage(n, m)
           \/ ForwardUserMessage(n, m)
    PROVE  RoutesKept(endpoints, endpoints')
<1>1. CASE OnReceivedInvitation(n, m)
  <2>1. \E more : endpoints' = [endpoints EXCEPT ![n] = InsertAll(@, more)]
    BY <1>1 DEF OnReceivedInvitation, Insert
  <2> QED BY <2>1, AddingKeeps
<1>2. CASE OnReceivedAcceptInvitation(n, m)
  <2> DEFINE params == Head(wire[m][n])
             x  == pending[n][params.temporary]
             ep == endpoints[n][x]
             a  == Address(params.node, params.ep)
  <2>1. /\ x \in DOMAIN endpoints[n] /\ ep.state = "queueing"
        /\ endpoints' = [endpoints EXCEPT ![n][x] = Proxying(@, a)]
    BY <1>2 DEF OnReceivedAcceptInvitation, Local
  <2>2. ep \in SoundEndpoints(endpoints, names, n, x) /\ DOMAIN endpoints = Nodes
    BY <2>1, EndpointFacts DEF IndInv, EndpointsSound
  <2>3. endpoints' = Written(endpoints, n, x, Proxying(ep, a))
    BY <2>1, <2>2 DEF Written
  <2> HIDE DEF ep, a, x
  <2>4. Proxying(ep, a).peer = ep.peer
    BY <2>2 DEF Proxying, SoundEndpoints
  <2> DEFINE new == Proxying(ep, a)
  <2>5. new.peer = endpoints[n][x].peer /\ endpoints[n][x].state = "queueing"
        /\ endpoints' = Written(endpoints, n, x, new)
    BY <2>1, <2>3, <2>4 DEF ep
  <2> HIDE DEF new
  <2> QED BY <2>1, <2>5, WrittenKeeps
<1>3. CASE ReceivesUserMessage(n, m)
  <2> DEFINE old   == Head(wire[m][n]).descs
             x     == Head(wire[m][n]).target
             table == Recover(n, old)
  <2>1. /\ x \in DOMAIN endpoints[n]
        /\ \A d \in ToSet(old) : d.cross \notin DOMAIN endpoints[n]
        /\ ToSet(old) \subseteq Carried(endpoints, names)
    BY <1>3, ReceivedUserFacts
  <2>2. \A y \in DOMAIN endpoints[n] : y \in DOMAIN table /\ table[y] = endpoints[n][y]
    BY DEF Recover, InsertAll
  <2>3. CASE OnReceivedUserMessage(n, m)
    <3>1. PICK msg : AcceptMessage(n, table, x, msg)
      BY <2>3 DEF OnReceivedUserMessage
    <3> HIDE DEF table, x
    <3> QED BY <2>1, <2>2, <3>1, AcceptMessageKeeps
  <2>4. CASE ForwardUserMessage(n, m)
    <3> DEFINE descs == [i \in DOMAIN old |-> Inchworm(old[i])]
               k == endpoints[n][x].target.node
    <3>1. endpoints' = WithTable(endpoints, n, Moved(table, descs, k))
      BY <2>4 DEF ForwardUserMessage, WithTable
    <3>2. \A y \in DescriptorNames(descs) : y \notin DOMAIN endpoints[n]
      <4>1. \A d \in ToSet(descs) : \E c \in ToSet(old) : d = Inchworm(c)
        BY DEF ToSet
      <4>2. \A c \in ToSet(old) : Inchworm(c).name = c.cross
        <5> HIDE DEF old
        <5>1. \A c \in ToSet(old) : c = [name |-> c.name, cross |-> c.cross, peer |-> c.peer]
          BY <2>1 DEF Carried
        <5> QED BY <5>1 DEF Inchworm
      <4> HIDE DEF old, descs
      <4> QED BY <2>1, <4>1, <4>2 DEF DescriptorNames
    <3> HIDE DEF table, descs, k
    <3> QED BY <2>2, <3>1, <3>2, MovedKeeps
  <2> QED BY <1>1, <1>2, <2>3, <2>4
<1> QED BY <1>1, <1>2, <1>3 DEF OnReceivedUserMessage, ForwardUserMessage

\* So does a call.
LEMMA FlushKeeps ==
    ASSUME IndInv, NEW n \in Nodes, NEW t \in AllThreads, Flush(n, t)
    PROVE  RoutesKept(endpoints, endpoints')
<1>1. CASE FlushDone(n, t)
  <2>1. endpoints' = endpoints
    BY <1>1 DEF FlushDone
  <2> QED BY <2>1, AddingKeeps
<1>2. CASE FlushOne(n, t)
  <2> DEFINE table == endpoints[n]
             descs == Head(call[n][t].msgs).descs
             dest  == call[n][t].dest
  <2>1. \A x \in DescriptorNames(descs) : endpoints[n][x].state = "queueing"
    BY <1>2 DEF FlushOne
  <2>2. endpoints' = WithTable(endpoints, n, Moved(table, descs, dest))
    BY <1>2 DEF FlushOne, WithTable
  <2>3. \A y \in DOMAIN endpoints[n] : y \in DOMAIN table /\ table[y] = endpoints[n][y]
    OBVIOUS
  <2> HIDE DEF table, descs, dest
  <2> QED BY <2>1, <2>2, <2>3, MovedKeeps
<1> QED BY <1>1, <1>2 DEF Flush

\* So does what the application does, and what its threads run.
LEMMA ApplicationKeeps ==
    ASSUME IndInv, NEW n \in Nodes, NEW t \in Threads, Application(n, t) \/ RunTask(n, t)
    PROVE  RoutesKept(endpoints, endpoints')
<1>1. ASSUME CreatePipe(n) PROVE RoutesKept(endpoints, endpoints')
  <2>1. \E more : endpoints' = [endpoints EXCEPT ![n] = InsertAll(@, more)]
    BY <1>1 DEF CreatePipe
  <2> QED BY <2>1, AddingKeeps
<1>2. CASE AcceptInvitation(n, t) \/ RunTask(n, t)
  <2>1. endpoints' = endpoints
    BY <1>2 DEF AcceptInvitation, RunTask
  <2> QED BY <2>1, AddingKeeps
<1>3. ASSUME NEW x \in held[n], Bind(n, t, x) PROVE RoutesKept(endpoints, endpoints')
  <2> DEFINE ep  == endpoints[n][x]
             new == [ep EXCEPT !.state = "bound", !.runner = t, !.queue = << >>]
  <2>1. x \in DOMAIN endpoints[n] /\ ep.state = "queueing"
    BY <1>3 DEF IndInv, HeldSound, Bind
  <2>2. ep \in SoundEndpoints(endpoints, names, n, x) /\ DOMAIN endpoints = Nodes
    BY <2>1, EndpointFacts DEF IndInv, EndpointsSound
  <2>3. endpoints' = Written(endpoints, n, x, new)
    BY <1>3, <2>1, <2>2 DEF Bind, Written
  <2>4. new.peer = ep.peer
    BY <2>2 DEF SoundEndpoints
  <2>5. new.peer = endpoints[n][x].peer /\ endpoints[n][x].state = "queueing"
    BY <2>1, <2>4
  <2> HIDE DEF ep, new
  <2> QED BY <2>1, <2>3, <2>5, WrittenKeeps
<1>4. CASE SendMessage(n, t)
  BY <1>4, SendMessageKeeps
<1> QED BY <1>1, <1>2, <1>3, <1>4 DEF Application, CreateMessagePipes, SendInvitation

\* Endpoints are never forgotten, a proxy never changes its target and a
\* receiver is never unbound, in any network: what an earlier message was
\* routed by still routes a later one.
THEOREM RoutesNeverChange == Spec => RoutesAreFinal
<1> DEFINE Final ==
        \A n \in Nodes : \A x \in Local(n) :
          /\ x \in DOMAIN endpoints'[n]
          /\ endpoints'[n][x].peer = endpoints[n][x].peer
          /\ endpoints[n][x].state # "queueing" =>
                [endpoints'[n][x] EXCEPT !.queue = << >>] =
                [endpoints[n][x] EXCEPT !.queue = << >>]
<1>1. ASSUME IndInv, Next PROVE RoutesKept(endpoints, endpoints')
  <2>1. PICK n \in Nodes :
           \/ \E t \in Threads : Application(n, t) \/ RunTask(n, t)
           \/ IOThread(n)
           \/ \E t \in AllThreads : Flush(n, t)
    BY <1>1 DEF Next
  <2> QED BY <1>1, <2>1, ApplicationKeeps, ReceptionKeeps, FlushKeeps DEF IOThread
<1>2. IndInv /\ Next => Final
  BY <1>1 DEF RoutesKept, Kept, Local
<1>3. IndInv /\ [Next]_vars => [Final]_vars
  BY <1>2
<1> QED BY <1>3, InductiveInvariant, PTL DEF Spec, RoutesAreFinal
=============================================================================
