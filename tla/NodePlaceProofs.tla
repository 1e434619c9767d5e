--------------------------- MODULE NodePlaceProofs ---------------------------
(***************************************************************************)
(* Proofs about the network of `Node`, continued: everything stays in its    *)
(* place, and what follows from that.  What two nodes know of each other:    *)
(* the peer of an endpoint can always be reached.  And what two nodes may    *)
(* move: the handles in the next message of a call are always there.         *)
(***************************************************************************)
EXTENDS NodePlaces
-----------------------------------------------------------------------------
(* The invariant.                                                           *)

\* At first there is nothing anywhere.
LEMMA InitPlaces == Init => PlaceInv
<1> SUFFICES ASSUME Init PROVE PlaceInv
  OBVIOUS
<1>1. /\ \A n \in Nodes : endpoints[n] = << >> /\ channels[n] = << >> /\ pending[n] = << >>
                          /\ held[n] = {}
      /\ \A n \in Nodes : \A t \in AllThreads : call[n][t].msgs = << >>
      /\ \A n \in Nodes : \A t \in Threads : tasks[n][t] = << >>
      /\ \A m, n \in Nodes : wire[m][n] = << >>
      /\ \A e \in Ends : sent[e] = 0 /\ got[e] = << >>
      /\ pipes = 0
  BY DEF Init, Idle
<1>2. DOMAIN << >> = {}
  OBVIOUS
<1>3. \A b \in Boxes : DOMAIN Stored[b] = {}
  <2> SUFFICES ASSUME NEW b \in Boxes PROVE DOMAIN Stored[b] = {}
    OBVIOUS
  <2>0. \/ \E m, n \in Nodes : b = WireBox(m, n)
        \/ \E n \in Nodes : \E x \in Names : b = QueueBox(n, x)
        \/ \E n \in Nodes : \E t \in AllThreads : b = CallBox(n, t)
        \/ \E n \in Nodes : \E t \in Threads : b = TaskBox(n, t)
        \/ \E e \in Ends : b = GotBox(e)
    BY DEF Boxes, WireBox, QueueBox, CallBox, TaskBox, GotBox
  <2>1. ASSUME NEW m \in Nodes, NEW n \in Nodes, b = WireBox(m, n) PROVE DOMAIN Stored[b] = {}
    <3>1. Stored[b] = OnWire(wire[m][n])
      BY <2>1 DEF Stored, Contents, Boxes, WireBox
    <3>2. wire[m][n] = << >>
      BY <1>1
    <3> QED BY <1>2, <3>1, <3>2 DEF OnWire
  <2>2. ASSUME NEW n \in Nodes, NEW x \in Names, b = QueueBox(n, x) PROVE DOMAIN Stored[b] = {}
    <3>1. Stored[b] = InMail(QueueOf(endpoints, n, x))
      BY <2>2, InQueueBox DEF Stored
    <3>2. QueueOf(endpoints, n, x) = << >>
      BY <1>1, <1>2 DEF QueueOf
    <3> QED BY <1>2, <3>1, <3>2 DEF InMail
  <2>3. ASSUME NEW n \in Nodes, NEW t \in AllThreads, b = CallBox(n, t) PROVE DOMAIN Stored[b] = {}
    <3>1. Stored[b] = InMail(call[n][t].msgs)
      BY <2>3 DEF Stored, Contents, Boxes, CallBox
    <3>2. call[n][t].msgs = << >>
      BY <1>1
    <3> QED BY <1>2, <3>1, <3>2 DEF InMail
  <2>4. ASSUME NEW n \in Nodes, NEW t \in Threads, b = TaskBox(n, t) PROVE DOMAIN Stored[b] = {}
    <3>1. Stored[b] = InTasks(tasks[n][t])
      BY <2>4 DEF Stored, Contents, Boxes, TaskBox
    <3>2. tasks[n][t] = << >>
      BY <1>1
    <3> QED BY <1>2, <3>1, <3>2 DEF InTasks
  <2>5. ASSUME NEW e \in Ends, b = GotBox(e) PROVE DOMAIN Stored[b] = {}
    <3>1. Stored[b] = InGot(got[e])
      BY <2>5, InGotBox DEF Stored
    <3> QED BY <1>1, <1>2, <3>1 DEF InGot
  <2> QED BY <2>0, <2>1, <2>2, <2>3, <2>4, <2>5
<1>4. DOMAIN Stored = Boxes
  BY DEF Stored, Contents
<1>5. Marks(Stored) = {} /\ Once(Stored)
  BY <1>3, <1>4 DEF Marks, MarksIn, Once
<1>6. Accounted(Stored, sent) /\ EndsNamed(Stored, names)
  <2> SUFFICES ASSUME NEW id \in Ids PROVE ~(id[3] <= sent[EndOf(id)])
    BY <1>5 DEF Accounted, EndsNamed
  <2>1. id[3] \in Nat \ {0} /\ EndOf(id) \in Ends
    BY DEF Ids, Ends, EndOf
  <2> QED BY <1>1, <2>1
<1>7. AllAtHome(endpoints, pending, wire, pipes)
  <2> SUFFICES ASSUME NEW e \in Ends PROVE ~(e[1] <= pipes)
    BY DEF AllAtHome
  <2>1. e[1] \in Nat \ {0}
    BY BoundsAssumption DEF Ends
  <2> QED BY <1>1, <2>1
<1>8. /\ HeldOnce(endpoints, pending, held, Stored) /\ NamesApart(endpoints)
      /\ QueuesReady(endpoints, pending) /\ PendingReady(endpoints, channels, pending)
      /\ ProxiesReady(endpoints, channels)
  BY <1>1, <1>2 DEF HeldOnce, NamesApart, QueuesReady, PendingReady, ProxiesReady
<1>9. /\ CallsReady(endpoints, pending, call) /\ TasksReady(endpoints, pending, tasks)
      /\ WiresReady(endpoints, wire) /\ CallsBound(channels, call)
  BY <1>1, <1>2 DEF CallsReady, TasksReady, WiresReady, CallsBound
<1>10. InvitesPending(pending, wire) /\ Introductions(channels, wire)
  BY <1>1, <1>2 DEF InvitesPending, Introductions
<1> QED BY <1>5, <1>6, <1>7, <1>8, <1>9, <1>10 DEF PlaceInv

\* Every step keeps all in its place.
LEMMA NextPlaces ==
    ASSUME IndInv, PlaceInv, [Next]_vars
    PROVE  PlaceInv'
<1>1. CASE UNCHANGED vars
  <2>1. /\ endpoints' = endpoints /\ channels' = channels /\ pending' = pending /\ wire' = wire
        /\ call' = call /\ tasks' = tasks /\ held' = held /\ names' = names /\ pipes' = pipes
        /\ sent' = sent /\ got' = got
    BY <1>1 DEF vars, netVars, appVars
  <2>2. Stored' = Stored
    BY <2>1 DEF Stored
  <2> QED BY <2>1, <2>2 DEF PlaceInv
<1>2. ASSUME NEW n \in Nodes, NEW t \in Threads, Application(n, t) PROVE PlaceInv'
  BY <1>2, CreateMessagePipesPlaces, SendInvitationPlaces, AcceptInvitationPlaces,
     SendMessagePlaces, BindPlaces DEF Application
<1>3. ASSUME NEW n \in Nodes, NEW t \in Threads, RunTask(n, t) PROVE PlaceInv'
  BY <1>3, RunTaskPlaces
<1>4. ASSUME NEW n \in Nodes, IOThread(n) PROVE PlaceInv'
  BY <1>4, OnReceivedInvitationPlaces, OnReceivedAcceptInvitationPlaces,
     OnReceivedUserMessagePlaces, ForwardUserMessagePlaces DEF IOThread
<1>5. ASSUME NEW n \in Nodes, NEW t \in AllThreads, Flush(n, t) PROVE PlaceInv'
  BY <1>5, FlushOnePlaces, FlushDonePlaces DEF Flush
<1> QED BY <1>1, <1>2, <1>3, <1>4, <1>5 DEF Next

\* All is in its place, always.
THEOREM AlwaysInPlace == Spec => [](IndInv /\ PlaceInv)
<1>1. Init => PlaceInv
  BY InitPlaces
<1>2. IndInv /\ PlaceInv /\ [Next]_vars => PlaceInv'
  BY NextPlaces
<1> QED BY <1>1, <1>2, InductiveInvariant, PTL DEF Spec
-----------------------------------------------------------------------------
(* What it says.                                                             *)

\* A handle the application may use is never that of a proxy, wherever the
\* endpoints of its pipe have been sent.
THEOREM HandlesStayDirect == Spec => []HandlesAreDirect
<1>1. PlaceInv => HandlesAreDirect
  BY DEF PlaceInv, HeldOnce, Available, HandlesAreDirect, Local
<1> QED BY <1>1, AlwaysInPlace, PTL

\* Whatever the IO thread of any node reads next finds what its handler looks
\* up, so that no CHECK of Node::OnReceivedInvitation, of
\* OnReceivedAcceptInvitation or of OnReceivedUserMessage can fail.
THEOREM ReceptionAlwaysReady == Spec => []ReceptionReady
<1>1. IndInv /\ PlaceInv => ReceptionReady
  <2> SUFFICES ASSUME IndInv, PlaceInv, NEW n \in Nodes, NEW m \in Nodes, wire[m][n] # << >>,
                      NEW k \in DOMAIN channels[n], channels[n][k] = m
               PROVE  LET msg == Head(wire[m][n])
                      IN CASE msg.type = "INVITE" -> InitialChannel \in DOMAIN channels[n]
                           [] msg.type = "ACCEPT" ->
                                /\ msg.temporary \in DOMAIN pending[n] \cap DOMAIN channels[n]
                                /\ pending[n][msg.temporary] \in Local(n)
                                /\ endpoints[n][pending[n][msg.temporary]].state = "queueing"
                           [] msg.type = "USER" ->
                                /\ msg.target \in Local(n)
                                /\ \A d \in ToSet(msg.descs) : d.cross \notin Local(n)
                                /\ endpoints[n][msg.target].state = "proxying" =>
                                      endpoints[n][msg.target].target.node \in
                                          DOMAIN channels[n] \ {n}
    BY ZenonT(30) DEF ReceptionReady
  <2> DEFINE msg == Head(wire[m][n])
  <2>1. wire[m][n] \in Seq(Traffic(endpoints, names, channels, pending, m, n))
    BY WireIsSeq DEF IndInv
  <2>2. /\ 1 \in DOMAIN wire[m][n] /\ msg = wire[m][n][1]
        /\ msg \in Traffic(endpoints, names, channels, pending, m, n)
    BY <2>1
  <2> HIDE DEF msg
  <2>3. msg.type \in {"USER", "INVITE", "ACCEPT"}
    BY <2>2 DEF Traffic, RoutedMail, Mail, Invites, Accepts
  <2>4. ASSUME msg.type = "INVITE" PROVE InitialChannel \in DOMAIN channels[n]
    <3>1. <<m, n>> \in Invitations
      BY <2>2, <2>4 DEF Traffic, RoutedMail, Mail, Invites, Accepts
    <3>2. ChannelOk(n, k, m)
      BY DEF IndInv, ChannelsSound
    <3>3. k # m
      <4>1. m \notin DOMAIN channels[n]
        BY <2>2, <2>4, <3>1 DEF PlaceInv, Introductions
      <4> QED BY <4>1
    <3>4. ASSUME NEW i \in Nodes, k = Temporary(i) PROVE FALSE
      <4>1. m = i
        BY <3>2, <3>4 DEF ChannelOk
      <4>2. <<n, m>> \in Invitations
        BY <3>4, <4>1 DEF PlaceInv, Introductions
      <4> QED BY <3>1, <4>2, NodesAssumption
    <3>5. k \in Nodes \/ k = InitialChannel
      BY <3>2, <3>4 DEF ChannelOk, Keys
    <3> QED BY <3>2, <3>3, <3>5 DEF ChannelOk
  <2>5. ASSUME msg.type = "ACCEPT"
        PROVE  /\ msg.temporary \in DOMAIN pending[n] \cap DOMAIN channels[n]
               /\ pending[n][msg.temporary] \in Local(n)
               /\ endpoints[n][pending[n][msg.temporary]].state = "queueing"
    <3>1. msg.temporary \in DOMAIN pending[n]
      BY <2>2, <2>5 DEF PlaceInv, InvitesPending
    <3> QED BY <3>1 DEF PlaceInv, PendingReady, Local
  <2>6. ASSUME msg.type = "USER"
        PROVE  /\ msg.target \in Local(n)
               /\ \A d \in ToSet(msg.descs) : d.cross \notin Local(n)
               /\ endpoints[n][msg.target].state = "proxying" =>
                     endpoints[n][msg.target].target.node \in DOMAIN channels[n] \ {n}
    <3>1. Ordered(wire[m][n], DOMAIN endpoints[n])
      BY DEF IndInv, WiresOrdered
    <3>2. msg.target \in DOMAIN endpoints[n]
      BY <2>2, <2>6, <3>1 DEF Ordered
    <3>3. \A d \in ToSet(msg.descs) : Unborn(endpoints, d.cross)
      BY <2>2, <2>6 DEF PlaceInv, WiresReady, WireReady
    <3>4. ASSUME endpoints[n][msg.target].state = "proxying"
          PROVE  endpoints[n][msg.target].target.node \in DOMAIN channels[n] \ {n}
      <4>1. endpoints[n][msg.target].target \in Onward(n, msg.target)
        BY <3>2, <3>4 DEF IndInv, EndpointsSound, SoundEndpoints
      <4>2. endpoints[n][msg.target].target.node \in DOMAIN channels[n]
        BY <3>2, <3>4 DEF PlaceInv, ProxiesReady
      <4> QED BY <4>1, <4>2 DEF Onward
    <3> QED BY <3>2, <3>3, <3>4 DEF Unborn, Local
  <2> QED BY <2>3, <2>4, <2>5, <2>6, ZenonT(30) DEF msg
<1> QED BY <1>1, AlwaysInPlace, PTL

\* Where the i-th thing of box b is, as a place of NodeProperties.
PlaceOf(b, i) ==
    IF b[1] = "got" THEN <<"got", b[2][1], b[2][2], i>> ELSE <<b[1], b[2], b[3], i>>

\* A place is one of five kinds.
LEMMA PlaceKinds ==
    ASSUME NEW p
    PROVE  p \in Places <=>
             \/ \E m, n \in Nodes : \E i \in UserMessages(wire[m][n]) :
                   p = <<<<"wire", m, n, i>>, wire[m][n][i].id>>
             \/ \E n \in Nodes : \E x \in Local(n) : \E i \in DOMAIN endpoints[n][x].queue :
                   p = <<<<"queue", n, x, i>>, endpoints[n][x].queue[i].id>>
             \/ \E n \in Nodes, t \in AllThreads : \E i \in DOMAIN call[n][t].msgs :
                   p = <<<<"call", n, t, i>>, call[n][t].msgs[i].id>>
             \/ \E n \in Nodes, t \in Threads : \E i \in MessageTasks(tasks[n][t]) :
                   p = <<<<"task", n, t, i>>, tasks[n][t][i].msg.id>>
             \/ \E e \in Ends : \E i \in DOMAIN got[e] :
                   p = <<<<"got", e[1], e[2], i>>, got[e][i]>>
<1>1. p \in OnWires <=> \E m, n \in Nodes : \E i \in UserMessages(wire[m][n]) :
           p = <<<<"wire", m, n, i>>, wire[m][n][i].id>>
  BY DEF OnWires
<1>2. p \in InQueues <=>
           \E n \in Nodes : \E x \in Local(n) : \E i \in DOMAIN endpoints[n][x].queue :
               p = <<<<"queue", n, x, i>>, endpoints[n][x].queue[i].id>>
  BY DEF InQueues
<1>3. p \in InCalls <=> \E n \in Nodes, t \in AllThreads : \E i \in DOMAIN call[n][t].msgs :
           p = <<<<"call", n, t, i>>, call[n][t].msgs[i].id>>
  BY DEF InCalls
<1>4. p \in InRunners <=> \E n \in Nodes, t \in Threads : \E i \in MessageTasks(tasks[n][t]) :
           p = <<<<"task", n, t, i>>, tasks[n][t][i].msg.id>>
  BY DEF InRunners
<1>5. p \in Dispatched <=> \E e \in Ends : \E i \in DOMAIN got[e] :
           p = <<<<"got", e[1], e[2], i>>, got[e][i]>>
  BY DEF Dispatched
<1> QED BY <1>1, <1>2, <1>3, <1>4, <1>5 DEF Places

\* A place where message id is, is where its mark is.
LEMMA PlacesMarked ==
    ASSUME IndInv, NEW id, NEW p \in Places, p[2] = id
    PROVE  \E b \in DOMAIN Stored : \E i \in DOMAIN Stored[b] :
               MailMark(id) \in Stored[b][i] /\ p = <<PlaceOf(b, i), id>>
<1>1. CASE \E m, n \in Nodes : \E i \in UserMessages(wire[m][n]) :
               p = <<<<"wire", m, n, i>>, wire[m][n][i].id>>
  <2>1. PICK m \in Nodes, n \in Nodes :
                \E i \in UserMessages(wire[m][n]) : p = <<<<"wire", m, n, i>>, wire[m][n][i].id>>
    BY <1>1
  <2>2. PICK i \in UserMessages(wire[m][n]) : p = <<<<"wire", m, n, i>>, wire[m][n][i].id>>
    BY <2>1
  <2>3. i \in DOMAIN wire[m][n] /\ wire[m][n][i].type = "USER" /\ wire[m][n][i].id = id
    BY <2>2 DEF UserMessages
  <2>4. WireBox(m, n) \in DOMAIN Stored /\ Stored[WireBox(m, n)] = OnWire(wire[m][n])
    BY DEF Stored, Contents, Boxes, WireBox
  <2>5. i \in DOMAIN OnWire(wire[m][n]) /\ OnWire(wire[m][n])[i] = MailMarks(wire[m][n][i])
    BY <2>3 DEF OnWire, WireMarks
  <2>6. MailMark(id) \in MailMarks(wire[m][n][i])
    BY <2>3 DEF MailMarks
  <2>7. PlaceOf(WireBox(m, n), i) = <<"wire", m, n, i>>
    BY DEF PlaceOf, WireBox
  <2>8. p = <<PlaceOf(WireBox(m, n), i), id>>
    BY <2>2, <2>3, <2>7
  <2> QED BY <2>4, <2>5, <2>6, <2>8
<1>2. CASE \E n \in Nodes : \E x \in Local(n) : \E i \in DOMAIN endpoints[n][x].queue :
               p = <<<<"queue", n, x, i>>, endpoints[n][x].queue[i].id>>
  <2>1. PICK n \in Nodes : \E x \in Local(n) : \E i \in DOMAIN endpoints[n][x].queue :
               p = <<<<"queue", n, x, i>>, endpoints[n][x].queue[i].id>>
    BY <1>2
  <2>2. PICK x \in Local(n) : \E i \in DOMAIN endpoints[n][x].queue :
               p = <<<<"queue", n, x, i>>, endpoints[n][x].queue[i].id>>
    BY <2>1
  <2> DEFINE q == endpoints[n][x].queue
  <2>3. PICK i \in DOMAIN q : p = <<<<"queue", n, x, i>>, q[i].id>>
    BY <2>2
  <2>4. x \in Names /\ QueueOf(endpoints, n, x) = q
    BY DEF Local, QueueOf, IndInv, EndpointsSound, Given
  <2> HIDE DEF q
  <2>5. QueueBox(n, x) \in DOMAIN Stored /\ Stored[QueueBox(n, x)] = InMail(q)
    BY <2>4, InQueueBox DEF Stored
  <2>6. i \in DOMAIN InMail(q) /\ InMail(q)[i] = MailMarks(q[i])
    BY <2>3 DEF InMail
  <2>7. MailMark(id) \in MailMarks(q[i])
    BY <2>3 DEF MailMarks
  <2>8. PlaceOf(QueueBox(n, x), i) = <<"queue", n, x, i>>
    BY DEF PlaceOf, QueueBox
  <2>9. p = <<PlaceOf(QueueBox(n, x), i), id>>
    BY <2>3, <2>8
  <2> QED BY <2>5, <2>6, <2>7, <2>9
<1>3. CASE \E n \in Nodes, t \in AllThreads : \E i \in DOMAIN call[n][t].msgs :
               p = <<<<"call", n, t, i>>, call[n][t].msgs[i].id>>
  <2>1. PICK n \in Nodes, t \in AllThreads : \E i \in DOMAIN call[n][t].msgs :
               p = <<<<"call", n, t, i>>, call[n][t].msgs[i].id>>
    BY <1>3
  <2> DEFINE q == call[n][t].msgs
  <2>3. PICK i \in DOMAIN q : p = <<<<"call", n, t, i>>, q[i].id>>
    BY <2>1
  <2>5. CallBox(n, t) \in DOMAIN Stored /\ Stored[CallBox(n, t)] = InMail(q)
    BY DEF Stored, Contents, Boxes, CallBox
  <2> HIDE DEF q
  <2>6. i \in DOMAIN InMail(q) /\ InMail(q)[i] = MailMarks(q[i])
    BY <2>3 DEF InMail
  <2>7. MailMark(id) \in MailMarks(q[i])
    BY <2>3 DEF MailMarks
  <2>8. PlaceOf(CallBox(n, t), i) = <<"call", n, t, i>>
    BY DEF PlaceOf, CallBox
  <2>9. p = <<PlaceOf(CallBox(n, t), i), id>>
    BY <2>3, <2>8
  <2> QED BY <2>5, <2>6, <2>7, <2>9
<1>4. CASE \E n \in Nodes, t \in Threads : \E i \in MessageTasks(tasks[n][t]) :
               p = <<<<"task", n, t, i>>, tasks[n][t][i].msg.id>>
  <2>1. PICK n \in Nodes, t \in Threads : \E i \in MessageTasks(tasks[n][t]) :
               p = <<<<"task", n, t, i>>, tasks[n][t][i].msg.id>>
    BY <1>4
  <2> DEFINE q == tasks[n][t]
  <2>3. PICK i \in MessageTasks(q) : p = <<<<"task", n, t, i>>, q[i].msg.id>>
    BY <2>1
  <2>5. TaskBox(n, t) \in DOMAIN Stored /\ Stored[TaskBox(n, t)] = InTasks(q)
    BY DEF Stored, Contents, Boxes, TaskBox
  <2> HIDE DEF q
  <2>6. i \in DOMAIN InTasks(q) /\ InTasks(q)[i] = MailMarks(q[i].msg)
    BY <2>3 DEF InTasks, TaskMarks, MessageTasks
  <2>7. MailMark(id) \in MailMarks(q[i].msg)
    BY <2>3 DEF MailMarks
  <2>8. PlaceOf(TaskBox(n, t), i) = <<"task", n, t, i>>
    BY DEF PlaceOf, TaskBox
  <2>9. p = <<PlaceOf(TaskBox(n, t), i), id>>
    BY <2>3, <2>8
  <2> QED BY <2>5, <2>6, <2>7, <2>9
<1>5. CASE \E e \in Ends : \E i \in DOMAIN got[e] : p = <<<<"got", e[1], e[2], i>>, got[e][i]>>
  <2>1. PICK e \in Ends : \E i \in DOMAIN got[e] : p = <<<<"got", e[1], e[2], i>>, got[e][i]>>
    BY <1>5
  <2>3. PICK i \in DOMAIN got[e] : p = <<<<"got", e[1], e[2], i>>, got[e][i]>>
    BY <2>1
  <2>5. GotBox(e) \in DOMAIN Stored /\ Stored[GotBox(e)] = InGot(got[e])
    BY DEF Stored, Contents, Boxes, GotBox
  <2>6. i \in DOMAIN InGot(got[e]) /\ InGot(got[e])[i] = {MailMark(got[e][i])}
    BY <2>3 DEF InGot, GotMarks
  <2>8. PlaceOf(GotBox(e), i) = <<"got", e[1], e[2], i>>
    BY DEF PlaceOf, GotBox
  <2>9. p = <<PlaceOf(GotBox(e), i), id>> /\ got[e][i] = id
    BY <2>3, <2>8
  <2> QED BY <2>5, <2>6, <2>9
<1> QED BY <1>1, <1>2, <1>3, <1>4, <1>5, PlaceKinds

\* And where a message's mark is, is a place where it is.
LEMMA MarkedPlaces ==
    ASSUME NEW id, NEW b \in DOMAIN Stored, NEW i \in DOMAIN Stored[b],
           MailMark(id) \in Stored[b][i]
    PROVE  <<PlaceOf(b, i), id>> \in Places
<1>0. b \in Boxes
  BY DEF Stored, Contents
<1>01. \/ \E m, n \in Nodes : b = WireBox(m, n)
       \/ \E n \in Nodes : \E x \in Names : b = QueueBox(n, x)
       \/ \E n \in Nodes : \E t \in AllThreads : b = CallBox(n, t)
       \/ \E n \in Nodes : \E t \in Threads : b = TaskBox(n, t)
       \/ \E e \in Ends : b = GotBox(e)
  BY <1>0 DEF Boxes, WireBox, QueueBox, CallBox, TaskBox, GotBox
<1>1. ASSUME NEW m \in Nodes, NEW n \in Nodes, b = WireBox(m, n)
      PROVE  <<PlaceOf(b, i), id>> \in Places
  <2> DEFINE w == wire[m][n]
  <2>1. Stored[b] = OnWire(w)
    BY <1>1 DEF Stored, Contents, Boxes, WireBox
  <2> HIDE DEF w
  <2>2. i \in DOMAIN w /\ MailMark(id) \in WireMarks(w[i])
    BY <2>1 DEF OnWire
  <2>3. w[i].type = "USER" /\ w[i].id = id
    BY <2>2, MailMarksAre, MarksDiffer DEF WireMarks
  <2>4. i \in UserMessages(w) /\ PlaceOf(b, i) = <<"wire", m, n, i>>
    BY <1>1, <2>2, <2>3 DEF UserMessages, PlaceOf, WireBox
  <2>5. <<PlaceOf(b, i), id>> = <<<<"wire", m, n, i>>, wire[m][n][i].id>>
    BY <2>3, <2>4 DEF w
  <2> QED BY <2>4, <2>5, PlaceKinds DEF w
<1>2. ASSUME NEW n \in Nodes, NEW x \in Names, b = QueueBox(n, x)
      PROVE  <<PlaceOf(b, i), id>> \in Places
  <2> DEFINE q == QueueOf(endpoints, n, x)
  <2>1. Stored[b] = InMail(q)
    BY <1>2, InQueueBox DEF Stored
  <2> HIDE DEF q
  <2>2. i \in DOMAIN q /\ MailMark(id) \in MailMarks(q[i])
    BY <2>1 DEF InMail
  <2>3. q[i].id = id
    BY <2>2, MailMarksAre
  <2>4. x \in Local(n) /\ q = endpoints[n][x].queue
    BY <2>2 DEF q, QueueOf, Local
  <2>5. PlaceOf(b, i) = <<"queue", n, x, i>>
    BY <1>2 DEF PlaceOf, QueueBox
  <2>6. <<PlaceOf(b, i), id>> = <<<<"queue", n, x, i>>, endpoints[n][x].queue[i].id>>
    BY <2>3, <2>4, <2>5
  <2> QED BY <2>2, <2>4, <2>6, PlaceKinds
<1>3. ASSUME NEW n \in Nodes, NEW t \in AllThreads, b = CallBox(n, t)
      PROVE  <<PlaceOf(b, i), id>> \in Places
  <2> DEFINE q == call[n][t].msgs
  <2>1. Stored[b] = InMail(q)
    BY <1>3 DEF Stored, Contents, Boxes, CallBox
  <2> HIDE DEF q
  <2>2. i \in DOMAIN q /\ MailMark(id) \in MailMarks(q[i])
    BY <2>1 DEF InMail
  <2>3. q[i].id = id
    BY <2>2, MailMarksAre
  <2>4. PlaceOf(b, i) = <<"call", n, t, i>>
    BY <1>3 DEF PlaceOf, CallBox
  <2>5. <<PlaceOf(b, i), id>> = <<<<"call", n, t, i>>, call[n][t].msgs[i].id>>
    BY <2>3, <2>4 DEF q
  <2> QED BY <2>2, <2>5, PlaceKinds DEF q
<1>4. ASSUME NEW n \in Nodes, NEW t \in Threads, b = TaskBox(n, t)
      PROVE  <<PlaceOf(b, i), id>> \in Places
  <2> DEFINE q == tasks[n][t]
  <2>1. Stored[b] = InTasks(q)
    BY <1>4 DEF Stored, Contents, Boxes, TaskBox
  <2> HIDE DEF q
  <2>2. i \in DOMAIN q /\ MailMark(id) \in TaskMarks(q[i])
    BY <2>1 DEF InTasks
  <2>3. q[i].op = "message" /\ q[i].msg.id = id
    BY <2>2, MailMarksAre, MarksDiffer DEF TaskMarks
  <2>4. i \in MessageTasks(q) /\ PlaceOf(b, i) = <<"task", n, t, i>>
    BY <1>4, <2>2, <2>3 DEF MessageTasks, PlaceOf, TaskBox
  <2>5. <<PlaceOf(b, i), id>> = <<<<"task", n, t, i>>, tasks[n][t][i].msg.id>>
    BY <2>3, <2>4 DEF q
  <2> QED BY <2>4, <2>5, PlaceKinds DEF q
<1>5. ASSUME NEW e \in Ends, b = GotBox(e) PROVE <<PlaceOf(b, i), id>> \in Places
  <2>1. Stored[b] = InGot(got[e])
    BY <1>5 DEF Stored, Contents, Boxes, GotBox
  <2>2. i \in DOMAIN got[e] /\ MailMark(id) = MailMark(got[e][i])
    BY <2>1 DEF InGot, GotMarks
  <2>3. got[e][i] = id
    BY <2>2, MarksDiffer
  <2>4. PlaceOf(b, i) = <<"got", e[1], e[2], i>>
    BY <1>5 DEF PlaceOf, GotBox
  <2>5. <<PlaceOf(b, i), id>> = <<<<"got", e[1], e[2], i>>, got[e][i]>>
    BY <2>3, <2>4
  <2> QED BY <2>2, <2>5, PlaceKinds
<1> QED BY <1>01, <1>1, <1>2, <1>3, <1>4, <1>5

\* Every message ever sent is in one place, from the call that sends it until
\* it is dispatched: however often its pipe is moved, no queue that is flushed,
\* no proxy and no receiver loses it or hands it on twice.
THEOREM NothingLostNorDuplicated == Spec => []NoLossNoDup
<1>1. IndInv /\ PlaceInv => NoLossNoDup
  <2> SUFFICES ASSUME IndInv, PlaceInv, NEW e \in Ends, NEW k \in 1..sent[e]
               PROVE  Cardinality({p \in Places : p[2] = <<e[1], e[2], k>>}) = 1
    BY DEF NoLossNoDup
  <2> DEFINE id == <<e[1], e[2], k>>
  <2>1. id \in Ids /\ EndOf(id) = e /\ id[3] = k
    <3>1. sent[e] \in Nat
      BY DEF IndInv, CountersSound
    <3>2. PICK p \in 1..MaxPipes, s \in {1, 2} : e = <<p, s>>
      BY DEF Ends
    <3>3. k \in Nat \ {0}
      BY <3>1
    <3> QED BY <3>2, <3>3 DEF Ids, EndOf
  <2>2. k <= sent[e]
    <3>1. sent[e] \in Nat
      BY DEF IndInv, CountersSound
    <3> QED BY <3>1
  <2> HIDE DEF id
  <2>3. MailMark(id) \in Marks(Stored)
    BY <2>1, <2>2 DEF PlaceInv, Accounted
  <2>4. PICK b \in DOMAIN Stored : \E i \in DOMAIN Stored[b] : MailMark(id) \in Stored[b][i]
    BY <2>3, MarksSomewhere
  <2>5. PICK i \in DOMAIN Stored[b] : MailMark(id) \in Stored[b][i]
    BY <2>4
  <2> DEFINE here == <<PlaceOf(b, i), id>>
  <2>6. here \in Places /\ here[2] = id
    BY <2>5, MarkedPlaces
  <2>7. ASSUME NEW p \in Places, p[2] = id PROVE p = here
    <3>1. PICK c \in DOMAIN Stored : \E j \in DOMAIN Stored[c] :
                   MailMark(id) \in Stored[c][j] /\ p = <<PlaceOf(c, j), id>>
      BY <2>7, PlacesMarked
    <3>2. PICK j \in DOMAIN Stored[c] :
                   MailMark(id) \in Stored[c][j] /\ p = <<PlaceOf(c, j), id>>
      BY <3>1
    <3>3. Once(Stored)
      BY DEF PlaceInv
    <3>4. b = c /\ i = j
      BY <2>5, <3>2, <3>3 DEF Once
    <3> QED BY <3>2, <3>4
  <2> HIDE DEF here
  <2>8. {p \in Places : p[2] = id} = {here}
    BY <2>6, <2>7
  <2> QED BY <2>8, FS_Singleton DEF id
<1> QED BY <1>1, AlwaysInPlace, PTL

\* An end rests at an endpoint that is available.
LEMMA RestsAt ==
    ASSUME PlaceInv, NEW e, NEW h
    PROVE  h \in AtRest(e) <=>
               \E n \in Nodes : \E x \in DOMAIN endpoints[n] :
                   Available(endpoints, pending, n, x) /\ EndOf(x) = e /\ h = <<n, x>>
<1>1. ASSUME NEW n \in Nodes, NEW x \in DOMAIN endpoints[n]
      PROVE  x \in Reserved <=> \E k \in DOMAIN pending[n] : pending[n][k] = x
  <2>1. \A m \in Nodes : \A k \in DOMAIN pending[m] : pending[m][k] \in DOMAIN endpoints[m]
    BY DEF PlaceInv, PendingReady
  <2>2. \A m \in Nodes : m # n => x \notin DOMAIN endpoints[m]
    BY DEF PlaceInv, NamesApart
  <2>3. x \in Reserved <=> \E m \in Nodes : \E k \in DOMAIN pending[m] : pending[m][k] = x
    BY DEF Reserved
  <2> QED BY <2>1, <2>2, <2>3
<1>2. ASSUME NEW n \in Nodes, NEW x \in DOMAIN endpoints[n]
      PROVE  Available(endpoints, pending, n, x) <=>
                 x \notin Reserved /\ endpoints[n][x].state # "proxying"
  BY <1>1 DEF Available
<1>3. ASSUME h \in AtRest(e)
      PROVE  \E n \in Nodes : \E x \in DOMAIN endpoints[n] :
                 Available(endpoints, pending, n, x) /\ EndOf(x) = e /\ h = <<n, x>>
  <2>1. PICK n \in Nodes, x \in UNION {Local(m) : m \in Nodes} : h = <<n, x>>
    BY <1>3 DEF AtRest
  <2>2. /\ x \in DOMAIN endpoints[n] /\ x \notin Reserved /\ EndOf(x) = e
        /\ endpoints[n][x].state # "proxying"
    BY <1>3, <2>1 DEF AtRest, Local
  <2> QED BY <1>2, <2>1, <2>2
<1>4. ASSUME NEW n \in Nodes, NEW x \in DOMAIN endpoints[n],
             Available(endpoints, pending, n, x), EndOf(x) = e, h = <<n, x>>
      PROVE  h \in AtRest(e)
  BY <1>2, <1>4 DEF AtRest, Local
<1> QED BY <1>3, <1>4

\* An end on its way is in a descriptor.
LEMMA TravelsIn ==
    ASSUME NEW e, NEW h
    PROVE  h \in OnTheWay(e) <=>
               \E m \in Nodes : \E n \in Nodes : \E i \in UserMessages(wire[m][n]) :
               \E d \in ToSet(wire[m][n][i].descs) : EndOf(d.cross) = e /\ h = <<n, d.cross>>
<1>1. \A m, n, y : y \in Arriving(m, n) <=>
          \E i \in UserMessages(wire[m][n]) : \E d \in ToSet(wire[m][n][i].descs) : y = d.cross
  BY DEF Arriving
<1>2. h \in OnTheWay(e) <=>
          \E m \in Nodes : \E n \in Nodes : \E y \in Arriving(m, n) : EndOf(y) = e /\ h = <<n, y>>
  BY DEF OnTheWay
<1> QED BY <1>1, <1>2

\* A message that introduces an end is marked with it.
LEMMA IntroducesMarked ==
    ASSUME IndInv, PlaceInv, NEW m \in Nodes, NEW n \in Nodes,
           NEW i \in UserMessages(wire[m][n]), NEW d \in ToSet(wire[m][n][i].descs)
    PROVE  /\ WireBox(m, n) \in DOMAIN Stored /\ i \in DOMAIN Stored[WireBox(m, n)]
           /\ EndMark(EndOf(d.cross)) \in Stored[WireBox(m, n)][i]
           /\ EndOf(d.cross) = EndOf(d.name)
<1> DEFINE w == wire[m][n]
<1>1. WireBox(m, n) \in DOMAIN Stored /\ Stored[WireBox(m, n)] = OnWire(w)
  BY DEF Stored, Contents, Boxes, WireBox
<1>2. i \in DOMAIN w /\ w[i].type = "USER" /\ DistinctEnds(w[i])
  BY DEF UserMessages, PlaceInv, WiresReady, WireReady
<1>3. d \in ToSet(w[i].descs)
  OBVIOUS
<1> HIDE DEF w
<1>4. i \in DOMAIN OnWire(w) /\ OnWire(w)[i] = MailMarks(w[i])
  BY <1>2 DEF OnWire, WireMarks
<1>5. EndOf(d.cross) = EndOf(d.name)
  BY <1>2, <1>3 DEF DistinctEnds
<1>6. EndMark(EndOf(d.name)) \in MailMarks(w[i])
  BY <1>3, MailMarksAre
<1> QED BY <1>1, <1>4, <1>5, <1>6

\* Two descriptors that introduce one end are one.
LEMMA IntroducedOnce ==
    ASSUME IndInv, PlaceInv,
           NEW m \in Nodes, NEW n \in Nodes, NEW i \in UserMessages(wire[m][n]),
           NEW d \in ToSet(wire[m][n][i].descs),
           NEW m2 \in Nodes, NEW n2 \in Nodes, NEW i2 \in UserMessages(wire[m2][n2]),
           NEW d2 \in ToSet(wire[m2][n2][i2].descs), EndOf(d.cross) = EndOf(d2.cross)
    PROVE  n = n2 /\ d = d2
<1>1. /\ WireBox(m, n) \in DOMAIN Stored /\ i \in DOMAIN Stored[WireBox(m, n)]
      /\ EndMark(EndOf(d.cross)) \in Stored[WireBox(m, n)][i]
      /\ EndOf(d.cross) = EndOf(d.name)
  BY IntroducesMarked
<1>2. /\ WireBox(m2, n2) \in DOMAIN Stored /\ i2 \in DOMAIN Stored[WireBox(m2, n2)]
      /\ EndMark(EndOf(d2.cross)) \in Stored[WireBox(m2, n2)][i2]
      /\ EndOf(d2.cross) = EndOf(d2.name)
  BY IntroducesMarked
<1>3. WireBox(m, n) = WireBox(m2, n2) /\ i = i2
  BY <1>1, <1>2 DEF PlaceInv, Once
<1>4. m = m2 /\ n = n2
  BY <1>3 DEF WireBox
<1>5. DistinctEnds(wire[m][n][i])
  BY DEF UserMessages, PlaceInv, WiresReady, WireReady
<1>6. PICK j \in DOMAIN wire[m][n][i].descs : d = wire[m][n][i].descs[j]
  BY DEF ToSet
<1>7. PICK j2 \in DOMAIN wire[m][n][i].descs : d2 = wire[m][n][i].descs[j2]
  BY <1>3, <1>4 DEF ToSet
<1>8. EndOf(wire[m][n][i].descs[j].name) = EndOf(wire[m][n][i].descs[j2].name)
  BY <1>1, <1>2, <1>6, <1>7
<1>9. j = j2
  BY <1>5, <1>8 DEF DistinctEnds
<1> QED BY <1>4, <1>6, <1>7, <1>9

\* What is on its way travels.
LEMMA OnTheWayTravels ==
    ASSUME IndInv, PlaceInv, NEW e, OnTheWay(e) # {}
    PROVE  Travels(wire, e)
<1>1. PICK m \in Nodes : \E n \in Nodes : \E i \in UserMessages(wire[m][n]) :
           \E d \in ToSet(wire[m][n][i].descs) : EndOf(d.cross) = e
  BY TravelsIn
<1>2. PICK n \in Nodes : \E i \in UserMessages(wire[m][n]) :
           \E d \in ToSet(wire[m][n][i].descs) : EndOf(d.cross) = e
  BY <1>1
<1>3. PICK i \in UserMessages(wire[m][n]) :
           \E d \in ToSet(wire[m][n][i].descs) : EndOf(d.cross) = e
  BY <1>2
<1>4. PICK d \in ToSet(wire[m][n][i].descs) : EndOf(d.cross) = e
  BY <1>3
<1>5. i \in DOMAIN Stored[WireBox(m, n)] /\ EndMark(e) \in Stored[WireBox(m, n)][i]
  BY <1>4, IntroducesMarked
<1>6. Stored[WireBox(m, n)] = OnWire(wire[m][n])
  BY DEF Stored, Contents, Boxes, WireBox
<1> QED BY <1>5, <1>6 DEF Travels, MarksIn

\* What travels is on its way, or an invitation for it is.
LEMMA TravelsHow ==
    ASSUME IndInv, PlaceInv, NEW e, Travels(wire, e)
    PROVE  OnTheWay(e) # {} \/ \E x \in Reserved : EndOf(x) = e
<1>1. PICK m \in Nodes, n \in Nodes : EndMark(e) \in MarksIn(OnWire(wire[m][n]))
  BY DEF Travels
<1> DEFINE w == wire[m][n]
<1>2. w \in Seq(Traffic(endpoints, names, channels, pending, m, n))
  BY WireIsSeq DEF IndInv
<1>3. \A i \in DOMAIN w : w[i].type = "USER" => DistinctEnds(w[i])
  BY DEF PlaceInv, WiresReady, WireReady
<1> HIDE DEF w
<1>4. PICK i \in DOMAIN w : EndMark(e) \in WireMarks(w[i])
  BY <1>1 DEF w, OnWire, MarksIn
<1>5. w[i] \in Traffic(endpoints, names, channels, pending, m, n)
  BY <1>2, <1>4
<1>6. CASE w[i].type = "USER"
  <2>1. PICK d \in ToSet(w[i].descs) : EndOf(d.name) = e
    BY <1>4, <1>6, MailMarksAre DEF WireMarks
  <2>2. EndOf(d.cross) = e /\ i \in UserMessages(w)
    BY <1>3, <1>6, <2>1 DEF DistinctEnds, UserMessages
  <2>3. <<n, d.cross>> \in OnTheWay(e)
    BY <2>1, <2>2, TravelsIn DEF w
  <2> QED BY <2>3
<1>7. CASE w[i].type # "USER"
  <2>1. w[i].type = "INVITE" /\ e = Partner(EndOf(w[i].peer))
    BY <1>4, <1>7, MarksDiffer DEF WireMarks
  <2>2. w[i] \in Invites(endpoints, names, channels, pending, m, n)
    BY <1>5, <2>1 DEF Traffic, RoutedMail, Mail, Accepts
  <2>3. w[i].temporary = Temporary(n) /\ PendingFor(pending, m, n, e)
    BY <2>1, <2>2 DEF Invites
  <2>4. Temporary(n) \in DOMAIN pending[m]
    BY <2>1, <2>3 DEF PlaceInv, InvitesPending, w
  <2>5. pending[m][Temporary(n)] \in Reserved /\ EndOf(pending[m][Temporary(n)]) = e
    BY <2>3, <2>4 DEF Reserved, PendingFor
  <2> QED BY <2>5
<1> QED BY <1>6, <1>7

\* Each end of each pipe is in one place: at one endpoint that is not a proxy,
\* or in one message.  Sending it as a handle, forwarding it and accepting an
\* invitation leave no second live endpoint behind and lose none, in networks
\* of any shape.
THEOREM OneHomeAlways == Spec => []OneHome
<1>1. IndInv /\ PlaceInv => OneHome
  <2> SUFFICES ASSUME IndInv, PlaceInv, NEW e \in Ends
               PROVE  IF \E x \in Reserved : EndOf(x) = e
                      THEN Cardinality(Homes(e)) <= 1
                      ELSE e[1] <= pipes => Cardinality(Homes(e)) = 1
    BY DEF OneHome
  <2>1. ASSUME NEW x \in Reserved, EndOf(x) = e PROVE e[1] <= pipes
    <3>1. PICK n \in Nodes : \E k \in DOMAIN pending[n] : x = pending[n][k]
      BY DEF Reserved
    <3>2. x \in DOMAIN endpoints[n]
      BY <3>1 DEF PlaceInv, PendingReady
    <3>3. x \in Given(names) /\ x \in Names
      BY <3>2, EndpointFacts
    <3>4. names[e] > 0
      <4>1. x[3] \in Nat /\ x[3] < names[e] /\ names[e] \in Nat
        BY <2>1, <3>3 DEF Given, Names, IndInv, NamesSound
      <4> QED BY <4>1
    <3>5. e[1] \in Nat /\ pipes \in Nat
      BY BoundsAssumption DEF Ends, IndInv, CountersSound
    <3> QED BY <3>4, <3>5 DEF IndInv, NamesSound
  <2>2. ASSUME e[1] <= pipes, OnTheWay(e) = {}, ~Travels(wire, e)
        PROVE  \E h : Homes(e) = {h}
    <3>1. AtHome(endpoints, pending, wire, e)
      BY <2>2 DEF PlaceInv, AllAtHome
    <3>2. PICK n \in Nodes : \E x \in DOMAIN endpoints[n] :
             /\ Available(endpoints, pending, n, x) /\ EndOf(x) = e
             /\ \A m \in Nodes : \A y \in DOMAIN endpoints[m] :
                   Available(endpoints, pending, m, y) /\ EndOf(y) = e => m = n /\ y = x
      BY <2>2, <3>1 DEF AtHome
    <3>3. PICK x \in DOMAIN endpoints[n] :
             /\ Available(endpoints, pending, n, x) /\ EndOf(x) = e
             /\ \A m \in Nodes : \A y \in DOMAIN endpoints[m] :
                   Available(endpoints, pending, m, y) /\ EndOf(y) = e => m = n /\ y = x
      BY <3>2
    <3>4. <<n, x>> \in AtRest(e) /\ \A h \in AtRest(e) : h = <<n, x>>
      BY <3>3, RestsAt
    <3>5. Homes(e) = {<<n, x>>}
      BY <2>2, <3>4 DEF Homes
    <3> QED BY <3>5
  <2>3. ASSUME e[1] <= pipes, Travels(wire, e) PROVE AtRest(e) = {}
    <3>1. AtHome(endpoints, pending, wire, e)
      BY <2>3 DEF PlaceInv, AllAtHome
    <3>2. \A n \in Nodes : \A x \in DOMAIN endpoints[n] :
             EndOf(x) = e => ~Available(endpoints, pending, n, x)
      BY <2>3, <3>1 DEF AtHome
    <3> QED BY <3>2, RestsAt
  <2>4. ASSUME NEW h \in OnTheWay(e), NEW g \in OnTheWay(e) PROVE g = h
    <3>1. PICK m \in Nodes, n \in Nodes : \E i \in UserMessages(wire[m][n]) :
             \E d \in ToSet(wire[m][n][i].descs) : EndOf(d.cross) = e /\ h = <<n, d.cross>>
      BY TravelsIn
    <3>2. PICK i \in UserMessages(wire[m][n]) :
             \E d \in ToSet(wire[m][n][i].descs) : EndOf(d.cross) = e /\ h = <<n, d.cross>>
      BY <3>1
    <3>3. PICK d \in ToSet(wire[m][n][i].descs) : EndOf(d.cross) = e /\ h = <<n, d.cross>>
      BY <3>2
    <3>4. PICK m2 \in Nodes, n2 \in Nodes : \E j \in UserMessages(wire[m2][n2]) :
             \E c \in ToSet(wire[m2][n2][j].descs) : EndOf(c.cross) = e /\ g = <<n2, c.cross>>
      BY TravelsIn
    <3>5. PICK j \in UserMessages(wire[m2][n2]) :
             \E c \in ToSet(wire[m2][n2][j].descs) : EndOf(c.cross) = e /\ g = <<n2, c.cross>>
      BY <3>4
    <3>6. PICK c \in ToSet(wire[m2][n2][j].descs) : EndOf(c.cross) = e /\ g = <<n2, c.cross>>
      BY <3>5
    <3>7. EndOf(d.cross) = EndOf(c.cross)
      BY <3>3, <3>6
    <3>8. n = n2 /\ d = c
      BY <3>7, IntroducedOnce
    <3> QED BY <3>3, <3>6, <3>8
  <2>5. ASSUME e[1] <= pipes PROVE Homes(e) = {} \/ \E h : Homes(e) = {h}
    <3>1. CASE OnTheWay(e) = {} /\ ~Travels(wire, e)
      BY <2>2, <2>5, <3>1
    <3>2. CASE Travels(wire, e)
      <4>1. Homes(e) = OnTheWay(e)
        BY <2>3, <2>5, <3>2 DEF Homes
      <4> QED BY <2>4, <4>1
    <3> QED BY <3>1, <3>2, OnTheWayTravels
  <2>6. ASSUME e[1] <= pipes, ~ \E x \in Reserved : EndOf(x) = e PROVE Homes(e) # {}
    <3>1. CASE Travels(wire, e)
      BY <2>6, <3>1, TravelsHow DEF Homes
    <3>2. CASE ~Travels(wire, e)
      <4>1. OnTheWay(e) = {}
        BY <3>2, OnTheWayTravels
      <4> QED BY <2>2, <2>6, <3>2, <4>1
    <3> QED BY <3>1, <3>2
  <2>7. Cardinality({}) = 0 /\ \A h : Cardinality({h}) = 1
    BY FS_EmptySet, FS_Singleton
  <2>8. CASE \E x \in Reserved : EndOf(x) = e
    <3>1. Homes(e) = {} \/ \E h : Homes(e) = {h}
      BY <2>1, <2>5, <2>8
    <3> QED BY <2>7, <2>8, <3>1
  <2>9. CASE ~ \E x \in Reserved : EndOf(x) = e
    <3>1. e[1] <= pipes => \E h : Homes(e) = {h}
      BY <2>5, <2>6, <2>9
    <3> QED BY <2>7, <2>9, <3>1
  <2> QED BY <2>8, <2>9
<1> QED BY <1>1, AlwaysInPlace, PTL
-----------------------------------------------------------------------------
(* Meeting.  Two nodes get to know each other by an invitation: the invitee  *)
(* knows its inviter before it answers, and the inviter the invitee by the   *)
(* answer, which is ahead of everything else that the invitee has to say.    *)

\* m knows n by name: it has a channel of that name.
Knows(C, m, n) == n \in DOMAIN C[m]

IsAnswer(msg) == msg.type = "ACCEPT"
AnswerIn(w) == \E i \in DOMAIN w : IsAnswer(w[i])

\* What m and n know of each other, with w on the wire from m to n.
Meeting(C, w, m, n) ==
    /\ Knows(C, m, n) => Knows(C, n, m) \/ AnswerIn(w)
    /\ AnswerIn(w) => Knows(C, m, n)
    /\ \A i \in DOMAIN w : w[i].type = "USER" =>
          Knows(C, n, m) \/ \E j \in 1..(i - 1) : IsAnswer(w[j])

\* Any two nodes.
Meetings(C, W) == \A m, n \in Nodes : Meeting(C, W[m][n], m, n)

\* Every endpoint of n has its peer at n or at a node that n knows.
PeersKnown(E, C) ==
    \A n \in Nodes : \A x \in DOMAIN E[n] :
        E[n][x].peer.node = n \/ Knows(C, n, E[n][x].peer.node)

\* Nobody forgets a node.
Remembers(C, C2) == \A m, n \in Nodes : Knows(C, m, n) => Knows(C2, m, n)

\* What m newly knows, it knows from n or n will know from its answer.
MayKnow(C, C2, m, n) == Knows(C2, m, n) => Knows(C, m, n) \/ Knows(C2, n, m)

\* The wire from m to n is as it was.
LEMMA MeetingStays ==
    ASSUME NEW C, NEW C2, NEW w, NEW m \in Nodes, NEW n \in Nodes,
           Meeting(C, w, m, n), Remembers(C, C2), MayKnow(C, C2, m, n)
    PROVE  Meeting(C2, w, m, n)
BY DEF Meeting, Remembers, MayKnow

\* m has written msg.
LEMMA MeetingWrites ==
    ASSUME NEW C, NEW C2, NEW S, NEW w \in Seq(S), NEW m \in Nodes, NEW n \in Nodes,
           Meeting(C, w, m, n), Remembers(C, C2),
           NEW msg, msg.type # "INVITE" => Knows(C2, m, n),
           IsAnswer(msg) \/ MayKnow(C, C2, m, n),
           msg.type = "USER" => Knows(C, m, n),
           NEW w2, Append(w, msg) = w2
    PROVE  Meeting(C2, w2, m, n)
<1> DEFINE k == Len(w)
<1>1. /\ k \in Nat /\ DOMAIN w = 1..k /\ DOMAIN w2 = 1..(k + 1)
      /\ \A i \in 1..k : w2[i] = w[i]
      /\ w2[k + 1] = msg
  OBVIOUS
<1> HIDE DEF k
<1>2. AnswerIn(w2) <=> AnswerIn(w) \/ IsAnswer(msg)
  <2>1. \A i \in 1..(k + 1) : i \in 1..k \/ i = k + 1
    BY <1>1
  <2>2. \A i \in 1..k : i \in 1..(k + 1)
    BY <1>1
  <2>3. k + 1 \in 1..(k + 1)
    BY <1>1
  <2> QED BY <1>1, <2>1, <2>2, <2>3 DEF AnswerIn
<1>3. Knows(C2, m, n) => Knows(C2, n, m) \/ AnswerIn(w2)
  BY <1>2 DEF Meeting, Remembers, MayKnow
<1>4. AnswerIn(w2) => Knows(C2, m, n)
  BY <1>2 DEF Meeting, Remembers, IsAnswer
<1>5. ASSUME NEW i \in DOMAIN w2, w2[i].type = "USER"
      PROVE  Knows(C2, n, m) \/ \E j \in 1..(i - 1) : IsAnswer(w2[j])
  <2>1. CASE i \in 1..k
    <3>1. Knows(C, n, m) \/ \E j \in 1..(i - 1) : IsAnswer(w[j])
      BY <1>1, <1>5, <2>1 DEF Meeting
    <3>2. \A j \in 1..(i - 1) : j \in 1..k
      BY <1>1, <2>1
    <3> QED BY <1>1, <3>1, <3>2 DEF Remembers
  <2>2. CASE i = k + 1
    <3>1. Knows(C, n, m) \/ AnswerIn(w)
      BY <1>1, <1>5, <2>2 DEF Meeting
    <3>2. i - 1 = k
      BY <1>1, <2>2
    <3> QED BY <1>1, <3>1, <3>2 DEF Remembers, AnswerIn
  <2> QED BY <1>1, <1>5, <2>1, <2>2
<1> QED BY <1>3, <1>4, <1>5 DEF Meeting

\* n has read what m wrote first.
LEMMA MeetingReads ==
    ASSUME NEW C, NEW C2, NEW S, NEW w \in Seq(S), w # << >>, NEW m \in Nodes, NEW n \in Nodes,
           Meeting(C, w, m, n), Remembers(C, C2), MayKnow(C, C2, m, n),
           IsAnswer(Head(w)) => Knows(C2, n, m),
           NEW w2, Tail(w) = w2
    PROVE  Meeting(C2, w2, m, n)
<1> DEFINE k == Len(w)
<1>1. /\ k \in Nat /\ k # 0 /\ DOMAIN w = 1..k /\ DOMAIN w2 = 1..(k - 1)
      /\ \A i \in 1..(k - 1) : w2[i] = w[i + 1]
      /\ Head(w) = w[1]
  BY EmptySeq, LenProperties
<1> HIDE DEF k
<1>2. \A i \in 1..(k - 1) : i + 1 \in 1..k /\ i + 1 - 1 = i
  BY <1>1
<1>3. AnswerIn(w2) => AnswerIn(w)
  BY <1>1, <1>2 DEF AnswerIn
<1>4. AnswerIn(w) => AnswerIn(w2) \/ IsAnswer(w[1])
  <2>1. \A i \in 1..k : i = 1 \/ (i - 1 \in 1..(k - 1) /\ i - 1 + 1 = i)
    BY <1>1
  <2> QED BY <1>1, <2>1, ZenonT(30) DEF AnswerIn
<1>5. Knows(C2, m, n) => Knows(C2, n, m) \/ AnswerIn(w2)
  BY <1>1, <1>4 DEF Meeting, Remembers, MayKnow
<1>6. AnswerIn(w2) => Knows(C2, m, n)
  BY <1>3 DEF Meeting, Remembers
<1>7. ASSUME NEW i \in DOMAIN w2, w2[i].type = "USER", ~Knows(C2, n, m)
      PROVE  \E j \in 1..(i - 1) : IsAnswer(w2[j])
  <2>1. i \in 1..(k - 1) /\ i + 1 \in DOMAIN w /\ w[i + 1].type = "USER" /\ i + 1 - 1 = i
    BY <1>1, <1>2, <1>7
  <2>2. ~Knows(C, n, m)
    BY <1>7 DEF Remembers
  <2>3. PICK j \in 1..i : IsAnswer(w[j])
    BY <2>1, <2>2 DEF Meeting
  <2>4. j # 1
    BY <1>1, <1>7, <2>3
  <2>5. j - 1 \in 1..(i - 1) /\ j - 1 \in 1..(k - 1) /\ j - 1 + 1 = j
    BY <1>1, <2>1, <2>4
  <2>6. w2[j - 1] = w[j]
    BY <1>1, <2>5
  <2> QED BY <2>3, <2>5, <2>6
<1> QED BY <1>5, <1>6, <1>7 DEF Meeting

\* A message is written, and nodes may get to know each other.
LEMMA WroteMeetings ==
    ASSUME NEW C, NEW C2, NEW W, NEW W2, NEW S, NEW m \in Nodes, NEW n \in Nodes, NEW msg,
           Wrote(W, W2, S, m, n, msg), Meetings(C, W), Remembers(C, C2),
           msg.type # "INVITE" => Knows(C2, m, n), msg.type = "USER" => Knows(C, m, n),
           \A k, l \in Nodes : MayKnow(C, C2, k, l) \/ (k = m /\ l = n /\ IsAnswer(msg))
    PROVE  Meetings(C2, W2)
<1> SUFFICES ASSUME NEW k \in Nodes, NEW l \in Nodes PROVE Meeting(C2, W2[k][l], k, l)
  BY DEF Meetings
<1>1. Meeting(C, W[k][l], k, l)
  BY DEF Meetings
<1>2. CASE k = m /\ l = n
  <2> DEFINE w == W[m][n]
             w2 == W2[m][n]
  <2>1. w \in Seq(S) /\ Append(w, msg) = w2
    BY DEF Wrote
  <2>2. Meeting(C, w, m, n)
    BY <1>1, <1>2
  <2>3. IsAnswer(msg) \/ MayKnow(C, C2, m, n)
    OBVIOUS
  <2> HIDE DEF w, w2
  <2>4. Meeting(C2, w2, m, n)
    BY <2>1, <2>2, <2>3, MeetingWrites
  <2> QED BY <1>2, <2>4 DEF w2
<1>3. CASE k # m \/ l # n
  <2>1. W2[k][l] = W[k][l] /\ MayKnow(C, C2, k, l)
    BY <1>3 DEF Wrote
  <2>2. Meeting(C2, W[k][l], k, l)
    BY <1>1, <2>1, MeetingStays
  <2> QED BY <2>1, <2>2
<1> QED BY <1>2, <1>3

\* A message is read.
LEMMA ReadMeetings ==
    ASSUME NEW C, NEW C2, NEW W, NEW W2, NEW S, NEW m \in Nodes, NEW n \in Nodes,
           HasRead(W, W2, S, m, n), Meetings(C, W), Remembers(C, C2),
           \A k, l \in Nodes : MayKnow(C, C2, k, l),
           IsAnswer(Head(W[m][n])) => Knows(C2, n, m)
    PROVE  Meetings(C2, W2)
<1> SUFFICES ASSUME NEW k \in Nodes, NEW l \in Nodes PROVE Meeting(C2, W2[k][l], k, l)
  BY DEF Meetings
<1>1. Meeting(C, W[k][l], k, l)
  BY DEF Meetings
<1>2. CASE k = m /\ l = n
  <2> DEFINE w == W[m][n]
             w2 == W2[m][n]
  <2>1. w \in Seq(S) /\ w # << >> /\ Tail(w) = w2 /\ (IsAnswer(Head(w)) => Knows(C2, n, m))
    BY DEF HasRead
  <2>2. Meeting(C, w, m, n)
    BY <1>1, <1>2
  <2> HIDE DEF w, w2
  <2>3. Meeting(C2, w2, m, n)
    BY <2>1, <2>2, MeetingReads
  <2> QED BY <1>2, <2>3 DEF w2
<1>3. CASE k # m \/ l # n
  <2>1. W2[k][l] = W[k][l]
    BY <1>3 DEF HasRead
  <2>2. Meeting(C2, W[k][l], k, l)
    BY <1>1, MeetingStays
  <2> QED BY <2>1, <2>2
<1> QED BY <1>2, <1>3

\* A message that is read was on the wire, and first.
LEMMA ReadFirst ==
    ASSUME NEW W, NEW W2, NEW S, NEW m \in Nodes, NEW n \in Nodes, HasRead(W, W2, S, m, n)
    PROVE  1 \in DOMAIN W[m][n] /\ W[m][n][1] = Head(W[m][n])
<1> DEFINE w == W[m][n]
<1>1. w \in Seq(S) /\ w # << >>
  BY DEF HasRead
<1> HIDE DEF w
<1>2. 1 \in DOMAIN w /\ w[1] = Head(w)
  BY <1>1
<1> QED BY <1>2 DEF w

\* The names that nodes go by are no temporary names.
LEMMA NobodyNew ==
    ASSUME NEW C, NEW C2, \A m, n \in Nodes : Knows(C2, m, n) <=> Knows(C, m, n)
    PROVE  Remembers(C, C2) /\ \A m, n \in Nodes : MayKnow(C, C2, m, n)
BY DEF Remembers, MayKnow

\* One node gets to know another.
LEMMA OneNew ==
    ASSUME NEW C, NEW C2, NEW n \in Nodes, NEW m \in Nodes,
           \A k \in Nodes : k # n => C2[k] = C[k],
           NEW x, x \notin Nodes, DOMAIN C2[n] = (DOMAIN C[n] \ {x}) \cup {m}
    PROVE  /\ Remembers(C, C2) /\ Knows(C2, n, m)
           /\ \A k, l \in Nodes : MayKnow(C, C2, k, l) \/ (k = n /\ l = m)
<1>1. \A k, l \in Nodes : Knows(C2, k, l) <=> Knows(C, k, l) \/ (k = n /\ l = m)
  <2> SUFFICES ASSUME NEW k \in Nodes, NEW l \in Nodes
               PROVE  Knows(C2, k, l) <=> Knows(C, k, l) \/ (k = n /\ l = m)
    OBVIOUS
  <2>1. CASE k = n
    BY <2>1 DEF Knows
  <2>2. CASE k # n
    BY <2>2 DEF Knows
  <2> QED BY <2>1, <2>2
<1> QED BY <1>1 DEF Remembers, MayKnow

\* Every step keeps it so.
LEMMA NextMeets ==
    ASSUME IndInv, Meetings(channels, wire), [Next]_vars
    PROVE  Meetings(channels', wire') /\ Remembers(channels, channels')
<1>0. Remembers(channels, channels) /\ \A k, l \in Nodes : MayKnow(channels, channels, k, l)
  BY DEF Remembers, MayKnow
<1>1. ASSUME channels' = channels, wire' = wire
      PROVE  Meetings(channels', wire') /\ Remembers(channels, channels')
  BY <1>0, <1>1
<1>2. ASSUME NEW n \in Nodes, NEW t \in Threads, NEW m \in Nodes, SendInvitation(n, t, m)
      PROVE  Meetings(channels', wire') /\ Remembers(channels, channels')
  <2> DEFINE msg == [type |-> "INVITE", inviter |-> n, temporary |-> Temporary(m),
                     peer |-> <<pipes', 1, 0>>]
             Q == Traffic(endpoints, names, channels, pending, n, m)
             C2 == channels'
             W2 == wire'
  <2>1. /\ channels' = [channels EXCEPT ![n] = Insert(@, Temporary(m), m)]
        /\ wire' = [wire EXCEPT ![n][m] = Append(@, msg)]
    BY <1>2 DEF SendInvitation
  <2>2. DOMAIN channels = Nodes /\ DOMAIN wire = Nodes /\ \A k \in Nodes : DOMAIN wire[k] = Nodes
        /\ wire[n][m] \in Seq(Q)
    BY WireIsSeq DEF IndInv, ChannelsSound, WiresSound
  <2>3. Temporary(m) \notin Nodes
    BY TemporaryFacts
  <2>4. msg.type = "INVITE" /\ msg.type # "USER"
    OBVIOUS
  <2> HIDE DEF msg, Q, C2, W2
  <2>5. Wrote(wire, W2, Q, n, m, msg)
    BY <2>1, <2>2 DEF Wrote, W2
  <2>6. \A k \in Nodes : k # n => C2[k] = channels[k]
    BY <2>1, <2>2 DEF C2
  <2>7. DOMAIN C2[n] = DOMAIN channels[n] \cup {Temporary(m)}
    BY <2>1, <2>2 DEF C2, Insert, InsertAll
  <2>8. \A k, l \in Nodes : Knows(C2, k, l) <=> Knows(channels, k, l)
    BY <2>3, <2>6, <2>7 DEF Knows
  <2>9. Remembers(channels, C2) /\ \A k, l \in Nodes : MayKnow(channels, C2, k, l)
    BY <2>8, NobodyNew
  <2>10. Meetings(C2, W2)
    BY <2>4, <2>5, <2>9, WroteMeetings
  <2> QED BY <2>9, <2>10 DEF C2, W2
<1>3. ASSUME NEW n \in Nodes, NEW t \in Threads, AcceptInvitation(n, t)
      PROVE  Meetings(channels', wire') /\ Remembers(channels, channels')
  <2>1. PICK m : channels' = [channels EXCEPT ![n] = Insert(@, InitialChannel, m)]
    BY <1>3 DEF AcceptInvitation
  <2>2. DOMAIN channels = Nodes /\ InitialChannel \notin Nodes /\ wire' = wire
    BY <1>3, NodesAssumption DEF IndInv, ChannelsSound, AcceptInvitation
  <2> DEFINE C2 == channels'
  <2>3. /\ \A k \in Nodes : k # n => C2[k] = channels[k]
        /\ DOMAIN C2[n] = DOMAIN channels[n] \cup {InitialChannel}
    BY <2>1, <2>2 DEF Insert, InsertAll
  <2> HIDE DEF C2
  <2>4. \A k, l \in Nodes : Knows(C2, k, l) <=> Knows(channels, k, l)
    BY <2>2, <2>3 DEF Knows
  <2>5. Remembers(channels, C2) /\ \A k, l \in Nodes : MayKnow(channels, C2, k, l)
    BY <2>4, NobodyNew
  <2>6. Meetings(C2, wire)
    <3> SUFFICES ASSUME NEW k \in Nodes, NEW l \in Nodes PROVE Meeting(C2, wire[k][l], k, l)
      BY DEF Meetings
    <3>1. Meeting(channels, wire[k][l], k, l)
      BY DEF Meetings
    <3> QED BY <2>5, <3>1, MeetingStays
  <2> QED BY <2>2, <2>5, <2>6 DEF C2
<1>4. ASSUME NEW n \in Nodes, NEW m \in Nodes, OnReceivedInvitation(n, m)
      PROVE  Meetings(channels', wire') /\ Remembers(channels, channels')
  <2>1. PICK msg, end, x, W1, Q1, Q2 :
            msg = Head(wire[m][n]) /\ Invited(n, m, msg, end, x, W1, Q1, Q2)
    BY <1>4, InvitedFacts
  <2> DEFINE answer == [type |-> "ACCEPT", temporary |-> Temporary(n), node |-> n, ep |-> x]
             C2 == channels'
             W2 == wire'
  <2>2. HasRead(wire, W1, Q1, m, n) /\ Wrote(W1, W2, Q2, n, m, answer)
    BY <2>1 DEF Invited
  <2>3. /\ \A k \in Nodes : k # n => C2[k] = channels[k]
        /\ DOMAIN C2[n] = (DOMAIN channels[n] \ {InitialChannel}) \cup {m}
    BY <2>1 DEF Invited
  <2>4. ~IsAnswer(Head(wire[m][n])) /\ IsAnswer(answer) /\ answer.type # "USER"
    BY <2>1 DEF Invited, IsAnswer
  <2> HIDE DEF answer, C2, W2
  <2>5. /\ Remembers(channels, C2) /\ Knows(C2, n, m)
        /\ \A k, l \in Nodes : MayKnow(channels, C2, k, l) \/ (k = n /\ l = m)
    BY <2>3, OneNew, NodesAssumption
  <2>6. Meetings(channels, W1)
    BY <1>0, <2>2, <2>4, ReadMeetings
  <2>7. Meetings(C2, W2)
    BY <2>2, <2>4, <2>5, <2>6, WroteMeetings
  <2> QED BY <2>5, <2>7 DEF C2, W2
<1>5. ASSUME NEW n \in Nodes, NEW m \in Nodes, OnReceivedAcceptInvitation(n, m)
      PROVE  Meetings(channels', wire') /\ Remembers(channels, channels')
  <2>1. PICK msg, k, x, Q1 : msg = Head(wire[m][n]) /\ Answered(n, m, msg, k, x, Q1)
    BY <1>5, AnsweredFacts
  <2> DEFINE C2 == channels'
             W2 == wire'
  <2>2. /\ HasRead(wire, W2, Q1, m, n) /\ IsAnswer(Head(wire[m][n])) /\ k = Temporary(m)
        /\ \A l \in Nodes : l # n => C2[l] = channels[l]
        /\ DOMAIN C2[n] = (DOMAIN channels[n] \ {k}) \cup {m}
    BY <2>1 DEF Answered, IsAnswer
  <2>3. k \notin Nodes
    BY <2>2, TemporaryFacts
  <2> HIDE DEF C2, W2
  <2>4. /\ Remembers(channels, C2) /\ Knows(C2, n, m)
        /\ \A i, l \in Nodes : MayKnow(channels, C2, i, l) \/ (i = n /\ l = m)
    BY <2>2, <2>3, OneNew
  <2>5. Knows(C2, m, n)
    <3>1. 1 \in DOMAIN wire[m][n] /\ wire[m][n][1] = Head(wire[m][n])
      BY <2>2, ReadFirst
    <3>2. AnswerIn(wire[m][n])
      BY <2>2, <3>1 DEF AnswerIn
    <3>3. Knows(channels, m, n)
      BY <3>2 DEF Meetings, Meeting
    <3> QED BY <2>4, <3>3 DEF Remembers
  <2>6. \A i, l \in Nodes : MayKnow(channels, C2, i, l)
    BY <2>4, <2>5 DEF MayKnow
  <2>7. Meetings(C2, W2)
    BY <2>2, <2>4, <2>6, ReadMeetings
  <2> QED BY <2>4, <2>7 DEF C2, W2
<1>6. ASSUME NEW n \in Nodes, NEW m \in Nodes, OnReceivedUserMessage(n, m)
      PROVE  Meetings(channels', wire') /\ Remembers(channels, channels')
  <2> DEFINE W2 == wire'
             Q == Traffic(endpoints, names, channels, pending, m, n)
  <2>1. ReceivesUserMessage(n, m) /\ wire' = [wire EXCEPT ![m][n] = Tail(@)] /\ channels' = channels
    BY <1>6 DEF OnReceivedUserMessage
  <2>2. wire[m][n] # << >> /\ ~IsAnswer(Head(wire[m][n]))
    BY <2>1, ReceivedUserFacts DEF IsAnswer
  <2>3. DOMAIN wire = Nodes /\ \A k \in Nodes : DOMAIN wire[k] = Nodes
    BY DEF IndInv, WiresSound
  <2>4. wire[m][n] \in Seq(Q)
    BY WireIsSeq DEF IndInv
  <2> HIDE DEF W2, Q
  <2>5. HasRead(wire, W2, Q, m, n)
    BY <2>1, <2>2, <2>3, <2>4 DEF HasRead, W2
  <2>6. Meetings(channels, W2)
    BY <1>0, <2>2, <2>5, ReadMeetings
  <2> QED BY <1>0, <2>1, <2>6 DEF W2
<1>7. ASSUME NEW n \in Nodes, NEW m \in Nodes, ForwardUserMessage(n, m)
      PROVE  Meetings(channels', wire') /\ Remembers(channels, channels')
  <2>1. PICK k, msg, mail, E1, W1, Q1, Q2 :
            msg = Head(wire[m][n]) /\ Forwarded(n, m, k, msg, mail, E1, W1, Q1, Q2)
    BY <1>7, ForwardedFacts
  <2> DEFINE W2 == wire'
  <2>2. /\ Arrived(n, m, msg, E1, W1, Q1) /\ k \in Nodes /\ mail.type = "USER"
        /\ Wrote(W1, W2, Q2, n, k, mail)
    BY <2>1 DEF Forwarded
  <2>3. Knows(channels, n, k)
    BY <2>1 DEF Forwarded, MovedOn, Knows
  <2>4. HasRead(wire, W1, Q1, m, n) /\ ~IsAnswer(Head(wire[m][n]))
    BY <2>1, <2>2 DEF Arrived, IsAnswer
  <2>5. channels' = channels
    BY <1>7, ZenonT(30) DEF ForwardUserMessage
  <2> HIDE DEF W2
  <2>6. Meetings(channels, W1)
    BY <1>0, <2>4, ReadMeetings
  <2>7. Meetings(channels, W2)
    BY <1>0, <2>2, <2>3, <2>6, WroteMeetings
  <2> QED BY <1>0, <2>5, <2>7 DEF W2
<1>8. ASSUME NEW n \in Nodes, NEW t \in AllThreads, FlushOne(n, t)
      PROVE  Meetings(channels', wire') /\ Remembers(channels, channels')
  <2>1. PICK k, msg, mail, Ep, q, Q2 :
            msg = Head(call[n][t].msgs) /\ Flushed(n, t, k, msg, mail, Ep, q, Q2)
    BY <1>8, FlushedFacts
  <2> DEFINE W2 == wire'
  <2>2. k \in Nodes /\ mail.type = "USER" /\ Wrote(wire, W2, Q2, n, k, mail)
    BY <2>1, ZenonT(30) DEF Flushed
  <2>3. Knows(channels, n, k)
    BY <2>1, ZenonT(30) DEF Flushed, MovedOn, Knows
  <2>4. channels' = channels
    BY <1>8, ZenonT(30) DEF FlushOne
  <2> HIDE DEF W2
  <2>5. Meetings(channels, W2)
    BY <1>0, <2>2, <2>3, WroteMeetings
  <2> QED BY <1>0, <2>4, <2>5 DEF W2
<1>9. CASE UNCHANGED vars
  BY <1>1, <1>9 DEF vars, netVars
<1>10. ASSUME NEW n \in Nodes, NEW t \in Threads, Application(n, t)
       PROVE  Meetings(channels', wire') /\ Remembers(channels, channels')
  <2>1. CASE CreateMessagePipes(n, t)
    BY <1>1, <2>1 DEF CreateMessagePipes
  <2>2. CASE SendMessage(n, t)
    BY <1>1, <2>2 DEF SendMessage, SendToRemotePeer, SendThroughProxy, SendToLocalPeer, Sends
  <2>3. CASE \E x \in held[n] : Bind(n, t, x)
    BY <1>1, <2>3 DEF Bind
  <2> QED BY <1>2, <1>3, <1>10, <2>1, <2>2, <2>3 DEF Application
<1>11. ASSUME NEW n \in Nodes, NEW t \in Threads, RunTask(n, t)
       PROVE  Meetings(channels', wire') /\ Remembers(channels, channels')
  BY <1>1, <1>11, ZenonT(30) DEF RunTask
<1>12. ASSUME NEW n \in Nodes, IOThread(n)
       PROVE  Meetings(channels', wire') /\ Remembers(channels, channels')
  BY <1>4, <1>5, <1>6, <1>7, <1>12 DEF IOThread
<1>13. ASSUME NEW n \in Nodes, NEW t \in AllThreads, Flush(n, t)
       PROVE  Meetings(channels', wire') /\ Remembers(channels, channels')
  <2>1. CASE FlushDone(n, t)
    BY <1>1, <2>1 DEF FlushDone
  <2> QED BY <1>8, <1>13, <2>1 DEF Flush
<1> QED BY <1>9, <1>10, <1>11, <1>12, <1>13 DEF Next

\* There is no third node.
AtMostTwoNodes == \A i, j, k \in Nodes : i = j \/ j = k \/ i = k

\* Endpoints that were not there have their peers where they can be reached.
NewPeersKnown(E, E2, C2) ==
    \A n \in Nodes : \A x \in DOMAIN E2[n] \ DOMAIN E[n] :
        E2[n][x].peer.node = n \/ Knows(C2, n, E2[n][x].peer.node)

\* Those that were keep theirs.
LEMMA PeersStayKnown ==
    ASSUME NEW E, NEW E2, NEW C, NEW C2, PeersKnown(E, C), Remembers(C, C2), RoutesKept(E, E2),
           \A n \in Nodes : \A x \in DOMAIN E[n] : E[n][x].peer.node \in Nodes,
           NewPeersKnown(E, E2, C2)
    PROVE  PeersKnown(E2, C2)
<1> SUFFICES ASSUME NEW n \in Nodes, NEW x \in DOMAIN E2[n]
             PROVE  E2[n][x].peer.node = n \/ Knows(C2, n, E2[n][x].peer.node)
  BY DEF PeersKnown
<1>1. CASE x \in DOMAIN E[n]
  <2>1. E2[n][x].peer = E[n][x].peer
    BY <1>1 DEF RoutesKept, Kept
  <2>2. E[n][x].peer.node = n \/ Knows(C, n, E[n][x].peer.node)
    BY <1>1 DEF PeersKnown
  <2>3. E[n][x].peer.node \in Nodes
    BY <1>1
  <2> QED BY <2>1, <2>2, <2>3 DEF Remembers
<1>2. CASE x \notin DOMAIN E[n]
  BY <1>2 DEF NewPeersKnown
<1> QED BY <1>1, <1>2

\* Nothing is new when no table grows.
LEMMA NoPeersNew ==
    ASSUME NEW E, NEW E2, NEW C2, \A n \in Nodes : DOMAIN E2[n] \subseteq DOMAIN E[n]
    PROVE  NewPeersKnown(E, E2, C2)
BY DEF NewPeersKnown

\* The ends of a new pipe are at one node.
LEMMA NewPipePeers ==
    ASSUME IndInv, NEW n \in Nodes, CreatePipe(n), NEW C2
    PROVE  NewPeersKnown(endpoints, endpoints', C2)
<1> DEFINE p == pipes + 1
           pair == Entangled(n, p)
           E2 == endpoints'
<1>1. DOMAIN endpoints = Nodes
  BY DEF IndInv, EndpointsSound
<1>2. E2 = [endpoints EXCEPT ![n] = InsertAll(@, pair)]
  BY DEF CreatePipe
<1>3. \A x \in DOMAIN pair : pair[x].peer.node = n
  BY DEF Entangled, NewEndpoint, Address
<1> HIDE DEF pair, E2
<1>4. /\ \A m \in Nodes : m # n => E2[m] = endpoints[m]
      /\ \A x \in DOMAIN E2[n] \ DOMAIN endpoints[n] : x \in DOMAIN pair /\ E2[n][x] = pair[x]
  BY <1>1, <1>2 DEF InsertAll
<1> QED BY <1>3, <1>4 DEF NewPeersKnown, E2

\* Endpoints that m introduces to n have their peers with one of the two.
LEMMA RecoveredPeers ==
    ASSUME IndInv, AtMostTwoNodes, Meetings(channels, wire),
           NEW n \in Nodes, NEW m \in Nodes, ReceivesUserMessage(n, m),
           NEW table, table = Recover(n, Head(wire[m][n]).descs),
           NEW x \in DOMAIN table \ DOMAIN endpoints[n]
    PROVE  table[x].peer.node = n \/ Knows(channels, n, table[x].peer.node)
<1> DEFINE msg == Head(wire[m][n])
           d == CHOOSE d \in ToSet(msg.descs) : d.cross = x
<1>1. /\ wire[m][n] # << >> /\ msg.type = "USER"
      /\ ToSet(msg.descs) \subseteq Carried(endpoints, names)
  BY ReceivedUserFacts
<1>2. m # n
  <2>1. PICK k \in DOMAIN channels[n] : channels[n][k] = m
    BY DEF ReceivesUserMessage, Receives
  <2> QED BY <2>1 DEF IndInv, ChannelsSound, ChannelOk
<1>3. Knows(channels, n, m)
  <2>1. wire[m][n] \in Seq(Traffic(endpoints, names, channels, pending, m, n))
    BY WireIsSeq DEF IndInv
  <2>2. 1 \in DOMAIN wire[m][n] /\ wire[m][n][1] = msg
    BY <1>1, <2>1
  <2> HIDE DEF msg
  <2>3. Meeting(channels, wire[m][n], m, n)
    BY DEF Meetings
  <2> QED BY <1>1, <2>2, <2>3 DEF Meeting
<1>4. x \in {c.cross : c \in ToSet(msg.descs)} /\ table[x] = NewEndpoint(d.peer)
  BY DEF Recover, InsertAll
<1>5. d \in ToSet(msg.descs)
  BY <1>4
<1> HIDE DEF d, msg
<1>6. d.peer \in Addresses
  BY <1>1, <1>5 DEF Carried
<1>7. d.peer.node \in Nodes /\ table[x].peer = d.peer
  BY <1>4, <1>6 DEF Addresses, NewEndpoint
<1>8. d.peer.node = n \/ d.peer.node = m
  BY <1>2, <1>7 DEF AtMostTwoNodes
<1> QED BY <1>3, <1>7, <1>8

\* A message that is queued or posted adds no endpoint to the table.
LEMMA AcceptedAdds ==
    ASSUME IndInv, NEW n \in Nodes, NEW table, NEW x \in DOMAIN table, NEW msg,
           AcceptMessage(n, table, x, msg)
    PROVE  /\ \A k \in Nodes : k # n => endpoints'[k] = endpoints[k]
           /\ DOMAIN endpoints'[n] = DOMAIN table
           /\ \A y \in DOMAIN table : y # x => endpoints'[n][y] = table[y]
<1>1. DOMAIN endpoints = Nodes
  BY DEF IndInv, EndpointsSound
<1>2. CASE endpoints' = [endpoints EXCEPT ![n] = [table EXCEPT ![x].queue = Append(@, msg)]]
  BY <1>1, <1>2
<1>3. CASE endpoints' = [endpoints EXCEPT ![n] = table]
  BY <1>1, <1>3
<1> QED BY <1>2, <1>3 DEF AcceptMessage

\* Whatever endpoint comes to be has its peer where it can be reached.
LEMMA NextNewPeers ==
    ASSUME IndInv, AtMostTwoNodes, Meetings(channels, wire), [Next]_vars
    PROVE  NewPeersKnown(endpoints, endpoints', channels')
<1> DEFINE C2 == channels'
           E2 == endpoints'
<1>1. ASSUME endpoints' = endpoints PROVE NewPeersKnown(endpoints, E2, C2)
  BY <1>1, NoPeersNew
<1>0. DOMAIN endpoints = Nodes /\ DOMAIN channels = Nodes
  BY DEF IndInv, EndpointsSound, ChannelsSound
<1>2. ASSUME NEW n \in Nodes, CreatePipe(n) PROVE NewPeersKnown(endpoints, E2, C2)
  BY <1>2, NewPipePeers
<1>3. ASSUME NEW n \in Nodes, NEW m \in Nodes, OnReceivedInvitation(n, m)
      PROVE  NewPeersKnown(endpoints, E2, C2)
  <2> DEFINE params == Head(wire[m][n])
             x == FreshName(Partner(EndOf(params.peer)))
             new == NewEndpoint(Address(params.inviter, params.peer))
  <2>1. PICK msg, end, y, W1, Q1, Q2 :
            msg = Head(wire[m][n]) /\ Invited(n, m, msg, end, y, W1, Q1, Q2)
    BY <1>3, InvitedFacts
  <2>2. DOMAIN C2[n] = (DOMAIN channels[n] \ {InitialChannel}) \cup {m}
    BY <2>1 DEF Invited
  <2>3. params.inviter = m
    <3>1. Receives(n, m, "INVITE")
      BY <1>3 DEF OnReceivedInvitation
    <3>2. params.type = "INVITE" /\ params \in Traffic(endpoints, names, channels, pending, m, n)
      BY <3>1, ReceivedFacts
    <3> HIDE DEF params
    <3> QED BY <3>2 DEF Traffic, RoutedMail, Mail, Invites, Accepts
  <2>4. E2 = [endpoints EXCEPT ![n] = Insert(@, x, new)]
    BY <1>3 DEF OnReceivedInvitation
  <2>5. new.peer.node = m
    BY <2>3 DEF NewEndpoint, Address
  <2> HIDE DEF params, x, new, C2, E2
  <2>6. /\ \A k \in Nodes : k # n => E2[k] = endpoints[k]
        /\ \A z \in DOMAIN E2[n] \ DOMAIN endpoints[n] : E2[n][z] = new
    BY <1>0, <2>4 DEF Insert, InsertAll
  <2> QED BY <2>2, <2>5, <2>6 DEF NewPeersKnown, Knows
<1>4. ASSUME NEW n \in Nodes, NEW m \in Nodes, OnReceivedAcceptInvitation(n, m)
      PROVE  NewPeersKnown(endpoints, E2, C2)
  <2>1. PICK msg, k, x, Q1 : msg = Head(wire[m][n]) /\ Answered(n, m, msg, k, x, Q1)
    BY <1>4, AnsweredFacts
  <2>2. /\ \A l \in Nodes : l # n => endpoints'[l] = endpoints[l]
        /\ DOMAIN endpoints'[n] = DOMAIN endpoints[n]
    BY <2>1 DEF Answered
  <2>3. \A l \in Nodes : DOMAIN E2[l] \subseteq DOMAIN endpoints[l]
    BY <2>2
  <2> HIDE DEF C2, E2
  <2> QED BY <2>3, NoPeersNew
<1>5. ASSUME NEW n \in Nodes, NEW m \in Nodes, OnReceivedUserMessage(n, m)
      PROVE  NewPeersKnown(endpoints, E2, C2)
  <2> DEFINE msg == Head(wire[m][n])
             table == Recover(n, msg.descs)
             mail == [msg EXCEPT !.pipes = [i \in DOMAIN msg.descs |-> msg.descs[i].cross]]
  <2>1. /\ ReceivesUserMessage(n, m) /\ AcceptMessage(n, table, msg.target, mail)
        /\ channels' = channels
    BY <1>5 DEF OnReceivedUserMessage
  <2>2. msg.target \in DOMAIN endpoints[n]
    BY <2>1, ReceivedUserFacts
  <2>3. DOMAIN endpoints[n] \subseteq DOMAIN table
    BY DEF Recover, InsertAll
  <2>4. \A y \in DOMAIN table \ DOMAIN endpoints[n] :
            table[y].peer.node = n \/ Knows(channels, n, table[y].peer.node)
    BY <2>1, RecoveredPeers
  <2> HIDE DEF msg, table, mail, C2, E2
  <2>5. /\ \A k \in Nodes : k # n => endpoints'[k] = endpoints[k]
        /\ DOMAIN endpoints'[n] = DOMAIN table
        /\ \A y \in DOMAIN table : y # msg.target => endpoints'[n][y] = table[y]
    BY <2>1, <2>2, <2>3, AcceptedAdds
  <2>6. \A y \in DOMAIN E2[n] \ DOMAIN endpoints[n] :
            E2[n][y].peer.node = n \/ Knows(channels, n, E2[n][y].peer.node)
    BY <2>2, <2>4, <2>5 DEF E2
  <2>7. \A k \in Nodes : k # n => E2[k] = endpoints[k]
    BY <2>5 DEF E2
  <2> QED BY <2>1, <2>6, <2>7 DEF NewPeersKnown, C2
<1>6. ASSUME NEW n \in Nodes, NEW m \in Nodes, ForwardUserMessage(n, m)
      PROVE  NewPeersKnown(endpoints, E2, C2)
  <2> DEFINE msg == Head(wire[m][n])
             table == Recover(n, msg.descs)
             k == endpoints[n][msg.target].target.node
             descs == [i \in DOMAIN msg.descs |-> Inchworm(msg.descs[i])]
             E1 == WithTable(endpoints, n, table)
  <2>1. /\ ReceivesUserMessage(n, m) /\ channels' = channels
        /\ endpoints' = [endpoints EXCEPT ![n] = Moved(table, descs, k)]
    BY <1>6, ZenonT(30) DEF ForwardUserMessage
  <2>2. \A y \in DOMAIN table \ DOMAIN endpoints[n] :
            table[y].peer.node = n \/ Knows(channels, n, table[y].peer.node)
    BY <2>1, RecoveredPeers
  <2>0. /\ ToSet(msg.descs) \subseteq Carried(endpoints, names)
        /\ \A d \in ToSet(msg.descs) : d.cross \notin DOMAIN endpoints[n]
        /\ table = Recover(n, msg.descs) /\ E1 = WithTable(endpoints, n, table)
    BY <2>1, ReceivedUserFacts
  <2> HIDE DEF msg, table, k, descs, C2, E1, E2
  <2>3. /\ DOMAIN Moved(table, descs, k) = DOMAIN table
        /\ \A y \in DOMAIN table : Moved(table, descs, k)[y].peer.node = table[y].peer.node
    <3>1. \A y \in DOMAIN table : table[y] = [state |-> table[y].state, peer |-> table[y].peer,
             target |-> table[y].target, runner |-> table[y].runner, queue |-> table[y].queue]
      <4>1. \A y \in DOMAIN table : table[y] \in SoundEndpoints(E1, names, n, y)
        BY <2>0, RecoverSound
      <4> QED BY <4>1 DEF SoundEndpoints
    <3> QED BY <3>1 DEF Moved, Proxying
  <2>4. E2[n] = Moved(table, descs, k) /\ \A l \in Nodes : l # n => E2[l] = endpoints[l]
    BY <1>0, <2>1 DEF E2
  <2> QED BY <2>1, <2>2, <2>3, <2>4 DEF NewPeersKnown, C2
<1>7. ASSUME NEW n \in Nodes, NEW t \in AllThreads, FlushOne(n, t)
      PROVE  NewPeersKnown(endpoints, E2, C2)
  <2> DEFINE msg == Head(call[n][t].msgs)
             k == call[n][t].dest
  <2>1. endpoints' = [endpoints EXCEPT ![n] = Moved(@, msg.descs, k)]
    BY <1>7, ZenonT(30) DEF FlushOne
  <2>2. \A l \in Nodes : DOMAIN endpoints'[l] \subseteq DOMAIN endpoints[l]
    BY <1>0, <2>1 DEF Moved
  <2> HIDE DEF C2
  <2> QED BY <2>2, NoPeersNew
<1>8. ASSUME NEW n \in Nodes, NEW t \in Threads, SendMessage(n, t)
      PROVE  NewPeersKnown(endpoints, E2, C2)
  <2>1. PICK c \in held[n] : \E hs \in HandleLists(n, c) :
            \/ SendToRemotePeer(n, t, c, hs)
            \/ SendThroughProxy(n, t, c, hs)
            \/ SendToLocalPeer(n, t, c, hs)
    BY <1>8 DEF SendMessage
  <2>2. PICK hs \in HandleLists(n, c) :
            \/ SendToRemotePeer(n, t, c, hs)
            \/ SendThroughProxy(n, t, c, hs)
            \/ SendToLocalPeer(n, t, c, hs)
    BY <2>1
  <2>3. CASE SendToLocalPeer(n, t, c, hs)
    <3> DEFINE x == endpoints[n][c].peer.ep
               msg == [NewMessage(n, c, hs) EXCEPT
                          !.pipes = ExistingPipes(NewMessage(n, c, hs).descs)]
    <3>1. x \in DOMAIN endpoints[n] /\ AcceptMessage(n, endpoints[n], x, msg)
      BY <2>3 DEF SendToLocalPeer, Local
    <3> HIDE DEF x, msg
    <3>2. /\ \A k \in Nodes : k # n => endpoints'[k] = endpoints[k]
          /\ DOMAIN endpoints'[n] = DOMAIN endpoints[n]
      BY <3>1, AcceptedAdds
    <3>3. \A l \in Nodes : DOMAIN endpoints'[l] \subseteq DOMAIN endpoints[l]
      BY <3>2
    <3> HIDE DEF C2
    <3> QED BY <3>3, NoPeersNew
  <2>4. CASE SendToRemotePeer(n, t, c, hs) \/ SendThroughProxy(n, t, c, hs)
    BY <1>1, <2>4 DEF SendToRemotePeer, SendThroughProxy
  <2> QED BY <2>2, <2>3, <2>4
<1>9. ASSUME NEW n \in Nodes, NEW t \in Threads, NEW x \in held[n], Bind(n, t, x)
      PROVE  NewPeersKnown(endpoints, E2, C2)
  <2>1. endpoints' = [endpoints EXCEPT ![n][x].state = "bound", ![n][x].runner = t,
                                       ![n][x].queue = << >>]
    BY <1>9 DEF Bind
  <2>2. \A l \in Nodes : DOMAIN endpoints'[l] \subseteq DOMAIN endpoints[l]
    BY <1>0, <2>1
  <2> HIDE DEF C2
  <2> QED BY <2>2, NoPeersNew
<1>10. ASSUME UNCHANGED vars PROVE NewPeersKnown(endpoints, E2, C2)
  BY <1>1, <1>10 DEF vars, netVars
<1>11. ASSUME NEW n \in Nodes, NEW t \in Threads, Application(n, t)
       PROVE  NewPeersKnown(endpoints, E2, C2)
  <2>1. CASE CreateMessagePipes(n, t)
    BY <1>2, <2>1 DEF CreateMessagePipes
  <2>2. CASE \E m \in Nodes : SendInvitation(n, t, m)
    BY <1>2, <2>2, ZenonT(30) DEF SendInvitation
  <2>3. CASE AcceptInvitation(n, t)
    BY <1>1, <2>3 DEF AcceptInvitation
  <2> QED BY <1>8, <1>9, <1>11, <2>1, <2>2, <2>3 DEF Application
<1>12. ASSUME NEW n \in Nodes, NEW t \in Threads, RunTask(n, t)
       PROVE  NewPeersKnown(endpoints, E2, C2)
  BY <1>1, <1>12, ZenonT(30) DEF RunTask
<1>13. ASSUME NEW n \in Nodes, IOThread(n) PROVE NewPeersKnown(endpoints, E2, C2)
  BY <1>3, <1>4, <1>5, <1>6, <1>13 DEF IOThread
<1>14. ASSUME NEW n \in Nodes, NEW t \in AllThreads, Flush(n, t)
       PROVE  NewPeersKnown(endpoints, E2, C2)
  <2>1. CASE FlushDone(n, t)
    BY <1>1, <2>1 DEF FlushDone
  <2> QED BY <1>7, <1>14, <2>1 DEF Flush
<1>15. ASSUME Next PROVE NewPeersKnown(endpoints, E2, C2)
  <2> HIDE DEF C2, E2
  <2>1. PICK n \in Nodes :
           \/ \E t \in Threads : Application(n, t) \/ RunTask(n, t)
           \/ IOThread(n)
           \/ \E t \in AllThreads : Flush(n, t)
    BY <1>15 DEF Next
  <2> QED BY <1>11, <1>12, <1>13, <1>14, <2>1
<1> HIDE DEF C2, E2
<1>16. NewPeersKnown(endpoints, E2, C2)
  BY <1>10, <1>15
<1> QED BY <1>16 DEF C2, E2

-----------------------------------------------------------------------------
(* What two nodes can rely on.                                               *)

\* The peer of every endpoint is a node's.
LEMMA PeersAreNodes ==
    ASSUME IndInv, NEW n \in Nodes, NEW x \in DOMAIN endpoints[n]
    PROVE  /\ endpoints[n][x].peer.node \in Nodes
           /\ endpoints[n][x].peer.ep \in DOMAIN endpoints[endpoints[n][x].peer.node]
BY EndpointFacts DEF SoundEndpoints, Peers, Addresses

\* At first nobody knows anybody and there is nothing to know.
LEMMA InitMeets ==
    ASSUME Init
    PROVE  Meetings(channels, wire) /\ PeersKnown(endpoints, channels)
<1>1. \A m, n \in Nodes : ~Knows(channels, m, n)
  BY DEF Init, Knows
<1>2. \A m, n \in Nodes : wire[m][n] = << >>
  BY DEF Init
<1>3. \A m, n \in Nodes : DOMAIN wire[m][n] = {}
  BY <1>2
<1>4. \A n \in Nodes : DOMAIN endpoints[n] = {}
  BY DEF Init
<1> QED BY <1>1, <1>3, <1>4 DEF Meetings, Meeting, AnswerIn, PeersKnown

\* No step changes an endpoint's peer, or takes an endpoint away.
LEMMA NextKeepsRoutes ==
    ASSUME IndInv, [Next]_vars
    PROVE  RoutesKept(endpoints, endpoints')
<1>1. CASE Next
  <2>1. PICK n \in Nodes :
           \/ \E t \in Threads : Application(n, t) \/ RunTask(n, t)
           \/ IOThread(n)
           \/ \E t \in AllThreads : Flush(n, t)
    BY <1>1 DEF Next
  <2> QED BY <2>1, ApplicationKeeps, ReceptionKeeps, FlushKeeps DEF IOThread
<1>2. CASE UNCHANGED vars
  <2>1. endpoints' = endpoints
    BY <1>2 DEF vars, netVars
  <2> QED BY <2>1 DEF RoutesKept, Kept
<1> QED BY <1>1, <1>2

\* Every endpoint's peer stays within reach.
LEMMA NextPeersKnown ==
    ASSUME IndInv, AtMostTwoNodes, Meetings(channels, wire), PeersKnown(endpoints, channels),
           [Next]_vars
    PROVE  PeersKnown(endpoints', channels')
<1> DEFINE C2 == channels'
           E2 == endpoints'
<1>1. Remembers(channels, C2)
  BY NextMeets
<1>2. NewPeersKnown(endpoints, E2, C2)
  BY NextNewPeers
<1>3. RoutesKept(endpoints, E2)
  BY NextKeepsRoutes
<1>4. \A n \in Nodes : \A x \in DOMAIN endpoints[n] : endpoints[n][x].peer.node \in Nodes
  BY PeersAreNodes
<1> HIDE DEF C2, E2
<1>5. PeersKnown(E2, C2)
  BY <1>1, <1>2, <1>3, <1>4, PeersStayKnown
<1> QED BY <1>5 DEF C2, E2

\* Between two nodes the peer of a handle the application may use is an
\* endpoint of this node or there is a channel to its node, and never both, so
\* that Node::SendMessage has one way to go (node.cc:203-216).
THEOREM PeerReachedOneWay == AtMostTwoNodes => (Spec => []PeerIsLocalOrRemote)
<1> SUFFICES ASSUME AtMostTwoNodes PROVE Spec => []PeerIsLocalOrRemote
  OBVIOUS
<1> DEFINE Reach == Meetings(channels, wire) /\ PeersKnown(endpoints, channels)
<1>1. Init => Reach
  BY InitMeets
<1>2. IndInv /\ PlaceInv /\ Reach /\ [Next]_vars => Reach'
  BY NextMeets, NextPeersKnown
<1>3. IndInv /\ PlaceInv /\ Reach => PeerIsLocalOrRemote
  <2> SUFFICES ASSUME IndInv, PlaceInv, Reach, NEW n \in Nodes, NEW x \in held[n]
               PROVE  LET peer == endpoints[n][x].peer
                      IN (peer.ep \notin Local(n)) # (peer.node \notin DOMAIN channels[n])
    BY DEF PeerIsLocalOrRemote
  <2> DEFINE peer == endpoints[n][x].peer
  <2>1. x \in DOMAIN endpoints[n]
    BY DEF IndInv, HeldSound
  <2>2. /\ peer.node \in Nodes /\ peer.ep \in DOMAIN endpoints[peer.node]
        /\ peer.node = n \/ peer.node \in DOMAIN channels[n]
    BY <2>1, PeersAreNodes DEF PeersKnown, Knows
  <2> HIDE DEF peer
  <2>3. n \notin DOMAIN channels[n]
    BY DEF IndInv, ChannelsSound, ChannelOk
  <2>4. peer.ep \in DOMAIN endpoints[n] => peer.node = n
    BY <2>2 DEF PlaceInv, NamesApart
  <2> QED BY <2>2, <2>3, <2>4 DEF peer, Local
<1> QED BY <1>1, <1>2, <1>3, AlwaysInPlace, PTL DEF Spec

\* The endpoints in the next message of a call are all here and ready to be
\* moved, or all at other nodes: the message came with them.
ReadyOrElsewhere ==
    \A n \in Nodes, t \in AllThreads :
        call[n][t].msgs # << >> =>
            /\ call[n][t].dest \in DOMAIN channels[n]
            /\ \/ \A d \in ToSet(Head(call[n][t].msgs).descs) :
                     d.name \in Local(n) /\ endpoints[n][d.name].state = "queueing"
               \/ \A d \in ToSet(Head(call[n][t].msgs).descs) :
                     \E m \in Nodes \ {n} : d.name \in Local(m)

\* Whatever is written, its channel is there (node.cc:541), and the only
\* messages with which the CHECK of node.cc:502 can fail are those that a node
\* received with handles, queued, and sends on (run NodeReforward).
THEOREM OnlyReceivedFail == Spec => []ReadyOrElsewhere
<1>1. IndInv /\ PlaceInv => ReadyOrElsewhere
  <2> SUFFICES ASSUME IndInv, PlaceInv, NEW n \in Nodes, NEW t \in AllThreads,
                      call[n][t].msgs # << >>
               PROVE  /\ call[n][t].dest \in DOMAIN channels[n]
                      /\ \/ \A d \in ToSet(Head(call[n][t].msgs).descs) :
                               d.name \in Local(n) /\ endpoints[n][d.name].state = "queueing"
                         \/ \A d \in ToSet(Head(call[n][t].msgs).descs) :
                               \E m \in Nodes \ {n} : d.name \in Local(m)
    BY DEF ReadyOrElsewhere
  <2> DEFINE msgs == call[n][t].msgs
             msg == Head(msgs)
  <2>1. call[n][t].dest \in DOMAIN channels[n]
    BY DEF PlaceInv, CallsBound
  <2>2. PICK S : msgs \in Seq(S)
    BY DEF IndInv, CallsSound, Calls
  <2>3. 1 \in DOMAIN msgs /\ msg = msgs[1]
    BY <2>2
  <2> HIDE DEF msg
  <2>4. CallReady(endpoints, pending, n, msg)
    BY <2>3 DEF PlaceInv, CallsReady
  <2> HIDE DEF msgs
  <2>5. CASE Fresh(endpoints, pending, n, msg)
    BY <2>1, <2>5 DEF Fresh, Available, Local, msg, msgs
  <2>6. CASE Stale(endpoints, n, msg)
    BY <2>1, <2>6 DEF Stale, Local, msg, msgs
  <2> QED BY <2>4, <2>5, <2>6 DEF CallReady
<1> QED BY <1>1, AlwaysInPlace, PTL

-----------------------------------------------------------------------------
(* Two nodes, where no endpoint is moved on with handles queued on it.  An   *)
(* endpoint that a message waiting at its node will carry away is pinned.    *)

IsWaiting(E, K, n, descs) ==
    \/ \E x \in DOMAIN E[n] : \E i \in DOMAIN E[n][x].queue : E[n][x].queue[i].descs = descs
    \/ \E t \in AllThreads : \E i \in DOMAIN K[n][t].msgs : K[n][t].msgs[i].descs = descs

Pinned(E, K, n, x) ==
    x \in DOMAIN E[n] /\ \E descs : IsWaiting(E, K, n, descs) /\ \E d \in ToSet(descs) : d.name = x

\* The ends that handles travel to: no endpoint of theirs is pinned or can
\* come to be, for its pipe carries handles and it has been moved.
Still(E, K, e) == \A n \in Nodes : \A x \in DOMAIN E[n] : EndOf(x) = e => ~Pinned(E, K, n, x)
Guarded(E, K, R, M) == {e \in Ends : e[1] \in R /\ M[e[1]] # 0 /\ Still(E, K, e)}

\* The handles in a message are of the node it is at.
Own(E, n, msg) == \A d \in ToSet(msg.descs) : d.name \in DOMAIN E[n]

\* What is known of a message in a call, on a wire, queued on an endpoint and
\* queued on one that is reserved for an invitee; G are the ends guarded.
CallTame(E, G, n, msg) == Own(E, n, msg) /\ (msg.descs # << >> => EndOf(msg.target) \in G)
WireTame(G, msg) == msg.type = "USER" /\ msg.descs # << >> => EndOf(msg.target) \in G
QueueTame(E, R, G, n, x, msg) ==
    msg.descs # << >> => x[1] \in R /\ (Own(E, n, msg) \/ EndOf(x) \in G)
ReservedTame(E, G, n, x, msg) == msg.descs # << >> => Own(E, n, msg) /\ EndOf(x) \in G

CallsTame(E, K, G) ==
    \A n \in Nodes : \A t \in AllThreads : \A i \in DOMAIN K[n][t].msgs :
        CallTame(E, G, n, K[n][t].msgs[i])
WiresTame(W, G) == \A m, n \in Nodes : \A i \in DOMAIN W[m][n] : WireTame(G, W[m][n][i])
QueuesTame(E, R, G) ==
    \A n \in Nodes : \A x \in DOMAIN E[n] : \A i \in DOMAIN E[n][x].queue :
        QueueTame(E, R, G, n, x, E[n][x].queue[i])
AllReservedTame(E, P, G) ==
    \A n \in Nodes : \A k \in DOMAIN P[n] : \A i \in DOMAIN E[n][P[n][k]].queue :
        ReservedTame(E, G, n, P[n][k], E[n][P[n][k]].queue[i])
AllTame(E, K, W, P, R, G) ==
    CallsTame(E, K, G) /\ WiresTame(W, G) /\ QueuesTame(E, R, G) /\ AllReservedTame(E, P, G)

\* What is pinned and was not made here has been moved before.
PinsMoved(E, K, M) ==
    \A n \in Nodes : \A x \in DOMAIN E[n] : Pinned(E, K, n, x) /\ x[3] # 0 => M[x[1]] > 1

Tame ==
    /\ AllTame(endpoints, call, wire, pending, carriers,
               Guarded(endpoints, call, carriers, moves))
    /\ PinsMoved(endpoints, call, moves)

\* A handle in a message that waits is here and may be moved, or elsewhere.
LEMMA WaitingReady ==
    ASSUME NEW E, NEW P, NEW K, QueuesReady(E, P), CallsReady(E, P, K),
           NEW n \in Nodes, NEW descs, IsWaiting(E, K, n, descs), NEW d \in ToSet(descs)
    PROVE  Available(E, P, n, d.name) \/ \E m \in Nodes \ {n} : d.name \in DOMAIN E[m]
<1>1. PICK msg : msg.descs = descs /\ CallReady(E, P, n, msg)
  <2>1. ASSUME NEW x \in DOMAIN E[n], NEW i \in DOMAIN E[n][x].queue, E[n][x].queue[i].descs = descs
        PROVE  CallReady(E, P, n, E[n][x].queue[i])
    BY <2>1 DEF QueuesReady, QueueReady
  <2>2. ASSUME NEW t \in AllThreads, NEW i \in DOMAIN K[n][t].msgs, K[n][t].msgs[i].descs = descs
        PROVE  CallReady(E, P, n, K[n][t].msgs[i])
    BY <2>2 DEF CallsReady
  <2> QED BY <2>1, <2>2 DEF IsWaiting
<1> QED BY <1>1 DEF CallReady, Fresh, Stale

\* So what is pinned is available.
LEMMA PinnedAvailable ==
    ASSUME NEW E, NEW P, NEW K, QueuesReady(E, P), CallsReady(E, P, K), NamesApart(E),
           NEW n \in Nodes, NEW x, Pinned(E, K, n, x)
    PROVE  Available(E, P, n, x)
<1>1. PICK descs : IsWaiting(E, K, n, descs) /\ \E d \in ToSet(descs) : d.name = x
  BY DEF Pinned
<1>2. PICK d \in ToSet(descs) : d.name = x
  BY <1>1
<1>3. Available(E, P, n, x) \/ \E m \in Nodes \ {n} : x \in DOMAIN E[m]
  BY <1>1, <1>2, WaitingReady
<1> QED BY <1>3 DEF Pinned, NamesApart

\* In a step only the names in X may come to be pinned.
FewPins(E, K, E2, K2, X) ==
    \A n \in Nodes : \A descs : IsWaiting(E2, K2, n, descs) =>
        \/ IsWaiting(E, K, n, descs)
        \/ \A d \in ToSet(descs) : d.name \in X \/ d.name \notin DOMAIN E2[n]
LEMMA PinsFew ==
    ASSUME NEW E, NEW P, NEW K, QueuesReady(E, P), CallsReady(E, P, K),
           NEW E2, NEW K2, NEW X, FewPins(E, K, E2, K2, X), NamesApart(E2),
           \A n \in Nodes : DOMAIN E[n] \subseteq DOMAIN E2[n],
           NEW n \in Nodes, NEW x, Pinned(E2, K2, n, x)
    PROVE  Pinned(E, K, n, x) \/ x \in X
<1>1. PICK descs : IsWaiting(E2, K2, n, descs) /\ \E d \in ToSet(descs) : d.name = x
  BY DEF Pinned
<1>2. x \in DOMAIN E2[n]
  BY DEF Pinned
<1>3. PICK d \in ToSet(descs) : d.name = x
  BY <1>1
<1>4. CASE IsWaiting(E, K, n, descs)
  <2>1. Available(E, P, n, x) \/ \E m \in Nodes \ {n} : x \in DOMAIN E[m]
    BY <1>3, <1>4, WaitingReady
  <2>2. \A m \in Nodes \ {n} : x \notin DOMAIN E[m]
    BY <1>2 DEF NamesApart
  <2> QED BY <1>3, <1>4, <2>1, <2>2 DEF Pinned, Available
<1>5. CASE \A c \in ToSet(descs) : c.name \in X \/ c.name \notin DOMAIN E2[n]
  BY <1>2, <1>3, <1>5
<1> QED BY <1>1, <1>4, <1>5 DEF FewPins

\* What is guarded stays guarded, if nothing is pinned of a pipe that carries
\* handles and has been moved.
CarryAndMove(R, M, R2, M2) ==
    /\ R \subseteq R2
    /\ \A p \in 1..MaxPipes : M[p] \in Nat /\ M2[p] \in Nat /\ M[p] <= M2[p]
MayPin(X, R, M, M2) ==
    \A x \in X : (x[1] \notin R \/ M[x[1]] = 0) /\ (x[3] # 0 => M2[x[1]] > 1)
LEMMA PinsStay ==
    ASSUME NEW E, NEW P, NEW K, QueuesReady(E, P), CallsReady(E, P, K),
           NEW E2, NEW K2, NEW X, FewPins(E, K, E2, K2, X), NamesApart(E2),
           \A n \in Nodes : DOMAIN E[n] \subseteq DOMAIN E2[n],
           NEW R, NEW R2, NEW M, NEW M2, CarryAndMove(R, M, R2, M2), MayPin(X, R, M, M2),
           \A n \in Nodes : DOMAIN E2[n] \subseteq Names, PinsMoved(E, K, M)
    PROVE  /\ Guarded(E, K, R, M) \subseteq Guarded(E2, K2, R2, M2)
           /\ PinsMoved(E2, K2, M2)
<1>0. /\ R \subseteq R2
      /\ \A p \in 1..MaxPipes : M[p] \in Nat /\ M2[p] \in Nat /\ M[p] <= M2[p]
      /\ \A x \in X : (x[1] \notin R \/ M[x[1]] = 0) /\ (x[3] # 0 => M2[x[1]] > 1)
  BY DEF CarryAndMove, MayPin
<1>1. ASSUME NEW n \in Nodes, NEW x, Pinned(E2, K2, n, x) PROVE Pinned(E, K, n, x) \/ x \in X
  BY <1>1, PinsFew
<1>2. ASSUME NEW e \in Guarded(E, K, R, M) PROVE e \in Guarded(E2, K2, R2, M2)
  <2>1. e \in Ends /\ e[1] \in R /\ M[e[1]] # 0 /\ Still(E, K, e)
    BY DEF Guarded
  <2>2. e[1] \in 1..MaxPipes
    BY <2>1 DEF Ends
  <2>3. M2[e[1]] # 0
    BY <1>0, <2>1, <2>2
  <2>4. ASSUME NEW n \in Nodes, NEW x \in DOMAIN E2[n], EndOf(x) = e, Pinned(E2, K2, n, x)
        PROVE  FALSE
    <3>1. x[1] = e[1]
      BY <2>4 DEF EndOf
    <3>2. x \notin X
      BY <1>0, <2>1, <3>1
    <3>3. Pinned(E, K, n, x) /\ x \in DOMAIN E[n]
      BY <1>1, <2>4, <3>2 DEF Pinned
    <3> QED BY <2>1, <2>4, <3>3 DEF Still
  <2> QED BY <1>0, <2>1, <2>3, <2>4 DEF Guarded, Still
<1>3. ASSUME NEW n \in Nodes, NEW x \in DOMAIN E2[n], Pinned(E2, K2, n, x), x[3] # 0
      PROVE  M2[x[1]] > 1
  <2>1. CASE x \in X
    BY <1>0, <1>3, <2>1
  <2>2. CASE Pinned(E, K, n, x)
    <3>1. M[x[1]] > 1
      BY <1>3, <2>2 DEF PinsMoved, Pinned
    <3>2. x \in Names
      OBVIOUS
    <3>3. x[1] \in 1..MaxPipes
      BY <3>2 DEF Names
    <3>4. M[x[1]] \in Nat /\ M2[x[1]] \in Nat /\ M[x[1]] <= M2[x[1]]
      BY <1>0, <3>3
    <3> QED BY <3>1, <3>4
  <2> QED BY <1>1, <1>3, <2>1, <2>2
<1> QED BY <1>2, <1>3 DEF PinsMoved

\* A message that is somewhere after a step was there before, or is as tame as
\* it has to be.
CallsCome(E2, G2, K, K2) ==
    \A n \in Nodes : \A t \in AllThreads : \A i \in DOMAIN K2[n][t].msgs :
        \/ CallTame(E2, G2, n, K2[n][t].msgs[i])
        \/ \E j \in DOMAIN K[n][t].msgs : K2[n][t].msgs[i] = K[n][t].msgs[j]
WiresCome(G2, W, W2) ==
    \A m, n \in Nodes : \A i \in DOMAIN W2[m][n] :
        WireTame(G2, W2[m][n][i]) \/ \E j \in DOMAIN W[m][n] : W2[m][n][i] = W[m][n][j]
QueuesCome(E, E2, R2, G2) ==
    \A n \in Nodes : \A x \in DOMAIN E2[n] : \A i \in DOMAIN E2[n][x].queue :
        \/ QueueTame(E2, R2, G2, n, x, E2[n][x].queue[i])
        \/ x \in DOMAIN E[n] /\ \E j \in DOMAIN E[n][x].queue : E2[n][x].queue[i] = E[n][x].queue[j]
ReservedCome(E, P, E2, P2, G2) ==
    \A n \in Nodes : \A k \in DOMAIN P2[n] : \A i \in DOMAIN E2[n][P2[n][k]].queue :
        \/ ReservedTame(E2, G2, n, P2[n][k], E2[n][P2[n][k]].queue[i])
        \/ \E l \in DOMAIN P[n] : /\ P[n][l] = P2[n][k]
                                  /\ \E j \in DOMAIN E[n][P[n][l]].queue :
                                        E2[n][P2[n][k]].queue[i] = E[n][P[n][l]].queue[j]

LEMMA TameStays ==
    ASSUME NEW E, NEW K, NEW W, NEW P, NEW R, NEW G, AllTame(E, K, W, P, R, G),
           NEW E2, NEW K2, NEW W2, NEW P2, NEW R2, NEW G2, R \subseteq R2, G \subseteq G2,
           \A n \in Nodes : DOMAIN E[n] \subseteq DOMAIN E2[n],
           CallsCome(E2, G2, K, K2), WiresCome(G2, W, W2), QueuesCome(E, E2, R2, G2),
           ReservedCome(E, P, E2, P2, G2)
    PROVE  AllTame(E2, K2, W2, P2, R2, G2)
<1>1. \A n \in Nodes : \A msg : Own(E, n, msg) => Own(E2, n, msg)
  BY DEF Own
<1>2. CallsTame(E2, K2, G2)
  <2> SUFFICES ASSUME NEW n \in Nodes, NEW t \in AllThreads, NEW i \in DOMAIN K2[n][t].msgs,
                      NEW j \in DOMAIN K[n][t].msgs, K2[n][t].msgs[i] = K[n][t].msgs[j]
               PROVE  CallTame(E2, G2, n, K2[n][t].msgs[i])
    BY DEF CallsTame, CallsCome
  <2>1. CallTame(E, G, n, K[n][t].msgs[j])
    BY DEF AllTame, CallsTame
  <2> QED BY <1>1, <2>1 DEF CallTame
<1>3. WiresTame(W2, G2)
  <2> SUFFICES ASSUME NEW m \in Nodes, NEW n \in Nodes, NEW i \in DOMAIN W2[m][n],
                      NEW j \in DOMAIN W[m][n], W2[m][n][i] = W[m][n][j]
               PROVE  WireTame(G2, W2[m][n][i])
    BY DEF WiresTame, WiresCome
  <2>1. WireTame(G, W[m][n][j])
    BY DEF AllTame, WiresTame
  <2> QED BY <2>1 DEF WireTame
<1>4. QueuesTame(E2, R2, G2)
  <2> SUFFICES ASSUME NEW n \in Nodes, NEW x \in DOMAIN E2[n], NEW i \in DOMAIN E2[n][x].queue,
                      x \in DOMAIN E[n], NEW j \in DOMAIN E[n][x].queue,
                      E2[n][x].queue[i] = E[n][x].queue[j]
               PROVE  QueueTame(E2, R2, G2, n, x, E2[n][x].queue[i])
    BY DEF QueuesTame, QueuesCome
  <2>1. QueueTame(E, R, G, n, x, E[n][x].queue[j])
    BY DEF AllTame, QueuesTame
  <2> QED BY <1>1, <2>1 DEF QueueTame
<1>5. AllReservedTame(E2, P2, G2)
  <2> SUFFICES ASSUME NEW n \in Nodes, NEW k \in DOMAIN P2[n], NEW i \in DOMAIN E2[n][P2[n][k]].queue,
                      NEW l \in DOMAIN P[n], P[n][l] = P2[n][k],
                      NEW j \in DOMAIN E[n][P[n][l]].queue,
                      E2[n][P2[n][k]].queue[i] = E[n][P[n][l]].queue[j]
               PROVE  ReservedTame(E2, G2, n, P2[n][k], E2[n][P2[n][k]].queue[i])
    BY DEF AllReservedTame, ReservedCome
  <2>1. ReservedTame(E, G, n, P[n][l], E[n][P[n][l]].queue[j])
    BY DEF AllTame, AllReservedTame
  <2> QED BY <1>1, <2>1 DEF ReservedTame
<1> QED BY <1>2, <1>3, <1>4, <1>5 DEF AllTame

\* Most steps leave what is queued where it is, or take it away.
QueuesRemain(E, E2) ==
    \A n \in Nodes : \A x \in DOMAIN E2[n] : \A i \in DOMAIN E2[n][x].queue :
        x \in DOMAIN E[n] /\ \E j \in DOMAIN E[n][x].queue : E2[n][x].queue[i] = E[n][x].queue[j]
PendingRemains(E2, P, P2) ==
    \A n \in Nodes : \A k \in DOMAIN P2[n] :
        P2[n][k] \in DOMAIN E2[n] /\ (E2[n][P2[n][k]].queue = << >> \/ \E l \in DOMAIN P[n] : P[n][l] = P2[n][k])
CallsRemain(K, K2) ==
    \A n \in Nodes : \A t \in AllThreads : \A i \in DOMAIN K2[n][t].msgs :
        \E j \in DOMAIN K[n][t].msgs : K2[n][t].msgs[i] = K[n][t].msgs[j]

LEMMA RemainingCome ==
    ASSUME NEW E, NEW E2, QueuesRemain(E, E2), NEW R2, NEW G2
    PROVE  /\ QueuesCome(E, E2, R2, G2)
           /\ \A P, P2 : PendingRemains(E2, P, P2) => ReservedCome(E, P, E2, P2, G2)
           /\ \A K, K2 : CallsRemain(K, K2) => CallsCome(E2, G2, K, K2) /\ FewPins(E, K, E2, K2, {})
<1>1. QueuesCome(E, E2, R2, G2)
  BY DEF QueuesCome, QueuesRemain
<1>2. ASSUME NEW P, NEW P2, PendingRemains(E2, P, P2)
      PROVE  ReservedCome(E, P, E2, P2, G2)
  <2> SUFFICES ASSUME NEW n \in Nodes, NEW k \in DOMAIN P2[n], NEW i \in DOMAIN E2[n][P2[n][k]].queue
               PROVE  \E l \in DOMAIN P[n] :
                         /\ P[n][l] = P2[n][k]
                         /\ \E j \in DOMAIN E[n][P[n][l]].queue :
                               E2[n][P2[n][k]].queue[i] = E[n][P[n][l]].queue[j]
    BY DEF ReservedCome
  <2>0. E2[n][P2[n][k]].queue # << >> /\ P2[n][k] \in DOMAIN E2[n]
    BY <1>2 DEF PendingRemains
  <2>1. PICK l \in DOMAIN P[n] : P[n][l] = P2[n][k]
    BY <1>2, <2>0 DEF PendingRemains
  <2>2. \E j \in DOMAIN E[n][P2[n][k]].queue : E2[n][P2[n][k]].queue[i] = E[n][P2[n][k]].queue[j]
    BY <2>0 DEF QueuesRemain
  <2> QED BY <2>1, <2>2
<1>3. ASSUME NEW K, NEW K2, CallsRemain(K, K2)
      PROVE  CallsCome(E2, G2, K, K2) /\ FewPins(E, K, E2, K2, {})
  <2>1. CallsCome(E2, G2, K, K2)
    BY <1>3 DEF CallsCome, CallsRemain
  <2>2. ASSUME NEW n \in Nodes, NEW descs, IsWaiting(E2, K2, n, descs)
        PROVE  IsWaiting(E, K, n, descs)
    <3>1. ASSUME NEW x \in DOMAIN E2[n], NEW i \in DOMAIN E2[n][x].queue,
                 E2[n][x].queue[i].descs = descs
          PROVE  IsWaiting(E, K, n, descs)
      BY <3>1 DEF IsWaiting, QueuesRemain
    <3>2. ASSUME NEW t \in AllThreads, NEW i \in DOMAIN K2[n][t].msgs, K2[n][t].msgs[i].descs = descs
          PROVE  IsWaiting(E, K, n, descs)
      BY <1>3, <3>2 DEF IsWaiting, CallsRemain
    <3> QED BY <2>2, <3>1, <3>2 DEF IsWaiting
  <2> QED BY <2>1, <2>2 DEF FewPins
<1> QED BY <1>1, <1>2, <1>3

\* In a step of the network, what is guarded stays guarded.
Grown == \A n \in Nodes : DOMAIN endpoints[n] \subseteq DOMAIN endpoints'[n]
CarryMore ==
    /\ carriers \subseteq carriers'
    /\ \A p \in 1..MaxPipes : moves[p] <= moves'[p]
GuardedNow == Guarded(endpoints, call, carriers, moves)
LEMMA GuardsStay ==
    ASSUME IndInv, PlaceInv, IndInv', PlaceInv', Tame, Grown, CarryMore,
           NEW X, FewPins(endpoints, call, endpoints', call', X),
           MayPin(X, carriers, moves, moves')
    PROVE  GuardedNow \subseteq GuardedNow' /\ PinsMoved(endpoints', call', moves')
<1> DEFINE E2 == endpoints'
           K2 == call'
           R2 == carriers'
           M2 == moves'
<1>1. NamesApart(E2) /\ \A n \in Nodes : DOMAIN E2[n] \subseteq Names
  BY DEF PlaceInv, IndInv, EndpointsSound, Given
<1>2. CarryAndMove(carriers, moves, R2, M2)
  BY DEF IndInv, CountersSound, CarryMore, CarryAndMove
<1>3. \A n \in Nodes : DOMAIN endpoints[n] \subseteq DOMAIN E2[n]
  BY DEF Grown
<1>4. QueuesReady(endpoints, pending) /\ CallsReady(endpoints, pending, call)
  BY DEF PlaceInv
<1>5. PinsMoved(endpoints, call, moves)
  BY DEF Tame
<1> HIDE DEF E2, K2, R2, M2
<1>6. FewPins(endpoints, call, E2, K2, X)
  BY DEF E2, K2
<1>7. MayPin(X, carriers, moves, M2)
  BY DEF M2
<1>8. /\ Guarded(endpoints, call, carriers, moves) \subseteq Guarded(E2, K2, R2, M2)
      /\ PinsMoved(E2, K2, M2)
  BY <1>1, <1>2, <1>3, <1>4, <1>5, <1>6, <1>7, PinsStay
<1> QED BY <1>8 DEF GuardedNow, E2, K2, R2, M2

\* A step that queues nothing, and writes nothing but what may be written.
LEMMA QuietStep ==
    ASSUME IndInv, PlaceInv, IndInv', PlaceInv', Tame, Grown, CarryMore,
           QueuesRemain(endpoints, endpoints'), CallsRemain(call, call'),
           PendingRemains(endpoints', pending, pending'),
           WiresCome(GuardedNow, wire, wire')
    PROVE  Tame'
<1> DEFINE E2 == endpoints'
           K2 == call'
           P2 == pending'
           W2 == wire'
           R2 == carriers'
           G2 == GuardedNow'
<1>1. QueuesRemain(endpoints, E2) /\ CallsRemain(call, K2) /\ PendingRemains(E2, pending, P2)
  OBVIOUS
<1>2. FewPins(endpoints, call, E2, K2, {})
  <2> HIDE DEF E2, K2, P2
  <2> QED BY <1>1, RemainingCome
<1>3. GuardedNow \subseteq G2 /\ PinsMoved(endpoints', call', moves')
  <2>1. MayPin({}, carriers, moves, moves')
    BY DEF MayPin
  <2> QED BY <1>2, <2>1, GuardsStay
<1>4. carriers \subseteq R2 /\ \A n \in Nodes : DOMAIN endpoints[n] \subseteq DOMAIN E2[n]
  BY DEF CarryMore, Grown
<1>5. AllTame(endpoints, call, wire, pending, carriers, GuardedNow)
  BY DEF Tame, GuardedNow
<1>6. WiresCome(GuardedNow, wire, W2)
  OBVIOUS
<1> HIDE DEF E2, K2, P2, W2, R2, G2
<1>7. WiresCome(G2, wire, W2)
  BY <1>3, <1>6 DEF WiresCome, WireTame
<1>8. /\ QueuesCome(endpoints, E2, R2, G2) /\ ReservedCome(endpoints, pending, E2, P2, G2)
      /\ CallsCome(E2, G2, call, K2)
  BY <1>1, RemainingCome
<1>9. AllTame(E2, K2, W2, P2, R2, G2)
  BY <1>3, <1>4, <1>5, <1>7, <1>8, TameStays
<1> QED BY <1>3, <1>9 DEF Tame, GuardedNow, E2, K2, P2, W2, R2, G2

-----------------------------------------------------------------------------
(* How often the ends of a pipe have been named.  N is the number of names,  *)
(* M the number of times an end of a pipe was moved.                         *)

\* The endpoints made here have their peers here.
BornTogether(E) ==
    \A n \in Nodes : \A x \in DOMAIN E[n] :
        x[3] = 0 => E[n][x].peer.node = n /\ E[n][x].peer.ep[3] = 0

\* No end of a pipe that has not moved has a second name; one move names one.
MovesNamed(N, M) ==
    \A e \in Ends : /\ M[e[1]] = 0 => N[e] <= 1
                    /\ M[e[1]] = 1 => N[e] <= 1 \/ N[Partner(e)] <= 1

\* The pipe of a reserved endpoint has moved once with it.
ReservedNamed(P, N, M) ==
    \A n \in Nodes : \A k \in DOMAIN P[n] :
        /\ P[n][k] \in Names /\ P[n][k][2] = 2
        /\ M[P[n][k][1]] # 0
        /\ M[P[n][k][1]] = 1 => N[Partner(EndOf(P[n][k]))] <= 1

NotMadeNotMoved(M, p) == \A q \in 1..MaxPipes : q > p => M[q] = 0

\* A node that is known by its name is not known by the temporary one.
OneKey(C) == \A m, n \in Nodes : Temporary(m) \in DOMAIN C[n] => m \notin DOMAIN C[n]

Naming ==
    /\ BornTogether(endpoints) /\ MovesNamed(names, moves)
    /\ ReservedNamed(pending, names, moves) /\ NotMadeNotMoved(moves, pipes)
    /\ OneKey(channels)

Renamed(N, M, N2, M2, e) ==
    \/ N2[e] <= 1
    \/ M2[e[1]] = M[e[1]] /\ (N2[e] <= N[e] \/ N[e] > 1)
    \/ /\ M2[e[1]] # 0
       /\ M2[e[1]] = 1 => N2[Partner(e)] <= 1
       /\ M2[e[1]] > M[e[1]] \/ e[2] = 2
NamesStep(N, M, N2, M2) ==
    /\ N \in [Ends -> Nat] /\ N2 \in [Ends -> Nat]
    /\ M \in [1..MaxPipes -> Nat] /\ M2 \in [1..MaxPipes -> Nat]
    /\ \A p \in 1..MaxPipes : M[p] <= M2[p]
    /\ \A e \in Ends : Renamed(N, M, N2, M2, e)
LEMMA NamesStay ==
    ASSUME NEW N, NEW M, NEW N2, NEW M2, NamesStep(N, M, N2, M2), MovesNamed(N, M)
    PROVE  /\ MovesNamed(N2, M2)
           /\ \A P : ReservedNamed(P, N, M) => ReservedNamed(P, N2, M2)
<1>1. \A e \in Ends : /\ Partner(e) \in Ends /\ Partner(e)[1] = e[1] /\ Partner(Partner(e)) = e
                      /\ e[1] \in 1..MaxPipes /\ (e[2] = 2 => Partner(e)[2] = 1)
  BY EndsFit DEF Ends, Partner
<1>2. /\ \A e \in Ends : N[e] \in Nat /\ N2[e] \in Nat /\ Renamed(N, M, N2, M2, e)
      /\ \A p \in 1..MaxPipes : M[p] \in Nat /\ M2[p] \in Nat /\ M[p] <= M2[p]
  BY DEF NamesStep
<1>3. ASSUME NEW e \in Ends
      PROVE  /\ M2[e[1]] = 0 => N2[e] <= 1
             /\ M2[e[1]] = 1 => N2[e] <= 1 \/ N2[Partner(e)] <= 1
  <2> DEFINE f == Partner(e)
             p == e[1]
  <2>1. f \in Ends /\ f[1] = p /\ Partner(f) = e /\ p \in 1..MaxPipes
    BY <1>1
  <2>2. /\ M[p] = 0 => N[e] <= 1 /\ N[f] <= 1
        /\ M[p] = 1 => N[e] <= 1 \/ N[f] <= 1
    BY <2>1 DEF MovesNamed
  <2>3. /\ N[e] \in Nat /\ N2[e] \in Nat /\ N[f] \in Nat /\ N2[f] \in Nat
        /\ M[p] \in Nat /\ M2[p] \in Nat
    BY <1>2, <2>1
  <2>4. /\ \/ N2[e] <= 1
           \/ M2[p] = M[p] /\ (N2[e] <= N[e] \/ N[e] > 1)
           \/ M2[p] # 0 /\ (M2[p] = 1 => N2[f] <= 1)
        /\ \/ N2[f] <= 1
           \/ M2[p] = M[p] /\ (N2[f] <= N[f] \/ N[f] > 1)
           \/ M2[p] # 0 /\ (M2[p] = 1 => N2[e] <= 1)
    BY <1>2, <2>1 DEF Renamed
  <2> HIDE DEF f, p
  <2>5. /\ M2[p] = 0 => N2[e] <= 1
        /\ M2[p] = 1 => N2[e] <= 1 \/ N2[f] <= 1
    BY <2>2, <2>3, <2>4
  <2> QED BY <2>5 DEF f, p
<1>4. ASSUME NEW P, ReservedNamed(P, N, M), NEW n \in Nodes, NEW k \in DOMAIN P[n]
      PROVE  /\ P[n][k] \in Names /\ P[n][k][2] = 2
             /\ M2[P[n][k][1]] # 0
             /\ M2[P[n][k][1]] = 1 => N2[Partner(EndOf(P[n][k]))] <= 1
  <2> DEFINE x == P[n][k]
             e == EndOf(x)
             f == Partner(e)
             p == x[1]
  <2>1. x \in Names /\ x[2] = 2 /\ M[p] # 0 /\ (M[p] = 1 => N[f] <= 1)
    BY <1>4 DEF ReservedNamed
  <2>2. e \in Ends /\ e[1] = p /\ e[2] = 2
    BY <2>1 DEF EndOf, Names, Ends
  <2>3. f \in Ends /\ f[1] = p /\ f[2] = 1 /\ p \in 1..MaxPipes
    BY <1>1, <2>2
  <2>4. /\ N[f] \in Nat /\ N2[f] \in Nat /\ M[p] \in Nat /\ M2[p] \in Nat /\ M[p] <= M2[p]
        /\ \/ N2[f] <= 1
           \/ M2[p] = M[p] /\ (N2[f] <= N[f] \/ N[f] > 1)
           \/ M2[p] > M[p]
    BY <1>2, <2>3 DEF Renamed
  <2> HIDE DEF p, f, e
  <2>5. M2[p] # 0 /\ (M2[p] = 1 => N2[f] <= 1)
    BY <2>1, <2>4
  <2> QED BY <2>1, <2>5 DEF p, f, e
<1> QED BY <1>3, <1>4 DEF MovesNamed, ReservedNamed

\* A new pipe's ends have one name each.
LEMMA NewPipeNames ==
    ASSUME IndInv, Naming, NEW n \in Nodes, CreatePipe(n),
           moves' = moves \/ moves' = [moves EXCEPT ![pipes'] = 1]
    PROVE  NamesStep(names, moves, names', moves') /\ NotMadeNotMoved(moves', pipes')
<1> DEFINE p == pipes + 1
           N2 == names'
           M2 == moves'
<1>1. /\ pipes \in Nat /\ p \in 1..MaxPipes /\ pipes' = p /\ MaxPipes \in Nat
      /\ moves \in [1..MaxPipes -> Nat] /\ names \in [Ends -> Nat]
  BY BoundsAssumption DEF CreatePipe, IndInv, CountersSound, NamesSound
<1>2. N2 = [names EXCEPT ![<<p, 1>>] = 1, ![<<p, 2>>] = 1]
  BY DEF CreatePipe
<1>3. M2 = moves \/ M2 = [moves EXCEPT ![p] = 1]
  BY <1>1
<1>4. \A q \in 1..MaxPipes : q > pipes => moves[q] = 0
  BY DEF Naming, NotMadeNotMoved
<1> HIDE DEF M2, N2
<1>5. N2 \in [Ends -> Nat] /\ M2 \in [1..MaxPipes -> Nat]
  <2>1. N2 \in [Ends -> Nat]
    BY <1>1, <1>2
  <2>2. M2 \in [1..MaxPipes -> Nat]
    BY <1>1, <1>3
  <2> QED BY <2>1, <2>2
<1>6. moves[p] = 0
  BY <1>1, <1>4
<1>7. /\ \A q \in 1..MaxPipes : moves[q] <= M2[q]
      /\ \A q \in 1..MaxPipes : q > p => M2[q] = 0
  BY <1>1, <1>3, <1>4, <1>6
<1>8. ASSUME NEW e \in Ends PROVE Renamed(names, moves, N2, M2, e)
  <2>1. CASE e[1] = p
    <3>1. e = <<p, 1>> \/ e = <<p, 2>>
      BY <2>1 DEF Ends
    <3>2. /\ <<p, 1>> \in Ends /\ <<p, 2>> \in Ends /\ <<p, 1>> # <<p, 2>>
          /\ DOMAIN names = Ends
      BY <1>1 DEF Ends
    <3>3. N2[<<p, 1>>] = 1 /\ N2[<<p, 2>>] = 1
      <4> HIDE DEF p
      <4> QED BY <1>2, <3>2
    <3>4. N2[e] <= 1
      BY <3>1, <3>3
    <3> QED BY <3>4 DEF Renamed
  <2>2. CASE e[1] # p
    <3>1. N2[e] = names[e] /\ M2[e[1]] = moves[e[1]] /\ names[e] \in Nat
      BY <1>1, <1>2, <1>3, <2>2 DEF Ends
    <3> QED BY <3>1 DEF Renamed
  <2> QED BY <2>1, <2>2
<1>9. NamesStep(names, moves, N2, M2) /\ NotMadeNotMoved(M2, p)
  BY <1>1, <1>5, <1>7, <1>8 DEF NamesStep, NotMadeNotMoved
<1> QED BY <1>1, <1>9 DEF N2, M2

\* The invitee names the end that was reserved for it.
LEMMA InvitedNames ==
    ASSUME IndInv, PlaceInv, Naming, IndInv', NEW n \in Nodes, NEW m \in Nodes, OnReceivedInvitation(n, m)
    PROVE  NamesStep(names, moves, names', moves') /\ NotMadeNotMoved(moves', pipes')
<1> DEFINE msg == Head(wire[m][n])
           end == Partner(EndOf(msg.peer))
           N2 == names'
<1>1. /\ names' = [names EXCEPT ![end] = @ + 1]
      /\ moves' = moves /\ pipes' = pipes /\ Receives(n, m, "INVITE")
  BY DEF OnReceivedInvitation, appVars
<1>2. wire[m][n] # << >> /\ msg.type = "INVITE"
      /\ msg \in Traffic(endpoints, names, channels, pending, m, n)
  BY <1>1, ReceivedFacts
<1>3. wire[m][n] \in Seq(Traffic(endpoints, names, channels, pending, m, n))
  BY WireIsSeq DEF IndInv
<1>4. 1 \in DOMAIN wire[m][n] /\ wire[m][n][1] = msg
  BY <1>2, <1>3
<1>5. /\ moves \in [1..MaxPipes -> Nat] /\ names \in [Ends -> Nat] /\ N2 \in [Ends -> Nat]
      /\ MovesNamed(names, moves) /\ ReservedNamed(pending, names, moves)
      /\ NotMadeNotMoved(moves, pipes)
  BY DEF IndInv, CountersSound, NamesSound, Naming
<1> HIDE DEF msg, N2
<1>6. /\ msg.temporary = Temporary(n) /\ PendingFor(pending, m, n, end)
      /\ msg.peer \in DOMAIN endpoints[m]
  BY <1>2 DEF Traffic, RoutedMail, Mail, Invites, Accepts
<1>7. Temporary(n) \in DOMAIN pending[m]
  BY <1>2, <1>4, <1>6 DEF PlaceInv, InvitesPending
<1> DEFINE x == pending[m][Temporary(n)]
<1>8. EndOf(x) = end
  BY <1>6, <1>7 DEF PendingFor
<1>9. x \in Names /\ x[2] = 2 /\ moves[x[1]] # 0 /\ (moves[x[1]] = 1 => names[Partner(EndOf(x))] <= 1)
  BY <1>5, <1>7 DEF ReservedNamed
<1> HIDE DEF x, end
<1>10. /\ end \in Ends /\ end[2] = 2 /\ moves[end[1]] # 0
       /\ moves[end[1]] = 1 => names[Partner(end)] <= 1
  BY <1>8, <1>9 DEF EndOf, Names, Ends
<1>11. N2 = [names EXCEPT ![end] = @ + 1] /\ Partner(end) # end
  BY <1>1, <1>10 DEF N2, end, msg, Partner, Ends
<1>12. ASSUME NEW e \in Ends PROVE Renamed(names, moves, N2, moves, e)
  <2>1. CASE e = end
    <3>1. N2[Partner(e)] = names[Partner(e)]
      BY <1>5, <1>10, <1>11, <2>1, EndsFit
    <3> QED BY <1>10, <2>1, <3>1 DEF Renamed
  <2>2. CASE e # end
    <3>1. N2[e] = names[e] /\ names[e] \in Nat
      BY <1>5, <1>11, <2>2
    <3> QED BY <3>1 DEF Renamed
  <2> QED BY <2>1, <2>2
<1>13. NamesStep(names, moves, N2, moves)
  BY <1>5, <1>12 DEF NamesStep
<1> QED BY <1>1, <1>5, <1>13 DEF N2

\* What is forwarded has been moved before.
LEMMA ForwardedNames ==
    ASSUME IndInv, PlaceInv, Naming, IndInv', NEW n \in Nodes, NEW m \in Nodes, ForwardUserMessage(n, m)
    PROVE  NamesStep(names, moves, names', moves') /\ NotMadeNotMoved(moves', pipes')
<1> DEFINE msg == Head(wire[m][n])
           descs == [i \in DOMAIN msg.descs |-> Inchworm(msg.descs[i])]
           N2 == names'
<1>1. /\ names' = [e \in Ends |-> IF \E d \in ToSet(descs) : EndOf(d.name) = e
                                  THEN names[e] + 1 ELSE names[e]]
      /\ moves' = moves /\ pipes' = pipes /\ ReceivesUserMessage(n, m)
  BY ZenonT(30) DEF ForwardUserMessage, appVars
<1>2. ToSet(msg.descs) \subseteq Carried(endpoints, names)
  BY <1>1, ReceivedUserFacts
<1>3. /\ moves \in [1..MaxPipes -> Nat] /\ names \in [Ends -> Nat] /\ N2 \in [Ends -> Nat]
      /\ NotMadeNotMoved(moves, pipes)
  BY DEF IndInv, CountersSound, NamesSound, Naming
<1> HIDE DEF msg, N2
<1>4. ASSUME NEW d \in ToSet(descs) PROVE names[EndOf(d.name)] > 1
  <2>1. PICK i \in DOMAIN msg.descs : d = Inchworm(msg.descs[i])
    BY DEF ToSet
  <2> DEFINE c == msg.descs[i]
  <2>2. c \in Carried(endpoints, names)
    BY <1>2, <2>1 DEF ToSet
  <2> HIDE DEF c
  <2>3. /\ d.name = c.cross /\ c.cross \in Given(names) /\ c.name \in Names /\ c.name[3] < c.cross[3]
    BY <2>1, <2>2 DEF Inchworm, Carried, c
  <2>4. c.cross \in Names /\ c.cross[3] < names[EndOf(c.cross)] /\ EndOf(c.cross) \in Ends
    BY <2>3, EndsFit DEF Given
  <2>5. c.cross[3] \in Nat /\ c.name[3] \in Nat /\ names[EndOf(c.cross)] \in Nat
    BY <1>3, <2>3, <2>4 DEF Names
  <2> QED BY <2>3, <2>4, <2>5
<1>5. ASSUME NEW e \in Ends PROVE Renamed(names, moves, N2, moves, e)
  <2>1. CASE \E d \in ToSet(descs) : EndOf(d.name) = e
    <3>1. names[e] > 1
      BY <1>4, <2>1
    <3> QED BY <3>1 DEF Renamed
  <2>2. CASE ~\E d \in ToSet(descs) : EndOf(d.name) = e
    <3>1. N2[e] = names[e] /\ names[e] \in Nat
      BY <1>1, <1>3, <2>2 DEF N2, msg
    <3> QED BY <3>1 DEF Renamed
  <2> QED BY <2>1, <2>2
<1>6. NamesStep(names, moves, N2, moves)
  BY <1>3, <1>5 DEF NamesStep
<1> QED BY <1>1, <1>3, <1>6 DEF N2

\* What can be sent over a handle.
LEMMA HandlesSent ==
    ASSUME IndInv, PlaceInv, NEW n \in Nodes, NEW t, NEW c \in held[n], NEW hs \in HandleLists(n, c),
           Sends(n, t, c, hs)
    PROVE  /\ IsFiniteSet(ToSet(hs))
           /\ \A x \in ToSet(hs) :
                 /\ x \in held[n] /\ x \in Names /\ x[1] # c[1]
                 /\ ~Reforward => x[1] \notin carriers \/ moves[x[1]] = 0
                 /\ \A y \in ToSet(hs) : EndOf(y) = EndOf(x) => y = x
<1>1. PICK k \in 0..MaxHandles : hs \in [1..k -> {x \in held[n] : MaySend(n, x, c)}]
  BY DEF HandleLists
<1>2. k \in Nat
  BY BoundsAssumption
<1>3. \A x \in ToSet(hs) : x \in held[n] /\ MaySend(n, x, c)
  BY <1>1 DEF ToSet
<1>4. IsFiniteSet(ToSet(hs))
  <2>1. IsFiniteSet(1..k)
    BY <1>2, FS_Interval
  <2>2. hs \in Surjection(1..k, ToSet(hs))
    BY <1>1 DEF ToSet, Surjection
  <2> QED BY <2>1, <2>2, FS_Surjection
<1>5. /\ \A x \in held[n] : \A y \in held[n] : EndOf(y) = EndOf(x) => y = x
      /\ held[n] \subseteq Names
  BY EndpointFacts DEF PlaceInv, HeldOnce, IndInv, HeldSound
<1>6. moves \in [1..MaxPipes -> Nat]
  BY DEF IndInv, CountersSound
<1>7. ASSUME NEW x \in ToSet(hs), ~Reforward PROVE x[1] \notin carriers \/ moves[x[1]] = 0
  <2>1. MaySend(n, x, c) /\ x \in Names
    BY <1>3, <1>5
  <2>2. moves[x[1]] \in Nat
    BY <1>6, <2>1 DEF Names
  <2>3. x[1] \in carriers => moves[x[1]] < 1
    BY <1>7, <2>1 DEF MaySend
  <2> QED BY <2>2, <2>3
<1> QED BY <1>3, <1>4, <1>5, <1>7 DEF MaySend

\* A send names an end of each pipe it moves.
LEMMA SendNames ==
    ASSUME IndInv, PlaceInv, Naming, IndInv', NEW n \in Nodes, NEW t, NEW c \in held[n],
           NEW hs \in HandleLists(n, c), Sends(n, t, c, hs)
    PROVE  /\ NamesStep(names, moves, names', moves') /\ NotMadeNotMoved(moves', pipes')
           /\ \A x \in ToSet(hs) : x[1] \in 1..MaxPipes /\ moves'[x[1]] > moves[x[1]]
<1> DEFINE X == ToSet(hs)
           At(p) == {x \in X : x[1] = p}
           M2 == moves'
           N2 == names'
<1>1. /\ IsFiniteSet(X)
      /\ \A x \in X : x \in held[n] /\ x \in Names
      /\ \A x \in X : \A y \in X : EndOf(y) = EndOf(x) => y = x
  BY HandlesSent
<1>2. /\ moves' = [p \in 1..MaxPipes |-> moves[p] + Cardinality({x \in ToSet(hs) : x[1] = p})]
      /\ names' = [e \in Ends |-> IF \E x \in ToSet(hs) : EndOf(x) = e THEN names[e] + 1 ELSE names[e]]
      /\ pipes' = pipes
  BY DEF Sends
<1>3. /\ M2 = [p \in 1..MaxPipes |-> moves[p] + Cardinality(At(p))]
      /\ N2 = [e \in Ends |-> IF \E x \in X : EndOf(x) = e THEN names[e] + 1 ELSE names[e]]
  BY <1>2
<1>4. /\ moves \in [1..MaxPipes -> Nat] /\ M2 \in [1..MaxPipes -> Nat]
      /\ names \in [Ends -> Nat] /\ N2 \in [Ends -> Nat] /\ pipes \in Nat
      /\ \A e \in Ends : e[1] > pipes => names[e] = 0
      /\ MovesNamed(names, moves) /\ NotMadeNotMoved(moves, pipes)
  BY DEF IndInv, CountersSound, NamesSound, Naming
<1>5. \A x \in X : x \in Given(names) /\ x[1] \in 1..MaxPipes /\ EndOf(x) \in Ends /\ x[3] \in Nat
                   /\ EndOf(x)[1] = x[1]
  <2> SUFFICES ASSUME NEW x \in X PROVE x \in Given(names) /\ x[1] \in 1..MaxPipes
                                        /\ EndOf(x) \in Ends /\ x[3] \in Nat /\ EndOf(x)[1] = x[1]
    OBVIOUS
  <2>1. x \in DOMAIN endpoints[n] /\ x \in Names
    BY <1>1 DEF IndInv, HeldSound
  <2> QED BY <2>1, EndpointFacts DEF Names, EndOf
<1> HIDE DEF X, M2, N2
<1>6. \A p : IsFiniteSet(At(p)) /\ Cardinality(At(p)) \in Nat
  <2> SUFFICES ASSUME NEW p PROVE IsFiniteSet(At(p)) /\ Cardinality(At(p)) \in Nat
    OBVIOUS
  <2>1. At(p) \in SUBSET X
    OBVIOUS
  <2> HIDE DEF At
  <2> QED BY <1>1, <2>1, FS_Subset, FS_CardinalityType
<1>7. \A p : (Cardinality(At(p)) = 0 <=> At(p) = {}) /\ (Cardinality(At(p)) = 1 => \E x : At(p) = {x})
  <2> SUFFICES ASSUME NEW p
               PROVE (Cardinality(At(p)) = 0 <=> At(p) = {}) /\ (Cardinality(At(p)) = 1 => \E x : At(p) = {x})
    OBVIOUS
  <2>1. IsFiniteSet(At(p))
    BY <1>6
  <2> HIDE DEF At
  <2> QED BY <2>1, FS_EmptySet, FS_Singleton
<1>8. \A x \in X : x \in At(x[1])
  OBVIOUS
<1>9. \A p, x : x \in At(p) => x \in X /\ x[1] = p
  OBVIOUS
<1> HIDE DEF At
<1>10. \A p \in 1..MaxPipes : M2[p] = moves[p] + Cardinality(At(p)) /\ moves[p] \in Nat
                              /\ Cardinality(At(p)) \in Nat /\ moves[p] <= M2[p] /\ M2[p] \in Nat
  BY <1>3, <1>4, <1>6
<1>11. ASSUME NEW x \in X PROVE M2[x[1]] > moves[x[1]]
  <2>1. x[1] \in 1..MaxPipes /\ At(x[1]) # {}
    BY <1>5, <1>8
  <2>2. Cardinality(At(x[1])) # 0
    BY <1>7, <2>1
  <2> QED BY <1>10, <2>1, <2>2
<1>12. ASSUME NEW e \in Ends PROVE Renamed(names, moves, N2, M2, e)
  <2> DEFINE p == e[1]
  <2>1. p \in 1..MaxPipes /\ names[e] \in Nat
    BY <1>4 DEF Ends
  <2>2. CASE \E x \in X : EndOf(x) = e
    <3>1. PICK x \in X : EndOf(x) = e
      BY <2>2
    <3>2. x[1] = p
      BY <1>5, <3>1
    <3>3. M2[p] > moves[p]
      BY <1>11, <3>2
    <3>4. M2[p] # 0
      BY <1>10, <2>1, <3>3
    <3>5. ASSUME M2[p] = 1 PROVE N2[Partner(e)] <= 1
      <4>1. moves[p] = 0 /\ Cardinality(At(p)) = 1
        BY <1>10, <2>1, <3>3, <3>5
      <4>2. PICK y : At(p) = {y}
        BY <1>7, <4>1
      <4>3. y = x
        BY <1>8, <3>2, <4>2
      <4>4. Partner(e) \in Ends /\ Partner(e)[1] = p /\ Partner(e) # e
        BY EndsFit DEF Partner, Ends
      <4>5. ASSUME NEW z \in X, EndOf(z) = Partner(e) PROVE FALSE
        <5>1. z[1] = p
          BY <1>5, <4>4, <4>5
        <5>2. z = x
          BY <1>8, <4>2, <4>3, <5>1
        <5> QED BY <3>1, <4>4, <4>5, <5>2
      <4>6. names[Partner(e)] <= 1
        BY <1>4, <4>1, <4>4 DEF MovesNamed
      <4> QED BY <1>3, <4>4, <4>5, <4>6
    <3> QED BY <3>3, <3>4, <3>5 DEF Renamed
  <2>3. CASE ~\E x \in X : EndOf(x) = e
    <3>1. N2[e] = names[e]
      BY <1>3, <2>3
    <3>2. CASE M2[p] = moves[p]
      BY <2>1, <3>1, <3>2 DEF Renamed
    <3>3. CASE M2[p] # moves[p]
      <4>1. M2[p] > moves[p] /\ M2[p] # 0
        BY <1>10, <2>1, <3>3
      <4>2. CASE names[e] <= 1
        BY <3>1, <4>2 DEF Renamed
      <4>3. CASE names[e] > 1
        <5>1. moves[p] # 0
          BY <1>4, <2>1, <4>3 DEF MovesNamed
        <5>2. M2[p] # 1
          BY <1>10, <2>1, <4>1, <5>1
        <5> QED BY <4>1, <5>2 DEF Renamed
      <4> QED BY <2>1, <4>2, <4>3
    <3> QED BY <3>2, <3>3
  <2> QED BY <2>2, <2>3
<1>13. NotMadeNotMoved(M2, pipes)
  <2> SUFFICES ASSUME NEW p \in 1..MaxPipes, p > pipes PROVE M2[p] = 0
    BY DEF NotMadeNotMoved
  <2>1. moves[p] = 0
    BY <1>4 DEF NotMadeNotMoved
  <2>2. ASSUME NEW x \in At(p) PROVE FALSE
    <3>1. x \in X /\ x[1] = p
      BY <1>9
    <3>2. EndOf(x) \in Ends /\ EndOf(x)[1] = p /\ x[3] < names[EndOf(x)] /\ x[3] \in Nat
      BY <1>5, <3>1 DEF Given
    <3>3. names[EndOf(x)] = 0
      BY <1>4, <3>2
    <3> QED BY <3>2, <3>3
  <2>3. Cardinality(At(p)) = 0
    BY <1>7, <2>2
  <2> QED BY <1>10, <2>1, <2>3
<1>14. NamesStep(names, moves, N2, M2)
  BY <1>4, <1>10, <1>12 DEF NamesStep
<1> QED BY <1>2, <1>5, <1>11, <1>13, <1>14 DEF N2, M2, X

\* A step that names nothing.
LEMMA NamesRest ==
    ASSUME IndInv, Naming
    PROVE  NamesStep(names, moves, names, moves) /\ NotMadeNotMoved(moves, pipes)
<1>1. names \in [Ends -> Nat] /\ moves \in [1..MaxPipes -> Nat] /\ NotMadeNotMoved(moves, pipes)
  BY DEF IndInv, NamesSound, CountersSound, Naming
<1>2. \A e \in Ends : Renamed(names, moves, names, moves, e)
  BY <1>1 DEF Renamed
<1> QED BY <1>1, <1>2 DEF NamesStep

LEMMA NextNames ==
    ASSUME IndInv, PlaceInv, Naming, IndInv', [Next]_vars
    PROVE  NamesStep(names, moves, names', moves') /\ NotMadeNotMoved(moves', pipes')
           /\ carriers \subseteq carriers'
<1> DEFINE Ok == NamesStep(names, moves, names', moves') /\ NotMadeNotMoved(moves', pipes')
                 /\ carriers \subseteq carriers'
<1>1. ASSUME names' = names, moves' = moves, pipes' = pipes, carriers' = carriers PROVE Ok
  BY <1>1, NamesRest
<1>2. ASSUME NEW n \in Nodes, NEW t \in Threads, SendMessage(n, t) PROVE Ok
  <2>1. PICK c \in held[n] : \E hs \in HandleLists(n, c) :
            \/ SendToRemotePeer(n, t, c, hs)
            \/ SendThroughProxy(n, t, c, hs)
            \/ SendToLocalPeer(n, t, c, hs)
    BY <1>2 DEF SendMessage
  <2>2. PICK hs \in HandleLists(n, c) : Sends(n, t, c, hs)
    BY <2>1 DEF SendToRemotePeer, SendThroughProxy, SendToLocalPeer
  <2>3. carriers \subseteq carriers'
    BY <2>2 DEF Sends
  <2> QED BY <2>2, <2>3, SendNames
<1>3. ASSUME NEW n \in Nodes, NEW t \in Threads, NEW m \in Nodes, SendInvitation(n, t, m) PROVE Ok
  <2>1. CreatePipe(n) /\ moves' = [moves EXCEPT ![pipes'] = 1] /\ carriers' = carriers
    BY <1>3 DEF SendInvitation
  <2> QED BY <2>1, NewPipeNames
<1>4. ASSUME NEW n \in Nodes, NEW t \in Threads, CreateMessagePipes(n, t) PROVE Ok
  <2>1. CreatePipe(n) /\ moves' = moves /\ carriers' = carriers
    BY <1>4 DEF CreateMessagePipes
  <2> QED BY <2>1, NewPipeNames
<1>5. ASSUME NEW n \in Nodes, NEW t \in Threads, Application(n, t) PROVE Ok
  <2>1. CASE AcceptInvitation(n, t)
    BY <1>1, <2>1 DEF AcceptInvitation, appVars
  <2>2. ASSUME NEW x \in held[n], Bind(n, t, x) PROVE Ok
    BY <1>1, <2>2 DEF Bind, appVars
  <2> QED BY <1>2, <1>3, <1>4, <1>5, <2>1, <2>2 DEF Application
<1>6. ASSUME NEW n \in Nodes, NEW m \in Nodes, OnReceivedInvitation(n, m) PROVE Ok
  <2>1. carriers' = carriers
    BY <1>6 DEF OnReceivedInvitation, appVars
  <2> QED BY <1>6, <2>1, InvitedNames
<1>7. ASSUME NEW n \in Nodes, NEW m \in Nodes, OnReceivedAcceptInvitation(n, m) PROVE Ok
  BY <1>1, <1>7 DEF OnReceivedAcceptInvitation, appVars
<1>8. ASSUME NEW n \in Nodes, NEW m \in Nodes, OnReceivedUserMessage(n, m) PROVE Ok
  BY <1>1, <1>8 DEF OnReceivedUserMessage, appVars
<1>9. ASSUME NEW n \in Nodes, NEW m \in Nodes, ForwardUserMessage(n, m) PROVE Ok
  <2>1. carriers' = carriers
    BY <1>9, ZenonT(30) DEF ForwardUserMessage, appVars
  <2> QED BY <1>9, <2>1, ForwardedNames
<1>10. ASSUME NEW n \in Nodes, NEW t \in AllThreads, Flush(n, t) PROVE Ok
  BY <1>1, <1>10 DEF Flush, FlushOne, FlushDone, appVars
<1>11. ASSUME NEW n \in Nodes, NEW t \in Threads, RunTask(n, t) PROVE Ok
  BY <1>1, <1>11 DEF RunTask
<1>12. ASSUME Next PROVE Ok
  <2>1. PICK n \in Nodes :
           \/ \E t \in Threads : Application(n, t) \/ RunTask(n, t)
           \/ IOThread(n)
           \/ \E t \in AllThreads : Flush(n, t)
    BY <1>12 DEF Next
  <2> HIDE DEF Ok
  <2> QED BY <1>5, <1>6, <1>7, <1>8, <1>9, <1>10, <1>11, <2>1 DEF IOThread
<1>13. ASSUME UNCHANGED vars PROVE Ok
  BY <1>1, <1>13 DEF vars, appVars
<1> QED BY <1>12, <1>13

\* What comes to be reserved is the second end of a new pipe.
LEMMA NextReserved ==
    ASSUME IndInv, PlaceInv, Naming, IndInv', [Next]_vars
    PROVE  ReservedNamed(pending', names', moves')
<1> DEFINE N2 == names'
           M2 == moves'
           P2 == pending'
           Ok == ReservedNamed(P2, N2, M2)
<1>1. ReservedNamed(pending, N2, M2)
  <2>1. NamesStep(names, moves, N2, M2)
    BY NextNames
  <2>2. ReservedNamed(pending, names, moves) /\ MovesNamed(names, moves)
    BY DEF Naming
  <2> HIDE DEF N2, M2
  <2> QED BY <2>1, <2>2, NamesStay
<1>2. ASSUME pending' = pending PROVE Ok
  BY <1>1, <1>2
<1>3. ASSUME NEW n \in Nodes, NEW t \in Threads, NEW m \in Nodes, SendInvitation(n, t, m) PROVE Ok
  <2> DEFINE p == pipes'
             x == <<p, 2, 0>>
  <2>1. /\ CreatePipe(n) /\ moves' = [moves EXCEPT ![p] = 1]
        /\ pending' = [pending EXCEPT ![n] = Insert(@, Temporary(m), x)]
    BY <1>3 DEF SendInvitation
  <2>2. /\ p = pipes + 1 /\ p \in 1..MaxPipes
        /\ N2 = [names EXCEPT ![<<p, 1>>] = 1, ![<<p, 2>>] = 1]
    BY <2>1 DEF CreatePipe, IndInv, CountersSound
  <2>3. names \in [Ends -> Nat] /\ moves \in [1..MaxPipes -> Nat] /\ DOMAIN pending = Nodes
    BY DEF IndInv, NamesSound, CountersSound, PendingSound
  <2>4. M2 = [moves EXCEPT ![p] = 1] /\ P2 = [pending EXCEPT ![n] = Insert(@, Temporary(m), x)]
    BY <2>1
  <2>5. x \in Names /\ x[2] = 2 /\ x[1] = p /\ Partner(EndOf(x)) = <<p, 1>>
        /\ <<p, 1>> \in Ends /\ <<p, 2>> \in Ends /\ <<p, 1>> # <<p, 2>>
    BY <2>2 DEF Names, EndOf, Partner, Ends
  <2> HIDE DEF N2, M2, P2, p, x
  <2>6. M2[p] = 1 /\ N2[<<p, 1>>] = 1
    BY <2>2, <2>3, <2>4, <2>5
  <2>7. \A k \in Nodes : \A l \in DOMAIN P2[k] :
            (l \in DOMAIN pending[k] /\ P2[k][l] = pending[k][l]) \/ P2[k][l] = x
    BY <2>3, <2>4 DEF Insert, InsertAll
  <2> QED BY <1>1, <2>5, <2>6, <2>7 DEF ReservedNamed
<1>4. ASSUME NEW n \in Nodes, NEW m \in Nodes, OnReceivedAcceptInvitation(n, m) PROVE Ok
  <2>1. PICK msg, k, x, Q1 : msg = Head(wire[m][n]) /\ Answered(n, m, msg, k, x, Q1)
    BY <1>4, AnsweredFacts
  <2>2. /\ \A l \in Nodes : l # n => P2[l] = pending[l]
        /\ DOMAIN P2[n] = DOMAIN pending[n] \ {k}
        /\ \A l \in DOMAIN P2[n] : P2[n][l] = pending[n][l]
    BY <2>1 DEF Answered
  <2> HIDE DEF N2, M2, P2
  <2>3. \A j \in Nodes : \A l \in DOMAIN P2[j] : l \in DOMAIN pending[j] /\ P2[j][l] = pending[j][l]
    BY <2>2
  <2> QED BY <1>1, <2>3 DEF ReservedNamed
<1> HIDE DEF Ok
<1>5. ASSUME NEW n \in Nodes, NEW t \in Threads, Application(n, t) PROVE Ok
  <2>1. CASE AcceptInvitation(n, t)
    BY <1>2, <2>1 DEF AcceptInvitation
  <2>2. ASSUME NEW x \in held[n], Bind(n, t, x) PROVE Ok
    BY <1>2, <2>2 DEF Bind
  <2>3. CASE CreateMessagePipes(n, t)
    BY <1>2, <2>3 DEF CreateMessagePipes
  <2>4. CASE SendMessage(n, t)
    BY <1>2, <2>4 DEF SendMessage, SendToRemotePeer, SendThroughProxy, SendToLocalPeer, Sends
  <2> QED BY <1>3, <1>5, <2>1, <2>2, <2>3, <2>4 DEF Application
<1>6. ASSUME NEW n \in Nodes, NEW m \in Nodes, OnReceivedInvitation(n, m) PROVE Ok
  BY <1>2, <1>6 DEF OnReceivedInvitation
<1>7. ASSUME NEW n \in Nodes, NEW m \in Nodes, OnReceivedUserMessage(n, m) PROVE Ok
  BY <1>2, <1>7 DEF OnReceivedUserMessage
<1>8. ASSUME NEW n \in Nodes, NEW m \in Nodes, ForwardUserMessage(n, m) PROVE Ok
  <2>1. pending' = pending
    BY <1>8, ZenonT(30) DEF ForwardUserMessage
  <2> QED BY <1>2, <2>1
<1>9. ASSUME NEW n \in Nodes, NEW t \in AllThreads, Flush(n, t) PROVE Ok
  BY <1>2, <1>9 DEF Flush, FlushOne, FlushDone
<1>10. ASSUME NEW n \in Nodes, NEW t \in Threads, RunTask(n, t) PROVE Ok
  BY <1>2, <1>10 DEF RunTask
<1>11. ASSUME Next PROVE Ok
  <2>1. PICK n \in Nodes :
           \/ \E t \in Threads : Application(n, t) \/ RunTask(n, t)
           \/ IOThread(n)
           \/ \E t \in AllThreads : Flush(n, t)
    BY <1>11 DEF Next
  <2> QED BY <1>4, <1>5, <1>6, <1>7, <1>8, <1>9, <1>10, <2>1 DEF IOThread
<1>12. ASSUME UNCHANGED vars PROVE Ok
  BY <1>2, <1>12 DEF vars, netVars
<1> QED BY <1>11, <1>12 DEF Ok

\* A node is known by one key.
LEMMA NextOneKey ==
    ASSUME IndInv, PlaceInv, Naming, [Next]_vars
    PROVE  OneKey(channels')
<1> DEFINE C2 == channels'
           Ok == OneKey(C2)
<1>0. OneKey(channels) /\ DOMAIN channels = Nodes
      /\ \A m, n \in Nodes : Temporary(m) \in DOMAIN channels[n] => <<n, m>> \in Invitations
  BY DEF Naming, IndInv, ChannelsSound, PlaceInv, Introductions
<1>1. /\ \A m \in Nodes : /\ Temporary(m) \notin Nodes /\ Temporary(m) # InitialChannel
                          /\ m # InitialChannel
      /\ \A m, n \in Nodes : Temporary(m) = Temporary(n) => m = n
  BY TemporaryFacts, NodesAssumption
<1>2. ASSUME channels' = channels PROVE Ok
  BY <1>0, <1>2
<1>3. ASSUME NEW n \in Nodes, NEW t \in Threads, NEW m \in Nodes, SendInvitation(n, t, m) PROVE Ok
  <2>1. /\ C2 = [channels EXCEPT ![n] = Insert(@, Temporary(m), m)]
        /\ {m, Temporary(m)} \cap DOMAIN channels[n] = {}
    BY <1>3 DEF SendInvitation
  <2> HIDE DEF C2
  <2>2. /\ \A k \in Nodes : k # n => C2[k] = channels[k]
        /\ DOMAIN C2[n] = DOMAIN channels[n] \cup {Temporary(m)}
    BY <1>0, <2>1 DEF Insert, InsertAll
  <2> QED BY <1>0, <1>1, <2>1, <2>2 DEF OneKey
<1>4. ASSUME NEW n \in Nodes, NEW t \in Threads, AcceptInvitation(n, t) PROVE Ok
  <2>1. PICK m : C2 = [channels EXCEPT ![n] = Insert(@, InitialChannel, m)]
    BY <1>4 DEF AcceptInvitation
  <2> HIDE DEF C2
  <2>2. /\ \A k \in Nodes : k # n => C2[k] = channels[k]
        /\ DOMAIN C2[n] = DOMAIN channels[n] \cup {InitialChannel}
    BY <1>0, <2>1 DEF Insert, InsertAll
  <2> QED BY <1>0, <1>1, <2>2 DEF OneKey
<1>5. ASSUME NEW n \in Nodes, NEW m \in Nodes, OnReceivedInvitation(n, m) PROVE Ok
  <2>1. PICK msg, end, x, W1, Q1, Q2 :
            msg = Head(wire[m][n]) /\ Invited(n, m, msg, end, x, W1, Q1, Q2)
    BY <1>5, InvitedFacts
  <2>2. /\ \A k \in Nodes : k # n => C2[k] = channels[k]
        /\ DOMAIN C2[n] = (DOMAIN channels[n] \ {InitialChannel}) \cup {m}
        /\ <<m, n>> \in Invitations
    BY <2>1 DEF Invited
  <2> HIDE DEF C2
  <2>3. <<n, m>> \notin Invitations
    BY <2>2, NodesAssumption
  <2> QED BY <1>0, <1>1, <2>2, <2>3 DEF OneKey
<1>6. ASSUME NEW n \in Nodes, NEW m \in Nodes, OnReceivedAcceptInvitation(n, m) PROVE Ok
  <2>1. PICK msg, k, x, Q1 : msg = Head(wire[m][n]) /\ Answered(n, m, msg, k, x, Q1)
    BY <1>6, AnsweredFacts
  <2>2. /\ \A l \in Nodes : l # n => C2[l] = channels[l]
        /\ DOMAIN C2[n] = (DOMAIN channels[n] \ {k}) \cup {m} /\ k = Temporary(m)
    BY <2>1 DEF Answered
  <2> HIDE DEF C2
  <2> QED BY <1>0, <1>1, <2>2 DEF OneKey
<1> HIDE DEF Ok
<1>7. ASSUME NEW n \in Nodes, NEW t \in Threads, Application(n, t) PROVE Ok
  <2>1. ASSUME NEW x \in held[n], Bind(n, t, x) PROVE Ok
    BY <1>2, <2>1 DEF Bind
  <2>2. CASE CreateMessagePipes(n, t)
    BY <1>2, <2>2 DEF CreateMessagePipes
  <2>3. CASE SendMessage(n, t)
    BY <1>2, <2>3 DEF SendMessage, SendToRemotePeer, SendThroughProxy, SendToLocalPeer, Sends
  <2> QED BY <1>3, <1>4, <1>7, <2>1, <2>2, <2>3 DEF Application
<1>8. ASSUME NEW n \in Nodes, NEW m \in Nodes, OnReceivedUserMessage(n, m) PROVE Ok
  BY <1>2, <1>8 DEF OnReceivedUserMessage
<1>9. ASSUME NEW n \in Nodes, NEW m \in Nodes, ForwardUserMessage(n, m) PROVE Ok
  <2>1. channels' = channels
    BY <1>9, ZenonT(30) DEF ForwardUserMessage
  <2> QED BY <1>2, <2>1
<1>10. ASSUME NEW n \in Nodes, NEW t \in AllThreads, Flush(n, t) PROVE Ok
  BY <1>2, <1>10 DEF Flush, FlushOne, FlushDone
<1>11. ASSUME NEW n \in Nodes, NEW t \in Threads, RunTask(n, t) PROVE Ok
  BY <1>2, <1>11 DEF RunTask
<1>12. ASSUME Next PROVE Ok
  <2>1. PICK n \in Nodes :
           \/ \E t \in Threads : Application(n, t) \/ RunTask(n, t)
           \/ IOThread(n)
           \/ \E t \in AllThreads : Flush(n, t)
    BY <1>12 DEF Next
  <2> QED BY <1>5, <1>6, <1>7, <1>8, <1>9, <1>10, <1>11, <2>1 DEF IOThread
<1>13. ASSUME UNCHANGED vars PROVE Ok
  BY <1>2, <1>13 DEF vars, netVars
<1> QED BY <1>12, <1>13 DEF Ok

\* An endpoint that was not made here is not the first of its end.
NewBorn(E, E2) ==
    \A n \in Nodes : \A x \in DOMAIN E2[n] \ DOMAIN E[n] :
        x[3] = 0 => E2[n][x].peer.node = n /\ E2[n][x].peer.ep[3] = 0
LEMMA CarriedLater ==
    ASSUME NEW E, NEW N, NEW d \in Carried(E, N)
    PROVE  d.cross[3] # 0
<1>1. d.name \in Names /\ d.cross \in Names /\ d.name[3] < d.cross[3]
  BY DEF Carried, Given
<1>2. d.name[3] \in Nat /\ d.cross[3] \in Nat
  BY <1>1 DEF Names
<1> QED BY <1>1, <1>2

LEMMA NextNewBorn ==
    ASSUME IndInv, PlaceInv, Naming, [Next]_vars
    PROVE  NewBorn(endpoints, endpoints')
<1> DEFINE E2 == endpoints'
           Ok == NewBorn(endpoints, E2)
<1>0. DOMAIN endpoints = Nodes
  BY DEF IndInv, EndpointsSound
<1>1. ASSUME \A n \in Nodes : DOMAIN E2[n] = DOMAIN endpoints[n] PROVE Ok
  BY <1>1 DEF NewBorn
<1>2. ASSUME NEW n \in Nodes, CreatePipe(n) PROVE Ok
  <2> DEFINE p == pipes + 1
             pair == Entangled(n, p)
  <2>1. E2 = [endpoints EXCEPT ![n] = InsertAll(@, pair)]
    BY <1>2 DEF CreatePipe
  <2>2. \A x \in DOMAIN pair : pair[x].peer.node = n /\ pair[x].peer.ep[3] = 0
    BY DEF Entangled, NewEndpoint, Address
  <2> HIDE DEF pair, E2
  <2>3. /\ \A m \in Nodes : m # n => E2[m] = endpoints[m]
        /\ \A x \in DOMAIN E2[n] \ DOMAIN endpoints[n] : x \in DOMAIN pair /\ E2[n][x] = pair[x]
    BY <1>0, <2>1 DEF InsertAll
  <2> QED BY <2>2, <2>3 DEF NewBorn
<1>3. ASSUME NEW n \in Nodes, NEW m \in Nodes, OnReceivedInvitation(n, m) PROVE Ok
  <2> DEFINE params == Head(wire[m][n])
             end == Partner(EndOf(params.peer))
             x == FreshName(end)
             new == NewEndpoint(Address(params.inviter, params.peer))
  <2>1. Receives(n, m, "INVITE") /\ E2 = [endpoints EXCEPT ![n] = Insert(@, x, new)]
    BY <1>3 DEF OnReceivedInvitation
  <2>2. x[3] = names[end]
    BY DEF FreshName
  <2>3. params.type = "INVITE" /\ params \in Traffic(endpoints, names, channels, pending, m, n)
    BY <2>1, ReceivedFacts
  <2> HIDE DEF params, x, new, E2
  <2>4. params \in Invites(endpoints, names, channels, pending, m, n)
    BY <2>3 DEF Traffic, RoutedMail, Mail, Accepts
  <2>5. params.peer \in DOMAIN endpoints[m] /\ names[end] > 0
    BY <2>4 DEF Invites
  <2>6. end \in Ends
    BY <1>0, <2>5, EndpointFacts, EndsFit
  <2> HIDE DEF end
  <2>7. names[end] \in Nat
    BY <2>6 DEF IndInv, NamesSound
  <2>8. x[3] # 0
    BY <2>2, <2>5, <2>7
  <2>9. /\ \A k \in Nodes : k # n => E2[k] = endpoints[k]
        /\ \A z \in DOMAIN E2[n] \ DOMAIN endpoints[n] : z = x
    BY <1>0, <2>1 DEF Insert, InsertAll
  <2> QED BY <2>8, <2>9 DEF NewBorn
<1>4. ASSUME NEW n \in Nodes, NEW m \in Nodes, ReceivesUserMessage(n, m),
             \A k \in Nodes : k # n => E2[k] = endpoints[k],
             DOMAIN E2[n] = DOMAIN Recover(n, Head(wire[m][n]).descs)
      PROVE  Ok
  <2> DEFINE msg == Head(wire[m][n])
  <2>1. ToSet(msg.descs) \subseteq Carried(endpoints, names)
    BY <1>4, ReceivedUserFacts
  <2>2. DOMAIN E2[n] = DOMAIN endpoints[n] \cup {d.cross : d \in ToSet(msg.descs)}
    BY <1>4 DEF Recover, InsertAll
  <2> HIDE DEF msg, E2
  <2>3. \A d \in ToSet(msg.descs) : d.cross[3] # 0
    BY <2>1, CarriedLater
  <2> QED BY <1>4, <2>2, <2>3 DEF NewBorn, E2
<1>5. ASSUME NEW n \in Nodes, NEW m \in Nodes, OnReceivedUserMessage(n, m) PROVE Ok
  <2> DEFINE msg == Head(wire[m][n])
             table == Recover(n, msg.descs)
             mail == [msg EXCEPT !.pipes = [i \in DOMAIN msg.descs |-> msg.descs[i].cross]]
  <2>1. ReceivesUserMessage(n, m) /\ AcceptMessage(n, table, msg.target, mail)
    BY <1>5 DEF OnReceivedUserMessage
  <2>2. msg.target \in DOMAIN endpoints[n]
    BY <2>1, ReceivedUserFacts
  <2>3. DOMAIN endpoints[n] \subseteq DOMAIN table
    BY DEF Recover, InsertAll
  <2> HIDE DEF mail
  <2>4. /\ \A k \in Nodes : k # n => E2[k] = endpoints[k]
        /\ DOMAIN E2[n] = DOMAIN table
    <3> HIDE DEF table, msg
    <3> QED BY <2>1, <2>2, <2>3, AcceptedAdds
  <2> HIDE DEF Ok
  <2> QED BY <1>4, <2>1, <2>4
<1>6. ASSUME NEW n \in Nodes, NEW m \in Nodes, ForwardUserMessage(n, m) PROVE Ok
  <2> DEFINE msg == Head(wire[m][n])
             table == Recover(n, msg.descs)
             k == endpoints[n][msg.target].target.node
             descs == [i \in DOMAIN msg.descs |-> Inchworm(msg.descs[i])]
  <2>1. /\ ReceivesUserMessage(n, m)
        /\ endpoints' = [endpoints EXCEPT ![n] = Moved(table, descs, k)]
    BY <1>6, ZenonT(30) DEF ForwardUserMessage
  <2>2. DOMAIN Moved(table, descs, k) = DOMAIN table
    BY MovedFacts
  <2>3. /\ \A l \in Nodes : l # n => E2[l] = endpoints[l]
        /\ DOMAIN E2[n] = DOMAIN table
    <3> HIDE DEF table, descs, k, msg
    <3> QED BY <1>0, <2>1, <2>2
  <2> HIDE DEF Ok
  <2> QED BY <1>4, <2>1, <2>3
<1>7. ASSUME NEW n \in Nodes, NEW t \in Threads, SendMessage(n, t) PROVE Ok
  <2>1. PICK c \in held[n] : \E hs \in HandleLists(n, c) :
            \/ SendToRemotePeer(n, t, c, hs)
            \/ SendThroughProxy(n, t, c, hs)
            \/ SendToLocalPeer(n, t, c, hs)
    BY <1>7 DEF SendMessage
  <2>2. CASE endpoints' = endpoints
    BY <1>1, <2>2
  <2>3. ASSUME NEW hs, SendToLocalPeer(n, t, c, hs) PROVE Ok
    <3>1. PICK x, msg : x \in DOMAIN endpoints[n] /\ AcceptMessage(n, endpoints[n], x, msg)
      BY <2>3 DEF SendToLocalPeer, Local
    <3>2. /\ \A k \in Nodes : k # n => E2[k] = endpoints[k]
          /\ DOMAIN E2[n] = DOMAIN endpoints[n]
      BY <3>1, AcceptedAdds
    <3> QED BY <1>1, <3>2
  <2> QED BY <2>1, <2>2, <2>3 DEF SendToRemotePeer, SendThroughProxy
<1>8. ASSUME NEW n \in Nodes, NEW t \in Threads, Application(n, t) PROVE Ok
  <2>1. ASSUME NEW x \in held[n], Bind(n, t, x) PROVE Ok
    <3>1. PICK q : Bound(n, t, x, q)
      BY <2>1, BoundFacts
    <3>2. \A l \in Nodes : DOMAIN E2[l] = DOMAIN endpoints[l]
      BY <3>1 DEF Bound
    <3> QED BY <1>1, <3>2
  <2>2. CASE AcceptInvitation(n, t)
    BY <1>1, <2>2 DEF AcceptInvitation
  <2>3. ASSUME NEW m \in Nodes, SendInvitation(n, t, m) PROVE Ok
    BY <1>2, <2>3 DEF SendInvitation
  <2>4. CASE CreateMessagePipes(n, t)
    BY <1>2, <2>4 DEF CreateMessagePipes
  <2> HIDE DEF Ok
  <2> QED BY <1>7, <1>8, <2>1, <2>2, <2>3, <2>4 DEF Application
<1>9. ASSUME NEW n \in Nodes, NEW m \in Nodes, OnReceivedAcceptInvitation(n, m) PROVE Ok
  <2>1. PICK msg, k, x, Q1 : msg = Head(wire[m][n]) /\ Answered(n, m, msg, k, x, Q1)
    BY <1>9, AnsweredFacts
  <2>2. \A l \in Nodes : DOMAIN E2[l] = DOMAIN endpoints[l]
    BY <2>1 DEF Answered
  <2> QED BY <1>1, <2>2
<1>10. ASSUME NEW n \in Nodes, NEW t \in AllThreads, Flush(n, t) PROVE Ok
  <2>1. CASE FlushOne(n, t)
    <3>1. PICK k, msg, mail, Ep, q, Q2 :
              msg = Head(call[n][t].msgs) /\ Flushed(n, t, k, msg, mail, Ep, q, Q2)
      BY <2>1, FlushedFacts
    <3>2. SameStates(endpoints, Ep) /\ MovedOn(Ep, endpoints', n, mail, k)
      BY <3>1 DEF Flushed
    <3>3. \A l \in Nodes : DOMAIN E2[l] = DOMAIN endpoints[l]
      BY <3>2 DEF SameStates, MovedOn
    <3> QED BY <1>1, <3>3
  <2>2. CASE FlushDone(n, t)
    BY <1>1, <2>2 DEF FlushDone
  <2> QED BY <1>10, <2>1, <2>2 DEF Flush
<1>11. ASSUME NEW n \in Nodes, NEW t \in Threads, RunTask(n, t) PROVE Ok
  BY <1>1, <1>11 DEF RunTask
<1> HIDE DEF Ok
<1>12. ASSUME Next PROVE Ok
  <2>1. PICK n \in Nodes :
           \/ \E t \in Threads : Application(n, t) \/ RunTask(n, t)
           \/ IOThread(n)
           \/ \E t \in AllThreads : Flush(n, t)
    BY <1>12 DEF Next
  <2> QED BY <1>3, <1>5, <1>6, <1>8, <1>9, <1>10, <1>11, <2>1 DEF IOThread
<1>13. ASSUME UNCHANGED vars PROVE Ok
  BY <1>1, <1>13 DEF vars, netVars
<1> QED BY <1>12, <1>13 DEF Ok

\* So the naming of endpoints stays as it is.
LEMMA NextNaming ==
    ASSUME IndInv, PlaceInv, Naming, IndInv', [Next]_vars
    PROVE  Naming' /\ CarryMore /\ Grown
<1> DEFINE E2 == endpoints'
           N2 == names'
           M2 == moves'
<1>1. NamesStep(names, moves, N2, M2) /\ NotMadeNotMoved(moves', pipes') /\ carriers \subseteq carriers'
  BY NextNames
<1>2. ReservedNamed(pending', names', moves') /\ OneKey(channels')
  BY NextReserved, NextOneKey
<1>3. MovesNamed(N2, M2)
  <2> HIDE DEF N2, M2
  <2>1. MovesNamed(names, moves)
    BY DEF Naming
  <2> QED BY <1>1, <2>1, NamesStay
<1>4. RoutesKept(endpoints, E2) /\ NewBorn(endpoints, E2)
  BY NextKeepsRoutes, NextNewBorn
<1>5. BornTogether(E2)
  <2> HIDE DEF E2
  <2>1. BornTogether(endpoints)
    BY DEF Naming
  <2>2. ASSUME NEW n \in Nodes, NEW x \in DOMAIN E2[n], x[3] = 0
        PROVE  E2[n][x].peer.node = n /\ E2[n][x].peer.ep[3] = 0
    <3>1. CASE x \in DOMAIN endpoints[n]
      <4>1. Kept(endpoints[n][x], E2[n][x])
        BY <1>4, <3>1 DEF RoutesKept
      <4>2. E2[n][x].peer = endpoints[n][x].peer
        BY <4>1 DEF Kept
      <4> QED BY <2>1, <2>2, <3>1, <4>2 DEF BornTogether
    <3>2. CASE x \notin DOMAIN endpoints[n]
      BY <1>4, <2>2, <3>2 DEF NewBorn
    <3> QED BY <3>1, <3>2
  <2> QED BY <2>2 DEF BornTogether
<1>6. Grown
  BY <1>4 DEF Grown, RoutesKept
<1>7. CarryMore
  BY <1>1 DEF CarryMore, NamesStep
<1> QED BY <1>1, <1>2, <1>3, <1>5, <1>6, <1>7 DEF Naming

-----------------------------------------------------------------------------
(* The steps that queue nothing.                                             *)
Onwards ==
    /\ IndInv /\ PlaceInv /\ Naming /\ Tame
    /\ IndInv' /\ PlaceInv' /\ Naming' /\ CarryMore /\ Grown

LEMMA Unmoved ==
    ASSUME PlaceInv
    PROVE  /\ QueuesRemain(endpoints, endpoints) /\ CallsRemain(call, call)
           /\ \A E2 : (\A n \in Nodes : DOMAIN endpoints[n] \subseteq DOMAIN E2[n]) =>
                  PendingRemains(E2, pending, pending)
           /\ \A G : WiresCome(G, wire, wire)
<1>1. QueuesRemain(endpoints, endpoints)
  BY DEF QueuesRemain
<1>2. CallsRemain(call, call)
  BY DEF CallsRemain
<1>3. ASSUME NEW E2, \A n \in Nodes : DOMAIN endpoints[n] \subseteq DOMAIN E2[n]
      PROVE  PendingRemains(E2, pending, pending)
  <2>1. \A n \in Nodes : \A k \in DOMAIN pending[n] : pending[n][k] \in DOMAIN endpoints[n]
    BY DEF PlaceInv, PendingReady
  <2> QED BY <1>3, <2>1 DEF PendingRemains
<1>4. \A G : WiresCome(G, wire, wire)
  BY DEF WiresCome
<1> QED BY <1>1, <1>2, <1>3, <1>4

\* A message on a wire is for the end that its sender's pipe leads to.
RoutedOn(W) ==
    \A m, n \in Nodes : \A i \in DOMAIN W[m][n] : W[m][n][i].type = "USER" =>
        EndOf(W[m][n][i].target) = Partner(EndOf(W[m][n][i].id))
LEMMA WiresRoute ==
    ASSUME NEW E, NEW N, NEW C, NEW P, NEW W, WiresSound(E, N, C, P, W)
    PROVE  RoutedOn(W)
<1> SUFFICES ASSUME NEW m \in Nodes, NEW n \in Nodes, NEW i \in DOMAIN W[m][n],
                    W[m][n][i].type = "USER"
             PROVE  EndOf(W[m][n][i].target) = Partner(EndOf(W[m][n][i].id))
  BY DEF RoutedOn
<1>1. W[m][n] \in Seq(Traffic(E, N, C, P, m, n))
  BY WireIsSeq
<1>2. W[m][n][i] \in Traffic(E, N, C, P, m, n)
  BY <1>1
<1>3. W[m][n][i] \in RoutedMail(E, N)
  BY <1>2 DEF Traffic, Invites, Accepts
<1> QED BY <1>3 DEF RoutedMail

\* What is read and what is written.
LEMMA WroteTame ==
    ASSUME NEW W, NEW W2, NEW S, NEW m \in Nodes, NEW n \in Nodes, NEW msg,
           Wrote(W, W2, S, m, n, msg), NEW G, WireTame(G, msg)
    PROVE  WiresCome(G, W, W2)
<1> SUFFICES ASSUME NEW k \in Nodes, NEW l \in Nodes, NEW i \in DOMAIN W2[k][l]
             PROVE  WireTame(G, W2[k][l][i]) \/ \E j \in DOMAIN W[k][l] : W2[k][l][i] = W[k][l][j]
  BY DEF WiresCome
<1>1. \A a, b \in Nodes : \A c \in DOMAIN W2[a][b] :
          \/ c \in DOMAIN W[a][b] /\ W2[a][b][c] = W[a][b][c]
          \/ a = m /\ b = n /\ W2[a][b][c] = msg
  BY WroteFacts
<1>2. (i \in DOMAIN W[k][l] /\ W2[k][l][i] = W[k][l][i]) \/ W2[k][l][i] = msg
  BY <1>1
<1> QED BY <1>2

LEMMA ReadTame ==
    ASSUME NEW W, NEW W1, Remains(W, W1), NEW W2, NEW G, WiresCome(G, W1, W2)
    PROVE  WiresCome(G, W, W2)
<1> SUFFICES ASSUME NEW k \in Nodes, NEW l \in Nodes, NEW i \in DOMAIN W2[k][l]
             PROVE  WireTame(G, W2[k][l][i]) \/ \E j \in DOMAIN W[k][l] : W2[k][l][i] = W[k][l][j]
  BY DEF WiresCome
<1>1. WireTame(G, W2[k][l][i]) \/ \E j \in DOMAIN W1[k][l] : W2[k][l][i] = W1[k][l][j]
  BY DEF WiresCome
<1>2. \A j \in DOMAIN W1[k][l] : \E h \in DOMAIN W[k][l] : W1[k][l][j] = W[k][l][h]
  BY DEF Remains
<1> QED BY <1>1, <1>2

\* Nothing but the tasks, the channels and what is held.
LEMMA TameApart ==
    ASSUME Onwards, endpoints' = endpoints, call' = call, pending' = pending, wire' = wire
    PROVE  Tame'
<1> DEFINE E2 == endpoints'
           K2 == call'
           P2 == pending'
           W2 == wire'
<1>1. E2 = endpoints /\ K2 = call /\ P2 = pending /\ W2 = wire
  OBVIOUS
<1>2. QueuesRemain(endpoints, endpoints) /\ CallsRemain(call, call)
      /\ PendingRemains(endpoints, pending, pending) /\ WiresCome(GuardedNow, wire, wire)
  BY Unmoved DEF Onwards
<1> HIDE DEF E2, K2, P2, W2
<1>3. QueuesRemain(endpoints, E2) /\ CallsRemain(call, K2)
      /\ PendingRemains(E2, pending, P2) /\ WiresCome(GuardedNow, wire, W2)
  BY <1>1, <1>2
<1> QED BY <1>3, QuietStep DEF Onwards, E2, K2, P2, W2

\* New endpoints have nothing queued.
LEMMA NewPipeRemains ==
    ASSUME IndInv, PlaceInv, NEW n \in Nodes, CreatePipe(n)
    PROVE  QueuesRemain(endpoints, endpoints')
<1> DEFINE E2 == endpoints'
           new == {<<pipes', 1, 0>>, <<pipes', 2, 0>>}
<1>1. /\ \A m \in Nodes : m # n => E2[m] = endpoints[m]
      /\ DOMAIN E2[n] = DOMAIN endpoints[n] \cup new
      /\ \A x \in DOMAIN endpoints[n] : E2[n][x] = endpoints[n][x]
      /\ \A x \in new : E2[n][x].queue = << >>
  BY NewPipeFacts
<1> HIDE DEF E2, new
<1>2. QueuesRemain(endpoints, E2)
  BY <1>1 DEF QueuesRemain
<1> QED BY <1>2 DEF E2

LEMMA CreateMessagePipesTame ==
    ASSUME Onwards, NEW n \in Nodes, NEW t \in Threads, CreateMessagePipes(n, t)
    PROVE  Tame'
<1> DEFINE E2 == endpoints'
<1>1. CreatePipe(n) /\ call' = call /\ pending' = pending /\ wire' = wire
  BY DEF CreateMessagePipes
<1>2. QueuesRemain(endpoints, E2)
  BY <1>1, NewPipeRemains DEF Onwards
<1>3. \A k \in Nodes : DOMAIN endpoints[k] \subseteq DOMAIN E2[k]
  BY DEF Onwards, Grown
<1>4. CallsRemain(call, call') /\ PendingRemains(E2, pending, pending') /\ WiresCome(GuardedNow, wire, wire')
  <2> HIDE DEF E2
  <2>1. CallsRemain(call, call) /\ PendingRemains(E2, pending, pending) /\ WiresCome(GuardedNow, wire, wire)
    BY <1>3, Unmoved DEF Onwards
  <2> QED BY <1>1, <2>1
<1> QED BY <1>2, <1>4, QuietStep DEF Onwards

LEMMA SendInvitationTame ==
    ASSUME Onwards, NEW n \in Nodes, NEW t \in Threads, NEW m \in Nodes, SendInvitation(n, t, m)
    PROVE  Tame'
<1> DEFINE E2 == endpoints'
           P2 == pending'
           W2 == wire'
           x == <<pipes', 2, 0>>
           msg == [type |-> "INVITE", inviter |-> n, temporary |-> Temporary(m),
                   peer |-> <<pipes', 1, 0>>]
           Q == Traffic(endpoints, names, channels, pending, n, m)
<1>1. /\ CreatePipe(n) /\ call' = call
      /\ pending' = [pending EXCEPT ![n] = Insert(@, Temporary(m), x)]
      /\ wire' = [wire EXCEPT ![n][m] = Append(@, msg)]
  BY DEF SendInvitation
<1>2. QueuesRemain(endpoints, E2)
  BY <1>1, NewPipeRemains DEF Onwards
<1>3. CallsRemain(call, call')
  BY <1>1, Unmoved DEF Onwards
<1>4. x \in DOMAIN E2[n] /\ E2[n][x].queue = << >>
  BY <1>1, NewPipeFacts DEF Onwards
<1>5. /\ DOMAIN pending = Nodes /\ DOMAIN wire = Nodes /\ \A k \in Nodes : DOMAIN wire[k] = Nodes
      /\ wire[n][m] \in Seq(Q)
  BY WireIsSeq DEF Onwards, IndInv, PendingSound, WiresSound
<1>6. \A k \in Nodes : \A l \in DOMAIN pending[k] : pending[k][l] \in DOMAIN E2[k]
  BY DEF Onwards, PlaceInv, PendingReady, Grown
<1>7. WireTame(GuardedNow, msg)
  BY DEF WireTame
<1> HIDE DEF E2, P2, W2, x, msg, Q
<1>8. \A k \in Nodes : \A l \in DOMAIN P2[k] :
          (l \in DOMAIN pending[k] /\ P2[k][l] = pending[k][l]) \/ (k = n /\ P2[k][l] = x)
  BY <1>1, <1>5 DEF Insert, InsertAll, P2
<1>9. PendingRemains(E2, pending, P2)
  BY <1>4, <1>6, <1>8 DEF PendingRemains
<1>10. Wrote(wire, W2, Q, n, m, msg)
  BY <1>1, <1>5 DEF Wrote, W2
<1>11. WiresCome(GuardedNow, wire, W2)
  BY <1>7, <1>10, WroteTame
<1> QED BY <1>2, <1>3, <1>9, <1>11, QuietStep DEF Onwards, E2, P2, W2

LEMMA OnReceivedInvitationTame ==
    ASSUME Onwards, NEW n \in Nodes, NEW m \in Nodes, OnReceivedInvitation(n, m)
    PROVE  Tame'
<1> DEFINE E2 == endpoints'
           W2 == wire'
<1>0. IndInv /\ PlaceInv /\ \A k \in Nodes : DOMAIN endpoints[k] \subseteq DOMAIN E2[k]
  BY DEF Onwards, Grown
<1>1. PICK msg, end, x, W1, Q1, Q2 :
          msg = Head(wire[m][n]) /\ Invited(n, m, msg, end, x, W1, Q1, Q2)
  BY <1>0, InvitedFacts
<1> DEFINE answer == [type |-> "ACCEPT", temporary |-> Temporary(n), node |-> n, ep |-> x]
<1>2. HasRead(wire, W1, Q1, m, n) /\ Wrote(W1, W2, Q2, n, m, answer)
  BY <1>1 DEF Invited
<1>3. /\ \A k \in Nodes : k # n => E2[k] = endpoints[k]
      /\ DOMAIN E2[n] = DOMAIN endpoints[n] \cup {x} /\ E2[n][x].queue = << >>
      /\ \A y \in DOMAIN endpoints[n] : E2[n][y] = endpoints[n][y]
  BY <1>1 DEF Invited
<1>4. call' = call /\ pending' = pending
  BY DEF OnReceivedInvitation
<1>5. WireTame(GuardedNow, answer)
  BY DEF WireTame
<1> HIDE DEF E2, W2, answer
<1>6. QueuesRemain(endpoints, E2)
  BY <1>3 DEF QueuesRemain
<1>7. CallsRemain(call, call') /\ PendingRemains(E2, pending, pending')
  <2>1. CallsRemain(call, call) /\ PendingRemains(E2, pending, pending)
    BY <1>0, Unmoved
  <2> QED BY <1>4, <2>1
<1>8. WiresCome(GuardedNow, wire, W2)
  <2>1. Remains(wire, W1)
    BY <1>2, ReadFacts
  <2>2. WiresCome(GuardedNow, W1, W2)
    BY <1>2, <1>5, WroteTame
  <2> QED BY <2>1, <2>2, ReadTame
<1> QED BY <1>6, <1>7, <1>8, QuietStep DEF Onwards, E2, W2

LEMMA FlushDoneTame ==
    ASSUME Onwards, NEW n \in Nodes, NEW t \in AllThreads, FlushDone(n, t)
    PROVE  Tame'
<1> DEFINE K2 == call'
<1>1. /\ call' = [call EXCEPT ![n][t] = Idle]
      /\ endpoints' = endpoints /\ pending' = pending /\ wire' = wire
  BY DEF FlushDone
<1>2. DOMAIN call = Nodes /\ \A k \in Nodes : DOMAIN call[k] = AllThreads
  BY DEF Onwards, IndInv, CallsSound
<1>3. K2 = [call EXCEPT ![n][t] = Idle] /\ Idle.msgs = << >>
  BY <1>1 DEF Idle
<1> HIDE DEF K2
<1>4. \A k \in Nodes : \A u \in AllThreads : K2[k][u] = call[k][u] \/ K2[k][u].msgs = << >>
  BY <1>2, <1>3
<1>5. CallsRemain(call, K2)
  <2> SUFFICES ASSUME NEW k \in Nodes, NEW u \in AllThreads, NEW i \in DOMAIN K2[k][u].msgs
               PROVE  \E j \in DOMAIN call[k][u].msgs : K2[k][u].msgs[i] = call[k][u].msgs[j]
    BY DEF CallsRemain
  <2>1. K2[k][u] = call[k][u] \/ K2[k][u].msgs = << >>
    BY <1>4
  <2>2. K2[k][u] = call[k][u]
    BY <2>1
  <2> QED BY <2>2
<1>6. QueuesRemain(endpoints, endpoints') /\ PendingRemains(endpoints', pending, pending')
      /\ WiresCome(GuardedNow, wire, wire')
  <2>1. QueuesRemain(endpoints, endpoints) /\ PendingRemains(endpoints, pending, pending)
        /\ WiresCome(GuardedNow, wire, wire)
    BY Unmoved DEF Onwards
  <2> QED BY <1>1, <2>1
<1> QED BY <1>5, <1>6, QuietStep DEF Onwards, K2

LEMMA BindTame ==
    ASSUME Onwards, NEW n \in Nodes, NEW t \in Threads, NEW x \in held[n], Bind(n, t, x)
    PROVE  Tame'
<1> DEFINE E2 == endpoints'
<1>0. IndInv /\ PlaceInv /\ \A k \in Nodes : DOMAIN endpoints[k] \subseteq DOMAIN E2[k]
  BY DEF Onwards, Grown
<1>1. call' = call /\ pending' = pending /\ wire' = wire
  BY DEF Bind
<1>2. PICK q : Bound(n, t, x, q)
  BY <1>0, BoundFacts
<1>3. /\ \A l \in Nodes : l # n => E2[l] = endpoints[l]
      /\ DOMAIN E2[n] = DOMAIN endpoints[n] /\ E2[n][x].queue = << >>
      /\ \A y \in DOMAIN endpoints[n] : y # x => E2[n][y] = endpoints[n][y]
  BY <1>2 DEF Bound
<1> HIDE DEF E2
<1>4. QueuesRemain(endpoints, E2)
  BY <1>3 DEF QueuesRemain
<1>5. CallsRemain(call, call') /\ PendingRemains(E2, pending, pending')
      /\ WiresCome(GuardedNow, wire, wire')
  <2>1. CallsRemain(call, call) /\ PendingRemains(E2, pending, pending)
        /\ WiresCome(GuardedNow, wire, wire)
    BY <1>0, Unmoved
  <2> QED BY <1>1, <2>1
<1> QED BY <1>4, <1>5, QuietStep DEF Onwards, E2

LEMMA NoneIfNoIndex ==
    ASSUME NEW S, NEW s \in Seq(S), DOMAIN s = {}
    PROVE  s = << >>
<1>1. DOMAIN s = 1..Len(s) /\ Len(s) \in Nat
  OBVIOUS
<1>2. Len(s) = 0
  <2> SUFFICES ASSUME Len(s) # 0 PROVE FALSE
    OBVIOUS
  <2>1. 1 \in 1..Len(s)
    BY <1>1
  <2> QED BY <1>1, <2>1
<1> QED BY <1>2, EmptySeq

LEMMA ForwardUserMessageTame ==
    ASSUME Onwards, NEW n \in Nodes, NEW m \in Nodes, ForwardUserMessage(n, m)
    PROVE  Tame'
<1> DEFINE E2 == endpoints'
           W2 == wire'
<1>0. IndInv /\ PlaceInv /\ \A k \in Nodes : DOMAIN endpoints[k] \subseteq DOMAIN E2[k]
  BY DEF Onwards, Grown
<1>1. PICK k, msg, mail, E1, W1, Q1, Q2 :
          msg = Head(wire[m][n]) /\ Forwarded(n, m, k, msg, mail, E1, W1, Q1, Q2)
  BY <1>0, ForwardedFacts
<1>2. /\ Arrived(n, m, msg, E1, W1, Q1) /\ MovedOn(E1, E2, n, mail, k)
      /\ Wrote(W1, W2, Q2, n, k, mail) /\ k \in Nodes
      /\ mail.type = "USER" /\ mail.id = msg.id /\ DOMAIN mail.descs = DOMAIN msg.descs
      /\ \A i \in DOMAIN msg.descs : mail.descs[i].name = msg.descs[i].cross
  BY <1>1 DEF Forwarded
<1>3. call' = call /\ pending' = pending
  BY ZenonT(30) DEF ForwardUserMessage
<1>4. RoutedOn(wire) /\ RoutedOn(W2)
  BY WiresRoute DEF Onwards, IndInv
<1>5. AllTame(endpoints, call, wire, pending, carriers, GuardedNow)
  BY DEF Onwards, Tame, GuardedNow
<1> HIDE DEF E2, W2
<1>6. QueuesRemain(endpoints, E2)
  <2>1. /\ \A l \in Nodes : l # n => E1[l] = endpoints[l]
        /\ DOMAIN E1[n] = DOMAIN endpoints[n] \cup {d.cross : d \in ToSet(msg.descs)}
        /\ \A y \in DOMAIN endpoints[n] : E1[n][y] = endpoints[n][y]
    BY <1>2 DEF Arrived
  <2>2. /\ \A l \in Nodes : l # n => E2[l] = E1[l]
        /\ DOMAIN E2[n] = DOMAIN E1[n]
        /\ \A y \in DOMAIN E1[n] : (\A d \in ToSet(mail.descs) : d.name # y) => E2[n][y] = E1[n][y]
        /\ \A d \in ToSet(mail.descs) : E2[n][d.name].queue = << >>
    BY <1>2 DEF MovedOn
  <2>3. \A d \in ToSet(msg.descs) : \E c \in ToSet(mail.descs) : c.name = d.cross
    BY <1>2 DEF ToSet
  <2> SUFFICES ASSUME NEW l \in Nodes, NEW y \in DOMAIN E2[l], NEW i \in DOMAIN E2[l][y].queue
               PROVE  y \in DOMAIN endpoints[l] /\ \E j \in DOMAIN endpoints[l][y].queue :
                          E2[l][y].queue[i] = endpoints[l][y].queue[j]
    BY DEF QueuesRemain
  <2>4. CASE l # n
    BY <2>1, <2>2, <2>4
  <2>5. CASE l = n
    <3>1. \A d \in ToSet(mail.descs) : d.name # y
      BY <2>2, <2>5
    <3>2. E2[n][y] = E1[n][y] /\ y \in DOMAIN endpoints[n]
      BY <2>1, <2>2, <2>3, <2>5, <3>1
    <3> QED BY <2>1, <2>5, <3>2
  <2> QED BY <2>4, <2>5
<1>7. CallsRemain(call, call') /\ PendingRemains(E2, pending, pending')
  <2>1. CallsRemain(call, call) /\ PendingRemains(E2, pending, pending)
    BY <1>0, Unmoved
  <2> QED BY <1>3, <2>1
<1>8. WireTame(GuardedNow, mail)
  <2>1. HasRead(wire, W1, Q1, m, n) /\ msg.type = "USER"
    BY <1>2 DEF Arrived
  <2>2. 1 \in DOMAIN wire[m][n] /\ wire[m][n][1] = msg
    BY <1>1, <2>1, ReadFirst
  <2>3. WireTame(GuardedNow, msg) /\ EndOf(msg.target) = Partner(EndOf(msg.id))
    BY <1>4, <1>5, <2>1, <2>2 DEF AllTame, WiresTame, RoutedOn
  <2>4. \E i \in DOMAIN W2[n][k] : W2[n][k][i] = mail
    <3>1. W1[n][k] \in Seq(Q2) /\ Append(W1[n][k], mail) = W2[n][k]
      BY <1>2 DEF Wrote
    <3>2. Len(W1[n][k]) + 1 \in DOMAIN W2[n][k] /\ W2[n][k][Len(W1[n][k]) + 1] = mail
      BY <3>1
    <3> QED BY <3>2
  <2>5. EndOf(mail.target) = Partner(EndOf(mail.id))
    BY <1>2, <1>4, <2>4 DEF RoutedOn
  <2>6. mail.descs # << >> => msg.descs # << >>
    <3>1. ASSUME msg.descs = << >> PROVE mail.descs = << >>
      <4>1. PICK S : mail.descs \in Seq(S)
        <5>1. \A q \in Nodes, r \in Nodes : W2[q][r] \in Seq(Traffic(endpoints', names', channels', pending', q, r))
          BY WireIsSeq DEF Onwards, IndInv, W2
        <5>2. mail \in Traffic(endpoints', names', channels', pending', n, k)
          BY <1>2, <2>4, <5>1
        <5> QED BY <1>2, <5>2 DEF Traffic, RoutedMail, Mail, Invites, Accepts
      <4>2. DOMAIN mail.descs = {}
        BY <1>2, <3>1
      <4> QED BY <4>1, <4>2, NoneIfNoIndex
    <3> QED BY <3>1
  <2> QED BY <1>2, <2>1, <2>3, <2>5, <2>6 DEF WireTame
<1>9. WiresCome(GuardedNow, wire, W2)
  <2>1. Remains(wire, W1)
    BY <1>2, ReadFacts DEF Arrived
  <2>2. WiresCome(GuardedNow, W1, W2)
    BY <1>2, <1>8, WroteTame
  <2> QED BY <2>1, <2>2, ReadTame
<1> QED BY <1>6, <1>7, <1>9, QuietStep DEF Onwards, E2, W2

-----------------------------------------------------------------------------
(* The steps that queue messages, in calls or on endpoints.                  *)
LEMMA BusyStep ==
    ASSUME Onwards, NEW X, FewPins(endpoints, call, endpoints', call', X),
           MayPin(X, carriers, moves, moves'),
           CallsCome(endpoints', GuardedNow', call, call'), WiresCome(GuardedNow', wire, wire'),
           QueuesCome(endpoints, endpoints', carriers', GuardedNow'),
           ReservedCome(endpoints, pending, endpoints', pending', GuardedNow')
    PROVE  Tame'
<1> DEFINE E2 == endpoints'
           K2 == call'
           P2 == pending'
           W2 == wire'
           R2 == carriers'
           G2 == GuardedNow'
<1>1. GuardedNow \subseteq G2 /\ PinsMoved(endpoints', call', moves')
  BY GuardsStay DEF Onwards
<1>2. carriers \subseteq R2 /\ \A n \in Nodes : DOMAIN endpoints[n] \subseteq DOMAIN E2[n]
  BY DEF Onwards, CarryMore, Grown
<1>3. AllTame(endpoints, call, wire, pending, carriers, GuardedNow)
  BY DEF Onwards, Tame, GuardedNow
<1>4. /\ QueuesCome(endpoints, E2, R2, G2) /\ ReservedCome(endpoints, pending, E2, P2, G2)
      /\ CallsCome(E2, G2, call, K2) /\ WiresCome(G2, wire, W2)
  OBVIOUS
<1> HIDE DEF E2, K2, P2, W2, R2, G2
<1>5. AllTame(E2, K2, W2, P2, R2, G2)
  BY <1>1, <1>2, <1>3, <1>4, TameStays
<1> QED BY <1>1, <1>5 DEF Tame, GuardedNow, E2, K2, P2, W2, R2, G2

\* What a message carries is what there is to know of it.
LEMMA OwnDescs ==
    ASSUME NEW E, NEW n, NEW msg, NEW msg2, msg2.descs = msg.descs
    PROVE  /\ Own(E, n, msg2) <=> Own(E, n, msg)
           /\ msg.descs = << >> => Own(E, n, msg)
  BY DEF Own, ToSet

\* What is retargeted has the new target.
LEMMA NewTarget ==
    ASSUME NEW E, NEW N, NEW q \in Seq(Mail(E, N)), NEW y, NEW i \in DOMAIN q
    PROVE  Retarget(q, y)[i].target = y
<1>1. q[i] \in Mail(E, N)
  OBVIOUS
<1>2. [q[i] EXCEPT !.target = y].target = y
  BY <1>1 DEF Mail
<1>3. Retarget(q, y)[i] = [q[i] EXCEPT !.target = y]
  BY DEF Retarget
<1> QED BY <1>2, <1>3

LEMMA OnReceivedAcceptInvitationTame ==
    ASSUME Onwards, NEW n \in Nodes, NEW m \in Nodes, OnReceivedAcceptInvitation(n, m)
    PROVE  Tame'
<1> DEFINE E2 == endpoints'
           K2 == call'
           P2 == pending'
           W2 == wire'
           G2 == GuardedNow'
           R2 == carriers'
<1>0. IndInv /\ PlaceInv /\ \A k \in Nodes : DOMAIN endpoints[k] \subseteq DOMAIN E2[k]
  BY DEF Onwards, Grown
<1>1. PICK msg, k, x, Q1 : msg = Head(wire[m][n]) /\ Answered(n, m, msg, k, x, Q1)
  BY <1>0, AnsweredFacts
<1> DEFINE q == endpoints[n][x].queue
<1>2. /\ \A l \in Nodes : l # n => E2[l] = endpoints[l]
      /\ DOMAIN E2[n] = DOMAIN endpoints[n] /\ x \in DOMAIN endpoints[n]
      /\ E2[n][x].queue = << >>
      /\ \A y \in DOMAIN endpoints[n] : y # x => E2[n][y] = endpoints[n][y]
      /\ \A l \in Nodes : l # n => P2[l] = pending[l]
      /\ DOMAIN P2[n] = DOMAIN pending[n] \ {k}
      /\ \A l \in DOMAIN P2[n] : P2[n][l] = pending[n][l]
      /\ HasRead(wire, W2, Q1, m, n)
      /\ K2[n][IO].msgs = Retarget(q, msg.ep)
      /\ \A l \in Nodes : \A u \in AllThreads : l # n \/ u # IO => K2[l][u] = call[l][u]
      /\ k \in DOMAIN pending[n] /\ x = pending[n][k] /\ k = Temporary(m)
      /\ msg.type = "ACCEPT"
  BY <1>1 DEF Answered
<1>3. EndOf(msg.ep) = EndOf(x)
  <2>1. 1 \in DOMAIN wire[m][n] /\ wire[m][n][1] = msg
    BY <1>1, <1>2, ReadFirst
  <2>2. wire[m][n] \in Seq(Traffic(endpoints, names, channels, pending, m, n))
    BY <1>0, WireIsSeq DEF IndInv
  <2>3. msg \in Traffic(endpoints, names, channels, pending, m, n)
    BY <2>1, <2>2
  <2> QED BY <1>2, <2>3 DEF Traffic, RoutedMail, Mail, Invites, Accepts, PendingFor
<1>4. PICK S : q \in Seq(Mail(endpoints, S))
  <2>1. endpoints[n][x] \in SoundEndpoints(endpoints, names, n, x)
    BY <1>0, <1>2, EndpointFacts
  <2>2. q \in Seq(QueuedMail(endpoints, names, n, EndOf(x)))
    BY <2>1 DEF SoundEndpoints
  <2>3. QueuedMail(endpoints, names, n, EndOf(x)) \subseteq Mail(endpoints, names)
    BY DEF QueuedMail
  <2> QED BY <2>2, <2>3
<1>5. /\ DOMAIN K2[n][IO].msgs = DOMAIN q
      /\ \A i \in DOMAIN q : K2[n][IO].msgs[i].descs = q[i].descs
  BY <1>2, <1>4, SameMarks
<1>6. \A i \in DOMAIN q : K2[n][IO].msgs[i].target = msg.ep
  <2>1. K2[n][IO].msgs = Retarget(q, msg.ep)
    BY <1>2
  <2> HIDE DEF q, K2
  <2> QED BY <1>4, <2>1, NewTarget
<1>7. AllTame(endpoints, call, wire, pending, carriers, GuardedNow)
  BY DEF Onwards, Tame, GuardedNow
<1> HIDE DEF E2, K2, P2, W2, G2, R2
<1>8. QueuesRemain(endpoints, E2)
  BY <1>2 DEF QueuesRemain
<1>9. PendingRemains(E2, pending, P2)
  <2>1. \A l \in Nodes : \A j \in DOMAIN pending[l] : pending[l][j] \in DOMAIN endpoints[l]
    BY <1>0 DEF PlaceInv, PendingReady
  <2>2. \A l \in Nodes : \A j \in DOMAIN P2[l] : j \in DOMAIN pending[l] /\ P2[l][j] = pending[l][j]
    BY <1>2
  <2> QED BY <1>0, <2>1, <2>2 DEF PendingRemains
<1>10. QueuesCome(endpoints, E2, R2, G2) /\ ReservedCome(endpoints, pending, E2, P2, G2)
  BY <1>8, <1>9, RemainingCome
<1>11. FewPins(endpoints, call, E2, K2, {})
  <2>1. ASSUME NEW l \in Nodes, NEW descs, IsWaiting(E2, K2, l, descs)
        PROVE  IsWaiting(endpoints, call, l, descs)
    <3>1. ASSUME NEW y \in DOMAIN E2[l], NEW i \in DOMAIN E2[l][y].queue,
                 E2[l][y].queue[i].descs = descs
          PROVE  IsWaiting(endpoints, call, l, descs)
      BY <1>8, <3>1 DEF IsWaiting, QueuesRemain
    <3>2. ASSUME NEW u \in AllThreads, NEW i \in DOMAIN K2[l][u].msgs, K2[l][u].msgs[i].descs = descs
          PROVE  IsWaiting(endpoints, call, l, descs)
      <4>1. CASE l # n \/ u # IO
        BY <1>2, <3>2, <4>1 DEF IsWaiting
      <4>2. CASE l = n /\ u = IO
        BY <1>2, <1>5, <3>2, <4>2 DEF IsWaiting
      <4> QED BY <4>1, <4>2
    <3> QED BY <2>1, <3>1, <3>2 DEF IsWaiting
  <2> QED BY <2>1 DEF FewPins
<1>12. MayPin({}, carriers, moves, moves')
  BY DEF MayPin
<1>13. GuardedNow \subseteq G2
  BY <1>11, <1>12, GuardsStay DEF Onwards, E2, K2, G2
<1>14. CallsCome(E2, G2, call, K2)
  <2> SUFFICES ASSUME NEW i \in DOMAIN q
               PROVE  CallTame(E2, G2, n, K2[n][IO].msgs[i])
    BY <1>2, <1>5 DEF CallsCome
  <2>1. ReservedTame(endpoints, GuardedNow, n, x, q[i])
    BY <1>2, <1>7 DEF AllTame, AllReservedTame
  <2>2. Own(endpoints, n, q[i]) /\ (q[i].descs # << >> => EndOf(x) \in G2)
    BY <1>13, <2>1, OwnDescs DEF ReservedTame
  <2>3. Own(E2, n, K2[n][IO].msgs[i])
    BY <1>0, <1>5, <2>2 DEF Own
  <2> QED BY <1>3, <1>5, <1>6, <2>2, <2>3 DEF CallTame
<1>15. WiresCome(G2, wire, W2)
  <2>1. Remains(wire, W2)
    BY <1>2, ReadFacts
  <2> QED BY <2>1 DEF WiresCome, Remains
<1> QED BY <1>10, <1>11, <1>12, <1>14, <1>15, BusyStep DEF E2, K2, P2, W2, G2, R2

-----------------------------------------------------------------------------
(* A send of handles.  The end of the pipe that they travel to is guarded.   *)

\* What waits is sound.
LEMMA WaitingCarried ==
    ASSUME IndInv, NEW n \in Nodes, NEW descs, IsWaiting(endpoints, call, n, descs)
    PROVE  ToSet(descs) \subseteq Carried(endpoints, names)
<1>1. \A msg \in Mail(endpoints, names) : ToSet(msg.descs) \subseteq Carried(endpoints, names)
  BY ToSetFacts DEF Mail
<1>2. ASSUME NEW x \in DOMAIN endpoints[n], NEW i \in DOMAIN endpoints[n][x].queue
      PROVE  endpoints[n][x].queue[i] \in Mail(endpoints, names)
  <2>1. endpoints[n][x] \in SoundEndpoints(endpoints, names, n, x)
    BY EndpointFacts
  <2>2. endpoints[n][x].queue \in Seq(QueuedMail(endpoints, names, n, EndOf(x)))
    BY <2>1 DEF SoundEndpoints
  <2> QED BY <2>2 DEF QueuedMail
<1>3. ASSUME NEW t \in AllThreads, NEW i \in DOMAIN call[n][t].msgs
      PROVE  call[n][t].msgs[i] \in Mail(endpoints, names)
  <2>1. call[n][t] \in Calls(endpoints, names, wire, n)
    BY DEF IndInv, CallsSound
  <2>2. call[n][t].msgs \in Seq(RoutedMail(endpoints, names))
    BY <2>1 DEF Calls
  <2> QED BY <2>2 DEF RoutedMail
<1> QED BY <1>1, <1>2, <1>3 DEF IsWaiting

\* What a proxy leads to has been named.
LEMMA ReachedGiven ==
    ASSUME IndInv, NEW n \in Nodes, NEW a, a.node \in Nodes, Reaches(endpoints, wire, n, a)
    PROVE  a.ep \in Given(names)
<1>1. CASE a.ep \in DOMAIN endpoints[a.node]
  BY <1>1, EndpointFacts
<1>2. CASE \E i \in DOMAIN wire[n][a.node] : Carries(wire[n][a.node][i], a.ep)
  <2>1. PICK i \in DOMAIN wire[n][a.node] : Carries(wire[n][a.node][i], a.ep)
    BY <1>2
  <2> DEFINE msg == wire[n][a.node][i]
  <2>2. wire[n][a.node] \in Seq(Traffic(endpoints, names, channels, pending, n, a.node))
    BY WireIsSeq DEF IndInv
  <2>3. msg \in Traffic(endpoints, names, channels, pending, n, a.node)
    BY <2>2
  <2>4. msg.type = "USER" /\ \E d \in ToSet(msg.descs) : d.cross = a.ep
    BY <2>1 DEF Carries
  <2> HIDE DEF msg
  <2>5. msg.descs \in Seq(Carried(endpoints, names))
    BY <2>3, <2>4 DEF Traffic, RoutedMail, Mail, Invites, Accepts
  <2>6. \A d \in ToSet(msg.descs) : d.cross \in Given(names)
    BY <2>5, ToSetFacts DEF Carried
  <2> QED BY <2>4, <2>6
<1> QED BY <1>1, <1>2 DEF Reaches, Leads

\* If an end of a pipe has one name, the endpoint with it was made here.
LEMMA NamedOnce ==
    ASSUME IndInv, NEW x \in Given(names), names[EndOf(x)] <= 1
    PROVE  x[3] = 0
<1>1. x \in Names /\ x[3] < names[EndOf(x)] /\ EndOf(x) \in Ends
  BY EndsFit DEF Given
<1>2. x[3] \in Nat /\ names[EndOf(x)] \in Nat
  BY <1>1 DEF Names, IndInv, NamesSound
<1> QED BY <1>1, <1>2

\* The peer of an endpoint whose end has one name: it was made with it.
LEMMA MadeHere ==
    ASSUME IndInv, Naming, NEW n \in Nodes, NEW c \in DOMAIN endpoints[n], names[EndOf(c)] <= 1,
           NEW y, y = endpoints[n][c].peer.ep
    PROVE  /\ y \in DOMAIN endpoints[n] /\ y[3] = 0 /\ EndOf(y) = Partner(EndOf(c))
           /\ y \in Names /\ y[1] = c[1]
<1>1. c \in Given(names) /\ endpoints[n][c] \in SoundEndpoints(endpoints, names, n, c)
  BY EndpointFacts
<1>2. c[3] = 0
  BY <1>1, NamedOnce
<1>3. endpoints[n][c].peer.node = n /\ y[3] = 0
  BY <1>2 DEF Naming, BornTogether
<1>4. y \in DOMAIN endpoints[n]
  BY <1>3, PeersAreNodes
<1>5. EndOf(y) = Partner(EndOf(c))
  BY <1>1 DEF SoundEndpoints, Peers
<1>6. y \in Names
  BY <1>4, EndpointFacts
<1>7. y[1] = c[1]
  BY <1>5 DEF EndOf, Partner
<1> QED BY <1>3, <1>4, <1>5, <1>6, <1>7

LEMMA CarryGuards ==
    ASSUME Onwards, ~Reforward, NEW n \in Nodes, NEW t, NEW c \in held[n],
           NEW hs \in HandleLists(n, c), Sends(n, t, c, hs), hs # << >>,
           NEW y, y = endpoints[n][c].peer.ep, ~Available(endpoints, pending, n, y)
    PROVE  moves[c[1]] # 0 /\ Still(endpoints, call, Partner(EndOf(c)))
<1> DEFINE p == c[1]
           e == Partner(EndOf(c))
<1>1. IndInv /\ PlaceInv /\ Naming /\ Tame
  BY DEF Onwards
<1>2. c \in DOMAIN endpoints[n] /\ c \in Names /\ EndOf(c) \in Ends
  BY <1>1, EndpointFacts DEF IndInv, HeldSound
<1>3. e \in Ends /\ e[1] = p /\ p \in 1..MaxPipes /\ Partner(e) = EndOf(c) /\ EndOf(c)[1] = p
  BY <1>2, EndsFit DEF Ends, EndOf, Names, Partner
<1>4. moves[p] \in Nat /\ names[e] \in Nat /\ names[EndOf(c)] \in Nat
  BY <1>1, <1>2, <1>3 DEF IndInv, CountersSound, NamesSound
<1>5. moves[p] <= 1 \/ Settled(p)
  BY DEF Sends, MayCarry
<1>6. /\ moves[p] = 0 => names[e] <= 1 /\ names[EndOf(c)] <= 1
      /\ moves[p] = 1 => names[e] <= 1 \/ names[EndOf(c)] <= 1
  BY <1>1, <1>2, <1>3 DEF Naming, MovesNamed
<1> HIDE DEF p, e
<1>7. CASE Settled(p) /\ moves[p] # 0
  <2> SUFFICES ASSUME NEW m \in Nodes, NEW x \in DOMAIN endpoints[m], EndOf(x) = e,
                      Pinned(endpoints, call, m, x)
               PROVE  FALSE
    BY <1>7 DEF Still, p, e
  <2>1. PICK descs : IsWaiting(endpoints, call, m, descs) /\ \E d \in ToSet(descs) : d.name = x
    BY DEF Pinned
  <2>2. x[1] = p
    BY <1>3 DEF EndOf
  <2>3. ASSUME NEW z \in DOMAIN endpoints[m], NEW i \in DOMAIN endpoints[m][z].queue,
               endpoints[m][z].queue[i].descs = descs
        PROVE  \A d \in ToSet(descs) : d.name[1] # p
    BY <1>7, <2>3 DEF Settled, ToSet, Local
  <2>4. ASSUME NEW u \in AllThreads, NEW i \in DOMAIN call[m][u].msgs,
               call[m][u].msgs[i].descs = descs
        PROVE  \A d \in ToSet(descs) : d.name[1] # p
    BY <1>7, <2>4 DEF Settled, ToSet
  <2> QED BY <2>1, <2>2, <2>3, <2>4 DEF IsWaiting
<1>8. CASE moves[p] = 1
  <2> SUFFICES ASSUME NEW m \in Nodes, NEW x \in DOMAIN endpoints[m], EndOf(x) = e,
                      Pinned(endpoints, call, m, x)
               PROVE  FALSE
    BY <1>8 DEF Still, p, e
  <2>1. PICK descs : IsWaiting(endpoints, call, m, descs) /\ \E d \in ToSet(descs) : d.name = x
    BY DEF Pinned
  <2>2. x \in Given(names) /\ x \in Names /\ x[1] = p
    BY <1>1, <1>3, EndpointFacts DEF EndOf
  <2>3. x[3] = 0
    BY <1>1, <1>8, <2>2 DEF Tame, PinsMoved
  <2>4. names[e] > 1
    <3>1. PICK d \in ToSet(descs) : d.name = x
      BY <2>1
    <3>2. d \in Carried(endpoints, names)
      BY <1>1, <2>1, <3>1, WaitingCarried
    <3>3. d.cross \in Given(names) /\ EndOf(d.cross) = e /\ d.cross[3] # 0
      BY <3>1, <3>2, CarriedLater DEF Carried
    <3> QED BY <1>1, <1>4, <3>3, NamedOnce
  <2>5. names[EndOf(c)] <= 1
    BY <1>4, <1>6, <1>8, <2>4
  <2>6. y \in DOMAIN endpoints[n] /\ y[3] = 0 /\ EndOf(y) = e /\ y \in Names
    BY <1>1, <1>2, <2>5, MadeHere DEF e
  <2>7. x = y
    BY <2>2, <2>3, <2>6 DEF Names, EndOf
  <2>8. m = n
    BY <1>1, <2>6, <2>7 DEF PlaceInv, NamesApart
  <2>9. Available(endpoints, pending, m, x)
    BY <1>1, PinnedAvailable DEF PlaceInv
  <2> QED BY <2>7, <2>8, <2>9
<1>9. CASE moves[p] = 0
  <2>1. y \in DOMAIN endpoints[n] /\ y[3] = 0 /\ EndOf(y) = e /\ y \in Names /\ y[1] = p
    BY <1>1, <1>2, <1>6, <1>9, MadeHere DEF e, p
  <2>2. ASSUME NEW k \in DOMAIN pending[n], pending[n][k] = y
        PROVE  FALSE
    BY <1>1, <1>9, <2>1, <2>2 DEF Naming, ReservedNamed
  <2>3. endpoints[n][y].state = "proxying"
    BY <2>1, <2>2 DEF Available
  <2> DEFINE a == endpoints[n][y].target
  <2>4. a \in Onward(n, y)
    <3>1. endpoints[n][y] \in SoundEndpoints(endpoints, names, n, y)
      BY <1>1, <2>1, EndpointFacts
    <3> QED BY <2>3, <3>1 DEF SoundEndpoints
  <2>5. Reaches(endpoints, wire, n, a)
    BY <1>1, <2>1, <2>3 DEF IndInv, ProxiesReach
  <2> HIDE DEF a
  <2>6. a.node \in Nodes /\ a.ep \in Names /\ EndOf(a.ep) = e /\ a.ep[3] > y[3]
    BY <2>1, <2>4 DEF Onward, Addresses
  <2>7. a.ep \in Given(names)
    BY <1>1, <2>5, <2>6, ReachedGiven
  <2>8. a.ep[3] = 0
    BY <1>1, <1>6, <1>9, <2>6, <2>7, NamedOnce
  <2> QED BY <2>1, <2>6, <2>8
<1> QED BY <1>4, <1>5, <1>7, <1>8, <1>9 DEF p, e

LEMMA SentPins ==
    ASSUME Onwards, ~Reforward, NEW n \in Nodes, NEW t, NEW c \in held[n],
           NEW hs \in HandleLists(n, c), Sends(n, t, c, hs)
    PROVE  /\ MayPin(ToSet(hs), carriers, moves, moves')
           /\ MayPin(ToSet(hs), carriers', moves, moves')
<1>1. IndInv /\ PlaceInv /\ Naming /\ IndInv'
  BY DEF Onwards
<1>2. carriers' = carriers \cup (IF hs = << >> THEN {} ELSE {c[1]})
  BY DEF Sends
<1>3. \A x \in ToSet(hs) : x \in held[n] /\ x[1] # c[1] /\ (x[1] \notin carriers \/ moves[x[1]] = 0)
  BY <1>1, HandlesSent
<1>4. \A x \in ToSet(hs) : x[1] \in 1..MaxPipes /\ moves'[x[1]] > moves[x[1]]
  BY <1>1, SendNames
<1>5. ASSUME NEW x \in ToSet(hs), x[3] # 0 PROVE moves'[x[1]] > 1
  <2>1. x \in Given(names) /\ EndOf(x) \in Ends /\ EndOf(x)[1] = x[1]
    BY <1>1, <1>3, EndpointFacts DEF IndInv, HeldSound, EndOf
  <2>2. moves[x[1]] # 0
    BY <1>1, <1>5, <2>1, NamedOnce DEF Naming, MovesNamed
  <2>3. moves[x[1]] \in Nat /\ moves'[x[1]] \in Nat
    BY <1>1, <1>4 DEF IndInv, CountersSound
  <2> QED BY <1>4, <2>2, <2>3
<1> QED BY <1>2, <1>3, <1>5 DEF MayPin

LEMMA SentGuards ==
    ASSUME Onwards, ~Reforward, NEW n \in Nodes, NEW t, NEW c \in held[n],
           NEW hs \in HandleLists(n, c), Sends(n, t, c, hs), hs # << >>,
           ~Available(endpoints, pending, n, endpoints[n][c].peer.ep),
           FewPins(endpoints, call, endpoints', call', ToSet(hs))
    PROVE  Partner(EndOf(c)) \in GuardedNow'
<1> DEFINE E2 == endpoints'
           K2 == call'
           R2 == carriers'
           M2 == moves'
           X == ToSet(hs)
           e == Partner(EndOf(c))
<1>1. IndInv /\ PlaceInv /\ IndInv' /\ PlaceInv' /\ Tame
  BY DEF Onwards
<1>2. moves[c[1]] # 0 /\ Still(endpoints, call, e)
  BY CarryGuards
<1>3. c \in Names /\ EndOf(c) \in Ends
  BY <1>1, EndpointFacts DEF IndInv, HeldSound
<1>4. e \in Ends /\ e[1] = c[1]
  BY <1>3, EndsFit DEF EndOf, Partner
<1>5. c[1] \in R2
  BY DEF Sends
<1>6. e \in Guarded(endpoints, call, R2, moves)
  BY <1>2, <1>4, <1>5 DEF Guarded
<1>7. FewPins(endpoints, call, E2, K2, X) /\ MayPin(X, R2, moves, M2)
  BY SentPins
<1>8. NamesApart(E2) /\ \A l \in Nodes : DOMAIN E2[l] \subseteq Names
  BY <1>1 DEF PlaceInv, IndInv, EndpointsSound, Given
<1>9. CarryAndMove(R2, moves, R2, M2)
  BY <1>1 DEF Onwards, IndInv, CountersSound, CarryMore, CarryAndMove
<1>10. \A l \in Nodes : DOMAIN endpoints[l] \subseteq DOMAIN E2[l]
  BY DEF Onwards, Grown
<1>11. /\ QueuesReady(endpoints, pending) /\ CallsReady(endpoints, pending, call)
       /\ PinsMoved(endpoints, call, moves)
  BY <1>1 DEF PlaceInv, Tame
<1> HIDE DEF E2, K2, R2, M2, X, e
<1>12. Guarded(endpoints, call, R2, moves) \subseteq Guarded(E2, K2, R2, M2)
  BY <1>7, <1>8, <1>9, <1>10, <1>11, PinsStay
<1> QED BY <1>6, <1>12 DEF E2, K2, R2, M2, e, GuardedNow

\* A message with handles that a call is to write.
LEMMA CallSentTame ==
    ASSUME Onwards, ~Reforward, NEW n \in Nodes, NEW t \in AllThreads, NEW c \in held[n],
           NEW hs \in HandleLists(n, c), Sends(n, t, c, hs),
           NEW msg, msg.id = NewMessage(n, c, hs).id, msg.descs = NewMessage(n, c, hs).descs,
           EndOf(msg.target) = Partner(EndOf(c)),
           ~Available(endpoints, pending, n, endpoints[n][c].peer.ep),
           NEW new, call' = [call EXCEPT ![n][t] = new], new.msgs = <<msg>>, endpoints' = endpoints
    PROVE  Tame'
<1> DEFINE E2 == endpoints'
           K2 == call'
           P2 == pending'
           W2 == wire'
           G2 == GuardedNow'
           R2 == carriers'
           X == ToSet(hs)
<1>0. IndInv /\ PlaceInv
  BY DEF Onwards
<1>1. E2 = endpoints /\ P2 = pending /\ W2 = wire
  BY DEF Sends
<1>2. /\ DOMAIN msg.descs = DOMAIN hs /\ hs \in Seq(held[n]) /\ ToSet(hs) \subseteq held[n]
      /\ \A d \in ToSet(msg.descs) : d.name \in X
  <2>1. Sent(n, c, hs, msg)
    BY <1>0, SentFacts
  <2> QED BY <2>1 DEF Sent
<1>3. held[n] \subseteq DOMAIN endpoints[n]
  BY <1>0 DEF IndInv, HeldSound
<1>4. DOMAIN call = Nodes /\ \A k \in Nodes : DOMAIN call[k] = AllThreads
  BY <1>0 DEF IndInv, CallsSound
<1>5. K2[n][t].msgs = <<msg>> /\ \A l \in Nodes : \A u \in AllThreads : l # n \/ u # t => K2[l][u] = call[l][u]
  BY <1>4
<1>6. \A i \in DOMAIN K2[n][t].msgs : K2[n][t].msgs[i] = msg
  BY <1>5
<1>7. MayPin(X, carriers, moves, moves')
  BY SentPins
<1> HIDE DEF E2, K2, P2, W2, G2, R2
<1>8. FewPins(endpoints, call, E2, K2, X)
  <2> SUFFICES ASSUME NEW l \in Nodes, NEW descs, IsWaiting(E2, K2, l, descs)
               PROVE  IsWaiting(endpoints, call, l, descs) \/ \A d \in ToSet(descs) : d.name \in X
    BY DEF FewPins
  <2>1. ASSUME NEW y \in DOMAIN E2[l], NEW i \in DOMAIN E2[l][y].queue,
               E2[l][y].queue[i].descs = descs
        PROVE  IsWaiting(endpoints, call, l, descs)
    BY <1>1, <2>1 DEF IsWaiting
  <2>2. ASSUME NEW u \in AllThreads, NEW i \in DOMAIN K2[l][u].msgs, K2[l][u].msgs[i].descs = descs
        PROVE  IsWaiting(endpoints, call, l, descs) \/ \A d \in ToSet(descs) : d.name \in X
    <3>1. CASE l # n \/ u # t
      BY <1>5, <2>2, <3>1 DEF IsWaiting
    <3>2. CASE l = n /\ u = t
      <4>1. descs = msg.descs
        BY <1>6, <2>2, <3>2
      <4> QED BY <1>2, <4>1
    <3> QED BY <3>1, <3>2
  <2> QED BY <2>1, <2>2 DEF IsWaiting
<1>9. CallTame(E2, G2, n, msg)
  <2>1. Own(E2, n, msg)
    BY <1>1, <1>2, <1>3 DEF Own
  <2>2. ASSUME msg.descs # << >> PROVE EndOf(msg.target) \in G2
    <3>1. hs # << >>
      <4>1. msg.descs = [i \in DOMAIN hs |-> Descriptor(n, hs[i])]
        BY DEF NewMessage
      <4>2. [i \in DOMAIN << >> |-> Descriptor(n, << >>[i])] = << >>
        OBVIOUS
      <4> QED BY <2>2, <4>1, <4>2
    <3> QED BY <1>8, <3>1, SentGuards DEF E2, K2, G2
  <2> QED BY <2>1, <2>2 DEF CallTame
<1>10. CallsCome(E2, G2, call, K2)
  <2> SUFFICES ASSUME NEW l \in Nodes, NEW u \in AllThreads, NEW i \in DOMAIN K2[l][u].msgs
               PROVE  \/ CallTame(E2, G2, l, K2[l][u].msgs[i])
                      \/ \E j \in DOMAIN call[l][u].msgs : K2[l][u].msgs[i] = call[l][u].msgs[j]
    BY DEF CallsCome
  <2>1. CASE l # n \/ u # t
    BY <1>5, <2>1
  <2>2. CASE l = n /\ u = t
    BY <1>6, <1>9, <2>2
  <2> QED BY <2>1, <2>2
<1>11. /\ QueuesCome(endpoints, E2, R2, G2) /\ ReservedCome(endpoints, pending, E2, P2, G2)
       /\ WiresCome(G2, wire, W2)
  <2>1. QueuesRemain(endpoints, E2) /\ PendingRemains(E2, pending, P2) /\ WiresCome(G2, wire, W2)
    BY <1>0, <1>1, Unmoved
  <2> QED BY <2>1, RemainingCome
<1> QED BY <1>7, <1>8, <1>10, <1>11, BusyStep DEF E2, K2, P2, W2, G2, R2

LEMMA SendToRemotePeerTame ==
    ASSUME Onwards, ~Reforward, NEW n \in Nodes, NEW t \in Threads, NEW c \in held[n],
           NEW hs \in HandleLists(n, c), SendToRemotePeer(n, t, c, hs)
    PROVE  Tame'
<1> DEFINE msg == NewMessage(n, c, hs)
           y == endpoints[n][c].peer.ep
           new == [op |-> "send", via |-> c, lock |-> NoOne,
                   dest |-> endpoints[n][c].peer.node, msgs |-> <<msg>>]
<1>1. /\ Sends(n, t, c, hs) /\ y \notin DOMAIN endpoints[n]
      /\ call' = [call EXCEPT ![n][t] = new] /\ endpoints' = endpoints
  BY DEF SendToRemotePeer, Local
<1>2. msg.target = y
  BY DEF NewMessage
<1>3. EndOf(y) = Partner(EndOf(c))
  BY SendsFacts, <1>1 DEF Onwards, Peers
<1>4. ~Available(endpoints, pending, n, y)
  BY <1>1 DEF Available
<1>5. new.msgs = <<msg>> /\ t \in AllThreads
  BY DEF AllThreads
<1> HIDE DEF msg, new
<1>6. EndOf(msg.target) = Partner(EndOf(c))
  BY <1>2, <1>3
<1>7. msg.id = NewMessage(n, c, hs).id /\ msg.descs = NewMessage(n, c, hs).descs
  BY DEF msg
<1> QED BY <1>1, <1>4, <1>5, <1>6, <1>7, CallSentTame

LEMMA SendThroughProxyTame ==
    ASSUME Onwards, ~Reforward, NEW n \in Nodes, NEW t \in Threads, NEW c \in held[n],
           NEW hs \in HandleLists(n, c), SendThroughProxy(n, t, c, hs)
    PROVE  Tame'
<1> DEFINE y == endpoints[n][c].peer.ep
           a == endpoints[n][y].target
           msg == [NewMessage(n, c, hs) EXCEPT !.target = a.ep]
           new == [op |-> "send", via |-> c, lock |-> y, dest |-> a.node,
                   msgs |-> Retarget(<<NewMessage(n, c, hs)>>, a.ep)]
<1>1. /\ Sends(n, t, c, hs) /\ y \in DOMAIN endpoints[n] /\ endpoints[n][y].state = "proxying"
      /\ call' = [call EXCEPT ![n][t] = new] /\ endpoints' = endpoints
  BY DEF SendThroughProxy, Local
<1>2. /\ msg.target = a.ep
      /\ msg.id = NewMessage(n, c, hs).id /\ msg.descs = NewMessage(n, c, hs).descs
  BY DEF NewMessage
<1>3. EndOf(y) = Partner(EndOf(c))
  BY SendsFacts, <1>1 DEF Onwards, Peers
<1>4. EndOf(a.ep) = EndOf(y)
  <2>1. endpoints[n][y] \in SoundEndpoints(endpoints, names, n, y)
    BY <1>1, EndpointFacts DEF Onwards
  <2> QED BY <1>1, <2>1 DEF SoundEndpoints, Onward
<1>5. ~Available(endpoints, pending, n, y)
  BY <1>1 DEF Available
<1>6. new.msgs = <<msg>> /\ t \in AllThreads
  BY DEF Retarget, AllThreads
<1> HIDE DEF a, msg, new
<1>7. EndOf(msg.target) = Partner(EndOf(c))
  BY <1>2, <1>3, <1>4
<1>8. /\ Sends(n, t, c, hs) /\ call' = [call EXCEPT ![n][t] = new] /\ endpoints' = endpoints
      /\ msg.id = NewMessage(n, c, hs).id /\ msg.descs = NewMessage(n, c, hs).descs
      /\ ~Available(endpoints, pending, n, endpoints[n][c].peer.ep)
  BY <1>1, <1>2, <1>5
<1> HIDE DEF y
<1> QED BY <1>6, <1>7, <1>8, CallSentTame

\* A message that is accepted is queued on its endpoint, if it is queued.
QueuesAppend(E, E2, n, x, msg) ==
    \A l \in Nodes : \A y \in DOMAIN E2[l] : \A i \in DOMAIN E2[l][y].queue :
        /\ y \in DOMAIN E[l]
        /\ \/ \E j \in DOMAIN E[l][y].queue : E2[l][y].queue[i] = E[l][y].queue[j]
           \/ l = n /\ y = x /\ E2[l][y].queue[i] = msg
LEMMA AcceptedQueues ==
    ASSUME NEW E, NEW E2, NEW T, NEW T2, NEW n \in Nodes, NEW x, NEW msg,
           Accepted(E, E2, T, T2, n, x, msg)
    PROVE  QueuesAppend(E, E2, n, x, msg)
<1> SUFFICES ASSUME NEW l \in Nodes, NEW y \in DOMAIN E2[l], NEW i \in DOMAIN E2[l][y].queue
             PROVE  /\ y \in DOMAIN E[l]
                    /\ \/ \E j \in DOMAIN E[l][y].queue : E2[l][y].queue[i] = E[l][y].queue[j]
                       \/ l = n /\ y = x /\ E2[l][y].queue[i] = msg
  BY DEF QueuesAppend
<1>1. y \in DOMAIN E[l] /\ x \in DOMAIN E[n]
  BY DEF Accepted, SameStates
<1>2. CASE l # n \/ y # x
  BY <1>1, <1>2 DEF Accepted
<1>3. CASE l = n /\ y = x
  <2>1. CASE \E Q : E[n][x].queue \in Seq(Q) /\ Append(E[n][x].queue, msg) = E2[n][x].queue
    <3>1. PICK Q : E[n][x].queue \in Seq(Q) /\ Append(E[n][x].queue, msg) = E2[n][x].queue
      BY <2>1
    <3>2. i \in DOMAIN Append(E[n][x].queue, msg)
      BY <1>3, <3>1
    <3>3. (i \in DOMAIN E[n][x].queue /\ E2[n][x].queue[i] = E[n][x].queue[i]) \/ E2[n][x].queue[i] = msg
      <4> DEFINE s == E[n][x].queue
                 r == E2[n][x].queue
      <4>1. s \in Seq(Q) /\ Append(s, msg) = r /\ i \in DOMAIN Append(s, msg)
        BY <3>1, <3>2
      <4> HIDE DEF s, r
      <4>2. (i \in DOMAIN s /\ Append(s, msg)[i] = s[i]) \/ Append(s, msg)[i] = msg
        BY <4>1, OneMore
      <4> QED BY <4>1, <4>2 DEF s, r
    <3> QED BY <1>1, <1>3, <3>3
  <2>2. CASE E2[n][x].queue = E[n][x].queue
    BY <1>1, <1>3, <2>2
  <2> QED BY <2>1, <2>2 DEF Accepted
<1> QED BY <1>2, <1>3

LEMMA SendToLocalPeerTame ==
    ASSUME Onwards, ~Reforward, NEW n \in Nodes, NEW t \in Threads, NEW c \in held[n],
           NEW hs \in HandleLists(n, c), SendToLocalPeer(n, t, c, hs)
    PROVE  Tame'
<1> DEFINE x == endpoints[n][c].peer.ep
           mail == NewMessage(n, c, hs)
           msg == [mail EXCEPT !.pipes = ExistingPipes(mail.descs)]
           E2 == endpoints'
           K2 == call'
           P2 == pending'
           W2 == wire'
           T2 == tasks'
           G2 == GuardedNow'
           R2 == carriers'
           X == ToSet(hs)
<1>0. IndInv /\ PlaceInv /\ \A k \in Nodes : DOMAIN endpoints[k] \subseteq DOMAIN E2[k]
  BY DEF Onwards, Grown
<1>1. Sends(n, t, c, hs)
  BY DEF SendToLocalPeer
<1>2. msg.id = NewMessage(n, c, hs).id /\ msg.descs = NewMessage(n, c, hs).descs
  BY DEF NewMessage
<1>3. x \in DOMAIN endpoints[n] /\ AcceptMessage(n, endpoints[n], x, msg) /\ K2 = call
  BY DEF SendToLocalPeer, Local
<1>4. W2 = wire /\ P2 = pending
  BY <1>1 DEF Sends
<1> HIDE DEF msg, x, mail
<1>5. Accepted(endpoints, endpoints', tasks, tasks', n, x, msg)
  <2> DEFINE table == endpoints[n]
             Q == QueuedMail(endpoints, names, n, EndOf(x))
  <2>1. x \in Names /\ endpoints[n][x] \in SoundEndpoints(endpoints, names, n, x)
    BY <1>0, <1>3, EndpointFacts
  <2>2. /\ endpoints[n][x].queue \in Seq(Q)
        /\ endpoints[n][x].state = "bound" => endpoints[n][x].runner \in Threads
    BY <2>1 DEF SoundEndpoints
  <2>3. endpoints[n][x] = [state |-> endpoints[n][x].state, peer |-> endpoints[n][x].peer,
                           target |-> endpoints[n][x].target,
                           runner |-> endpoints[n][x].runner, queue |-> endpoints[n][x].queue]
    BY <2>1 DEF SoundEndpoints
  <2>4. /\ x \in DOMAIN table /\ table[x].queue \in Seq(Q)
        /\ table[x] = [state |-> table[x].state, peer |-> table[x].peer, target |-> table[x].target,
                       runner |-> table[x].runner, queue |-> table[x].queue]
        /\ table[x].state = "bound" => table[x].runner \in Threads
        /\ AcceptMessage(n, table, x, msg) /\ endpoints[n] = table
    BY <1>3, <2>2, <2>3
  <2> HIDE DEF table, Q
  <2> QED BY <1>0, <2>1, <2>4, AcceptFacts
<1>6. Accepted(endpoints, E2, tasks, T2, n, x, msg)
  BY <1>5
<1>7. /\ DOMAIN msg.descs = DOMAIN hs /\ hs \in Seq(held[n]) /\ ToSet(hs) \subseteq held[n]
      /\ \A d \in ToSet(msg.descs) : d.name \in X
  <2>1. Sent(n, c, hs, msg)
    BY <1>0, <1>1, <1>2, SentFacts
  <2> QED BY <2>1 DEF Sent
<1>8. held[n] \subseteq DOMAIN endpoints[n]
  BY <1>0 DEF IndInv, HeldSound
<1>9. EndOf(x) = Partner(EndOf(c)) /\ x[1] = c[1]
  <2>1. EndOf(x) = Partner(EndOf(c))
    BY <1>0, <1>1, SendsFacts DEF Peers, x
  <2>2. x[1] = c[1]
    BY <2>1 DEF EndOf, Partner
  <2> QED BY <2>1, <2>2
<1>10. MayPin(X, carriers, moves, moves')
  BY <1>1, SentPins
<1>11. msg.descs # << >> => hs # << >>
  <2>1. msg.descs = [i \in DOMAIN hs |-> Descriptor(n, hs[i])]
    BY <1>2 DEF NewMessage
  <2>2. [i \in DOMAIN << >> |-> Descriptor(n, << >>[i])] = << >>
    OBVIOUS
  <2> QED BY <2>1, <2>2
<1>12. hs # << >> => c[1] \in R2
  BY <1>1 DEF Sends
<1>13. x = endpoints[n][c].peer.ep
  BY DEF x
<1> HIDE DEF E2, K2, P2, W2, T2, G2, R2
<1>14. \A l \in Nodes : \A y \in DOMAIN E2[l] : \A i \in DOMAIN E2[l][y].queue :
           /\ y \in DOMAIN endpoints[l]
           /\ \/ \E j \in DOMAIN endpoints[l][y].queue : E2[l][y].queue[i] = endpoints[l][y].queue[j]
              \/ l = n /\ y = x /\ E2[l][y].queue[i] = msg
  <2>1. QueuesAppend(endpoints, E2, n, x, msg)
    BY <1>6, AcceptedQueues
  <2> QED BY <2>1 DEF QueuesAppend
<1>15. FewPins(endpoints, call, E2, K2, X)
  <2> SUFFICES ASSUME NEW l \in Nodes, NEW descs, IsWaiting(E2, K2, l, descs)
               PROVE  IsWaiting(endpoints, call, l, descs) \/ \A d \in ToSet(descs) : d.name \in X
    BY DEF FewPins
  <2>1. ASSUME NEW y \in DOMAIN E2[l], NEW i \in DOMAIN E2[l][y].queue,
               E2[l][y].queue[i].descs = descs
        PROVE  IsWaiting(endpoints, call, l, descs) \/ \A d \in ToSet(descs) : d.name \in X
    <3>1. CASE y \in DOMAIN endpoints[l] /\ \E j \in DOMAIN endpoints[l][y].queue :
                   E2[l][y].queue[i] = endpoints[l][y].queue[j]
      BY <2>1, <3>1 DEF IsWaiting
    <3>2. CASE E2[l][y].queue[i] = msg
      BY <1>7, <2>1, <3>2
    <3> QED BY <1>14, <3>1, <3>2
  <2>2. ASSUME NEW u \in AllThreads, NEW i \in DOMAIN K2[l][u].msgs, K2[l][u].msgs[i].descs = descs
        PROVE  IsWaiting(endpoints, call, l, descs)
    BY <1>3, <2>2 DEF IsWaiting
  <2> QED BY <2>1, <2>2 DEF IsWaiting
<1>16. Own(E2, n, msg)
  BY <1>0, <1>7, <1>8 DEF Own
<1>17. QueuesCome(endpoints, E2, R2, G2)
  <2>1. QueueTame(E2, R2, G2, n, x, msg)
    BY <1>9, <1>11, <1>12, <1>16 DEF QueueTame
  <2> QED BY <1>14, <2>1 DEF QueuesCome
<1>18. ReservedCome(endpoints, pending, E2, P2, G2)
  <2> SUFFICES ASSUME NEW l \in Nodes, NEW k \in DOMAIN pending[l],
                      NEW i \in DOMAIN E2[l][pending[l][k]].queue
               PROVE  \/ ReservedTame(E2, G2, l, pending[l][k], E2[l][pending[l][k]].queue[i])
                      \/ \E j \in DOMAIN endpoints[l][pending[l][k]].queue :
                            E2[l][pending[l][k]].queue[i] = endpoints[l][pending[l][k]].queue[j]
    BY <1>4 DEF ReservedCome
  <2> DEFINE y == pending[l][k]
  <2>1. y \in DOMAIN E2[l]
    BY <1>0, PendingFacts
  <2>2. ASSUME l = n, y = x, E2[l][y].queue[i] = msg, msg.descs # << >>
        PROVE  EndOf(x) \in G2
    <3>1. ~Available(endpoints, pending, n, endpoints[n][c].peer.ep)
      BY <1>13, <2>2 DEF Available
    <3>2. FewPins(endpoints, call, endpoints', call', ToSet(hs))
      BY <1>15 DEF E2, K2
    <3>3. Partner(EndOf(c)) \in GuardedNow'
      BY <1>1, <1>11, <2>2, <3>1, <3>2, SentGuards
    <3> QED BY <1>9, <3>3 DEF G2
  <2>3. CASE l = n /\ y = x /\ E2[l][y].queue[i] = msg
    BY <1>16, <2>2, <2>3 DEF ReservedTame
  <2> QED BY <1>14, <2>1, <2>3
<1>19. CallsCome(E2, G2, call, K2) /\ WiresCome(G2, wire, W2)
  BY <1>3, <1>4 DEF CallsCome, WiresCome
<1> QED BY <1>10, <1>15, <1>17, <1>18, <1>19, BusyStep DEF E2, K2, P2, W2, G2, R2

LEMMA SendMessageTame ==
    ASSUME Onwards, ~Reforward, NEW n \in Nodes, NEW t \in Threads, SendMessage(n, t)
    PROVE  Tame'
<1>1. PICK c \in held[n] : \E hs \in HandleLists(n, c) :
          \/ SendToRemotePeer(n, t, c, hs)
          \/ SendThroughProxy(n, t, c, hs)
          \/ SendToLocalPeer(n, t, c, hs)
  BY DEF SendMessage
<1>2. PICK hs \in HandleLists(n, c) :
          \/ SendToRemotePeer(n, t, c, hs)
          \/ SendThroughProxy(n, t, c, hs)
          \/ SendToLocalPeer(n, t, c, hs)
  BY <1>1
<1> QED BY <1>2, SendToRemotePeerTame, SendThroughProxyTame, SendToLocalPeerTame

-----------------------------------------------------------------------------
(* A message with handles is received.                                       *)

\* Two nodes: nothing is sent to an endpoint before the invitee is known.
LEMMA ReservedNotReached ==
    ASSUME AtMostTwoNodes, IndInv, PlaceInv, Naming, Meetings(channels, wire),
           NEW n \in Nodes, NEW m \in Nodes, m # n,
           1 \in DOMAIN wire[m][n], wire[m][n][1].type = "USER"
    PROVE  DOMAIN pending[n] = {}
<1> SUFFICES ASSUME NEW k \in DOMAIN pending[n]
             PROVE  FALSE
  OBVIOUS
<1>1. PICK i \in Nodes : k = Temporary(i)
  BY DEF IndInv, PendingSound, PendingOk
<1>2. k \in DOMAIN channels[n]
  BY PendingFacts
<1>3. channels[n][k] = i /\ channels[n][k] # n
  BY <1>1, <1>2 DEF IndInv, ChannelsSound, ChannelOk
<1>4. i = m
  BY <1>3 DEF AtMostTwoNodes
<1>5. ~Knows(channels, n, m)
  BY <1>1, <1>2, <1>4 DEF Naming, OneKey, Knows
<1>6. Knows(channels, n, m) \/ \E j \in 1..(1 - 1) : IsAnswer(wire[m][n][j])
  BY DEF Meetings, Meeting
<1> QED BY <1>5, <1>6

LEMMA OnReceivedUserMessageTame ==
    ASSUME AtMostTwoNodes, Meetings(channels, wire), Onwards,
           NEW n \in Nodes, NEW m \in Nodes, OnReceivedUserMessage(n, m)
    PROVE  Tame'
<1> DEFINE msg == Head(wire[m][n])
           x == msg.target
           mail == [msg EXCEPT !.pipes = [i \in DOMAIN msg.descs |-> msg.descs[i].cross]]
           table == Recover(n, msg.descs)
           E1 == WithTable(endpoints, n, table)
           W1 == [wire EXCEPT ![m][n] = Tail(@)]
<1>0. IndInv /\ PlaceInv /\ Naming /\ PlaceInv'
  BY DEF Onwards
<1>1. ReceivesUserMessage(n, m) /\ AcceptMessage(n, table, x, mail) /\ wire' = W1
      /\ call' = call /\ pending' = pending
  BY DEF OnReceivedUserMessage
<1>2. /\ msg \in RoutedMail(endpoints, names) /\ x \in DOMAIN endpoints[n]
      /\ ToSet(msg.descs) \subseteq Carried(endpoints, names)
      /\ \A d \in ToSet(msg.descs) : d.cross \notin DOMAIN endpoints[n]
  BY <1>0, <1>1, ReceivedUserFacts
<1>3. mail.descs = msg.descs
  BY <1>2 DEF RoutedMail, Mail
<1>4. x = msg.target
  OBVIOUS
<1> HIDE DEF msg, x, mail, W1
<1>5. msg = Head(wire[m][n]) /\ W1 = [wire EXCEPT ![m][n] = Tail(@)]
  BY DEF msg, W1
<1>6. PICK Q1 : Arrived(n, m, msg, E1, W1, Q1)
  <2>1. E1 = WithTable(endpoints, n, Recover(n, msg.descs))
    OBVIOUS
  <2> HIDE DEF E1
  <2> QED BY <1>0, <1>1, <1>5, <2>1, ArrivedFacts
<1>7. Accepted(E1, endpoints', tasks, tasks', n, x, mail)
  <2>1. /\ E1[n] = table /\ \A l \in Nodes : l # n => E1[l] = endpoints[l]
        /\ DOMAIN endpoints[n] \subseteq DOMAIN table
        /\ \A y \in DOMAIN table : table[y] \in SoundEndpoints(E1, names, n, y)
    <3>1. E1 = WithTable(endpoints, n, table) /\ table = Recover(n, msg.descs)
      OBVIOUS
    <3> HIDE DEF E1, table
    <3> QED BY <1>0, <1>2, <3>1, RecoverSound
  <2> DEFINE Q == QueuedMail(E1, names, n, EndOf(x))
  <2>2. x \in Names /\ x \in DOMAIN table /\ table[x] \in SoundEndpoints(E1, names, n, x)
    BY <1>0, <1>2, <2>1, EndpointFacts
  <2> HIDE DEF E1, table
  <2>3. /\ table[x].queue \in Seq(Q)
        /\ table[x].state = "bound" => table[x].runner \in Threads
        /\ table[x] = [state |-> table[x].state, peer |-> table[x].peer, target |-> table[x].target,
                       runner |-> table[x].runner, queue |-> table[x].queue]
    BY <2>2 DEF SoundEndpoints
  <2> HIDE DEF Q
  <2> QED BY <1>0, <1>1, <2>1, <2>2, <2>3, AcceptFacts
<1> HIDE DEF E1, table
<1> DEFINE E2 == endpoints'
           K2 == call'
           P2 == pending'
           W2 == wire'
           T2 == tasks'
           G2 == GuardedNow'
           R2 == carriers'
<1>8. Accepted(E1, E2, tasks, T2, n, x, mail)
  BY <1>7
<1>9. /\ m # n /\ msg.type = "USER" /\ HasRead(wire, W1, Q1, m, n)
      /\ \A l \in Nodes : l # n => E1[l] = endpoints[l]
      /\ DOMAIN E1[n] = DOMAIN endpoints[n] \cup {d.cross : d \in ToSet(msg.descs)}
      /\ \A y \in DOMAIN endpoints[n] : E1[n][y] = endpoints[n][y]
      /\ \A d \in ToSet(msg.descs) : E1[n][d.cross].queue = << >>
  BY <1>6 DEF Arrived
<1>10. K2 = call /\ P2 = pending /\ W2 = W1 /\ carriers \subseteq R2
  BY <1>1 DEF Onwards, CarryMore
<1>11. 1 \in DOMAIN wire[m][n] /\ wire[m][n][1] = msg
  BY <1>5, <1>9, ReadFirst
<1>12. DOMAIN pending[n] = {}
  BY <1>0, <1>9, <1>11, ReservedNotReached
<1>13. WireTame(GuardedNow, msg)
  BY <1>11 DEF Onwards, Tame, AllTame, WiresTame, GuardedNow
<1>14. \A d \in ToSet(msg.descs) : d.name \notin DOMAIN E2[n]
  <2>1. WireReady(endpoints, m, msg)
    BY <1>0, <1>11 DEF PlaceInv, WiresReady
  <2>2. \A d \in ToSet(msg.descs) : d.name \in DOMAIN E2[m]
    BY <1>9, <2>1 DEF WireReady, Onwards, Grown
  <2>3. NamesApart(E2)
    BY <1>0 DEF PlaceInv
  <2> QED BY <1>9, <2>2, <2>3 DEF NamesApart
<1> HIDE DEF E2, K2, P2, W2, T2, G2, R2
<1>15. \A l \in Nodes : \A y \in DOMAIN E2[l] : \A i \in DOMAIN E2[l][y].queue :
           \/ /\ y \in DOMAIN endpoints[l]
              /\ \E j \in DOMAIN endpoints[l][y].queue : E2[l][y].queue[i] = endpoints[l][y].queue[j]
           \/ l = n /\ y = x /\ E2[l][y].queue[i] = mail
  <2> SUFFICES ASSUME NEW l \in Nodes, NEW y \in DOMAIN E2[l], NEW i \in DOMAIN E2[l][y].queue
               PROVE  \/ /\ y \in DOMAIN endpoints[l]
                         /\ \E j \in DOMAIN endpoints[l][y].queue :
                               E2[l][y].queue[i] = endpoints[l][y].queue[j]
                      \/ l = n /\ y = x /\ E2[l][y].queue[i] = mail
    OBVIOUS
  <2>1. /\ y \in DOMAIN E1[l]
        /\ \/ \E j \in DOMAIN E1[l][y].queue : E2[l][y].queue[i] = E1[l][y].queue[j]
           \/ l = n /\ y = x /\ E2[l][y].queue[i] = mail
    <3>1. QueuesAppend(E1, E2, n, x, mail)
      BY <1>8, AcceptedQueues
    <3> QED BY <3>1 DEF QueuesAppend
  <2>2. ASSUME NEW j \in DOMAIN E1[l][y].queue
        PROVE  y \in DOMAIN endpoints[l] /\ E1[l][y] = endpoints[l][y]
    BY <1>9, <2>1
  <2> QED BY <2>1, <2>2
<1>16. FewPins(endpoints, call, E2, K2, {})
  <2> SUFFICES ASSUME NEW l \in Nodes, NEW descs, IsWaiting(E2, K2, l, descs)
               PROVE  IsWaiting(endpoints, call, l, descs)
                      \/ \A d \in ToSet(descs) : d.name \notin DOMAIN E2[l]
    BY DEF FewPins
  <2>1. ASSUME NEW y \in DOMAIN E2[l], NEW i \in DOMAIN E2[l][y].queue,
               E2[l][y].queue[i].descs = descs
        PROVE  IsWaiting(endpoints, call, l, descs)
               \/ \A d \in ToSet(descs) : d.name \notin DOMAIN E2[l]
    <3>1. CASE y \in DOMAIN endpoints[l] /\ \E j \in DOMAIN endpoints[l][y].queue :
                   E2[l][y].queue[i] = endpoints[l][y].queue[j]
      BY <2>1, <3>1 DEF IsWaiting
    <3>2. CASE l = n /\ E2[l][y].queue[i] = mail
      BY <1>3, <1>14, <2>1, <3>2
    <3> QED BY <1>15, <3>1, <3>2
  <2>2. ASSUME NEW u \in AllThreads, NEW i \in DOMAIN K2[l][u].msgs, K2[l][u].msgs[i].descs = descs
        PROVE  IsWaiting(endpoints, call, l, descs)
    BY <1>10, <2>2 DEF IsWaiting
  <2> QED BY <2>1, <2>2 DEF IsWaiting
<1>17. MayPin({}, carriers, moves, moves')
  BY DEF MayPin
<1>18. GuardedNow \subseteq G2
  BY <1>16, <1>17, GuardsStay DEF Onwards, E2, K2, G2
<1>19. QueuesCome(endpoints, E2, R2, G2)
  <2>1. QueueTame(E2, R2, G2, n, x, mail)
    <3>1. msg.descs # << >> => EndOf(x) \in GuardedNow
      BY <1>4, <1>9, <1>13 DEF WireTame
    <3>2. EndOf(x) \in GuardedNow => x[1] \in carriers
      BY DEF GuardedNow, Guarded, EndOf
    <3> QED BY <1>3, <1>10, <1>18, <3>1, <3>2 DEF QueueTame
  <2> QED BY <1>15, <2>1 DEF QueuesCome
<1>20. ReservedCome(endpoints, pending, E2, P2, G2)
  <2> SUFFICES ASSUME NEW l \in Nodes, NEW k \in DOMAIN pending[l],
                      NEW i \in DOMAIN E2[l][pending[l][k]].queue
               PROVE  \E j \in DOMAIN endpoints[l][pending[l][k]].queue :
                          E2[l][pending[l][k]].queue[i] = endpoints[l][pending[l][k]].queue[j]
    BY <1>10 DEF ReservedCome
  <2>1. pending[l][k] \in DOMAIN E2[l]
    BY <1>0, PendingFacts DEF Onwards, Grown, E2
  <2>2. l # n
    BY <1>12
  <2> QED BY <1>15, <2>1, <2>2
<1>21. CallsCome(E2, G2, call, K2) /\ WiresCome(G2, wire, W2)
  <2>1. Remains(wire, W2)
    BY <1>9, <1>10, ReadFacts
  <2> QED BY <1>10, <2>1 DEF CallsCome, WiresCome, Remains
<1> QED BY <1>16, <1>17, <1>19, <1>20, <1>21, BusyStep DEF E2, K2, P2, W2, G2, R2

-----------------------------------------------------------------------------
(* A message with handles is written.                                        *)

\* What is queued on an endpoint that is being moved is carried on with it.
FlushedCall(n, msg, q, K2, t) ==
    \A j \in DOMAIN K2[n][t].msgs :
        \/ \E i \in DOMAIN call[n][t].msgs : K2[n][t].msgs[j] = call[n][t].msgs[i]
        \/ \E i \in DOMAIN msg.descs :
              \E l \in DOMAIN endpoints[n][msg.descs[i].name].queue :
                 /\ K2[n][t].msgs[j].descs = endpoints[n][msg.descs[i].name].queue[l].descs
                 /\ K2[n][t].msgs[j].target = msg.descs[i].cross
LEMMA FlushedCalls ==
    ASSUME IndInv, PlaceInv, NEW n \in Nodes, NEW t \in AllThreads, NEW k, NEW msg, NEW mail, NEW Ep,
           NEW q, NEW Q2, msg = Head(call[n][t].msgs), Flushed(n, t, k, msg, mail, Ep, q, Q2)
    PROVE  FlushedCall(n, msg, q, call', t)
<1> DEFINE K2 == call'
           M == Mail(endpoints, names)
           s == call[n][t].msgs
           r == FlattenSeq(q)
<1>1. /\ q \in Seq(Seq(M)) /\ DOMAIN q = DOMAIN msg.descs
  BY FlushedQueues
<1>2. /\ s # << >> /\ s \in Seq(RoutedMail(endpoints, names))
      /\ q = [i \in DOMAIN msg.descs |->
                 Retarget(endpoints[n][msg.descs[i].name].queue, msg.descs[i].cross)]
      /\ K2[n][t].msgs = Tail(s) \o r
      /\ msg.descs \in Seq(Carried(endpoints, names))
      /\ \A d \in ToSet(msg.descs) : d.name \in DOMAIN endpoints[n]
  BY DEF Flushed
<1> DEFINE u == Tail(s)
<1>3. s \in Seq(M) /\ u \in Seq(M) /\ r \in Seq(M)
  <2>1. RoutedMail(endpoints, names) \subseteq M
    BY DEF RoutedMail
  <2> HIDE DEF s, M
  <2>2. s \in Seq(M)
    BY <1>2, <2>1, SeqMonotonic
  <2>3. u \in Seq(M)
    BY <1>2, <2>2, HeadTailProperties
  <2>4. r \in Seq(M)
    BY <1>1, FlattenType
  <2> QED BY <2>2, <2>3, <2>4
<1>3a. Tail(s) = u
  OBVIOUS
<1>3b. K2[n][t].msgs = u \o r
  BY <1>2
<1> HIDE DEF K2, M, s, r, u
<1> SUFFICES ASSUME NEW j \in DOMAIN K2[n][t].msgs
             PROVE  \/ \E i \in DOMAIN s : K2[n][t].msgs[j] = s[i]
                    \/ \E i \in DOMAIN msg.descs :
                          \E l \in DOMAIN endpoints[n][msg.descs[i].name].queue :
                             /\ K2[n][t].msgs[j].descs = endpoints[n][msg.descs[i].name].queue[l].descs
                             /\ K2[n][t].msgs[j].target = msg.descs[i].cross
  BY DEF FlushedCall, K2, s
<1>4. \/ j \in DOMAIN u /\ K2[n][t].msgs[j] = u[j]
      \/ \E l \in DOMAIN r : K2[n][t].msgs[j] = r[l]
  BY <1>3, <1>3b, Concatenated
<1>5. CASE j \in DOMAIN u /\ K2[n][t].msgs[j] = u[j]
  <2>1. s \in Seq(M) /\ s # << >> /\ Tail(s) = u
    BY <1>2, <1>3, <1>3a
  <2>2. \A i \in DOMAIN u : \E l \in DOMAIN s : u[i] = s[l]
    BY <2>1, HeadAndTail
  <2> QED BY <1>5, <2>2
<1>6. ASSUME NEW l \in DOMAIN r, K2[n][t].msgs[j] = r[l]
      PROVE  \E i \in DOMAIN msg.descs :
                 \E h \in DOMAIN endpoints[n][msg.descs[i].name].queue :
                    /\ K2[n][t].msgs[j].descs = endpoints[n][msg.descs[i].name].queue[h].descs
                    /\ K2[n][t].msgs[j].target = msg.descs[i].cross
  <2>1. \E i \in DOMAIN q : \E h \in DOMAIN q[i] : r[l] = q[i][h]
    BY <1>1, InFlattened DEF r
  <2>2. PICK i \in DOMAIN q : \E h \in DOMAIN q[i] : r[l] = q[i][h]
    BY <2>1
  <2>3. PICK h \in DOMAIN q[i] : r[l] = q[i][h]
    BY <2>2
  <2> DEFINE d == msg.descs[i]
             p == endpoints[n][d.name].queue
  <2>4. i \in DOMAIN msg.descs /\ d \in ToSet(msg.descs) /\ q[i] = Retarget(p, d.cross)
    BY <1>1, <1>2 DEF ToSet
  <2>5. p \in Seq(Mail(endpoints, names))
    <3>1. d.name \in DOMAIN endpoints[n]
      BY <1>2, <2>4
    <3>2. endpoints[n][d.name] \in SoundEndpoints(endpoints, names, n, d.name)
      BY <3>1, EndpointFacts
    <3>3. p \in Seq(QueuedMail(endpoints, names, n, EndOf(d.name)))
      BY <3>2 DEF SoundEndpoints
    <3>4. QueuedMail(endpoints, names, n, EndOf(d.name)) \subseteq Mail(endpoints, names)
      BY DEF QueuedMail
    <3> HIDE DEF p
    <3> QED BY <3>3, <3>4, SeqMonotonic
  <2> DEFINE y == d.cross
             o == q[i]
  <2>5a. o = Retarget(p, y) /\ h \in DOMAIN o
    BY <2>4
  <2> HIDE DEF p, y, o
  <2>6. DOMAIN o = DOMAIN p /\ o[h].descs = p[h].descs
    BY <2>5, <2>5a, SameMarks
  <2>7. o[h].target = y
    BY <2>5, <2>5a, <2>6, NewTarget
  <2> QED BY <1>6, <2>3, <2>4, <2>5a, <2>6, <2>7 DEF p, y, o
<1> QED BY <1>4, <1>5, <1>6

\* Nothing is pinned of an end that is on its way.
LEMMA TravellersStill ==
    ASSUME NEW E, NEW P, NEW W, NEW K, QueuesReady(E, P), CallsReady(E, P, K), NamesApart(E),
           NEW e, AtHome(E, P, W, e), Travels(W, e)
    PROVE  Still(E, K, e)
<1>1. \A n \in Nodes : \A x \in DOMAIN E[n] : EndOf(x) = e => ~Available(E, P, n, x)
  BY DEF AtHome
<1>2. \A n \in Nodes : \A x : Pinned(E, K, n, x) => Available(E, P, n, x)
  BY PinnedAvailable
<1> QED BY <1>1, <1>2 DEF Still

\* A message is written with its handles, and what was queued on them follows.
LEMMA FlushedGuards ==
    ASSUME Onwards, NEW n \in Nodes, NEW t \in AllThreads, NEW k, NEW msg, NEW mail, NEW Ep,
           NEW q, NEW Q2, msg = Head(call[n][t].msgs), Flushed(n, t, k, msg, mail, Ep, q, Q2),
           NEW d \in ToSet(msg.descs), d.name[1] \in carriers
    PROVE  EndOf(d.cross) \in GuardedNow' /\ EndOf(d.name) \notin GuardedNow
<1> DEFINE E2 == endpoints'
           W2 == wire'
           P2 == pending'
           K2 == call'
           e == EndOf(d.name)
           s == call[n][t].msgs
<1>1. IndInv /\ PlaceInv /\ Naming /\ IndInv' /\ PlaceInv' /\ Tame
  BY DEF Onwards
<1>2. /\ k \in Nodes /\ mail.type = "USER" /\ mail.descs = msg.descs
      /\ msg.descs \in Seq(Carried(endpoints, names))
      /\ d.name \in DOMAIN endpoints[n]
      /\ Wrote(wire, W2, Q2, n, k, mail)
      /\ s # << >> /\ s \in Seq(RoutedMail(endpoints, names))
  BY ZenonT(30) DEF Flushed
<1>3. d \in Carried(endpoints, names)
  BY <1>2, ToSetFacts
<1>4. EndOf(d.cross) = e /\ d.cross \in Given(names) /\ d.cross[3] # 0
  BY <1>3, CarriedLater DEF Carried
<1>5. d.name \in Names /\ e \in Ends /\ e[1] = d.name[1] /\ e[1] \in 1..MaxPipes
  <2>1. d.name \in Names /\ e \in Ends
    BY <1>1, <1>2, EndpointFacts
  <2>2. e[1] = d.name[1]
    BY DEF EndOf
  <2> QED BY <2>1, <2>2 DEF Ends
<1> HIDE DEF E2, W2, P2, K2, e, s
<1>6. names[e] \in Nat /\ names[e] > 1
  <2>1. names[e] \in Nat
    BY <1>1, <1>5 DEF IndInv, NamesSound
  <2> QED BY <1>1, <1>4, <2>1, NamedOnce
<1>7. moves'[e[1]] # 0
  <2>1. moves[e[1]] # 0
    BY <1>1, <1>5, <1>6 DEF Naming, MovesNamed
  <2>2. moves[e[1]] \in Nat /\ moves'[e[1]] \in Nat /\ moves[e[1]] <= moves'[e[1]]
    BY <1>1, <1>5 DEF IndInv, CountersSound, Onwards, CarryMore
  <2> QED BY <2>1, <2>2
<1>8. Still(E2, K2, e)
  <2>1. Travels(W2, e)
    <3>1. EndMark(e) \in WireMarks(mail)
      BY <1>2 DEF WireMarks, MailMarks, DescMarks, e
    <3> QED BY <1>2, <3>1, WroteFacts
  <2>2. AtHome(E2, P2, W2, e)
    <3>1. names'[e] # 0
      <4>1. \E j \in Nodes : \E x \in DOMAIN E2[j] : EndOf(x) = e
        BY <1>2 DEF Onwards, Grown, E2, e
      <4>2. PICK j \in Nodes : \E x \in DOMAIN E2[j] : EndOf(x) = e
        BY <4>1
      <4>2a. PICK x \in DOMAIN E2[j] : EndOf(x) = e
        BY <4>2
      <4>3. x \in Given(names')
        BY <1>1, <4>2a DEF IndInv, EndpointsSound, E2
      <4>4. x[3] \in Nat /\ names'[e] \in Nat /\ x[3] < names'[e]
        BY <1>1, <1>5, <4>2a, <4>3 DEF IndInv, NamesSound, Given, Names
      <4> QED BY <4>4
    <3>2. e[1] <= pipes'
      BY <1>1, <1>5, <3>1 DEF IndInv, NamesSound, CountersSound
    <3>3. AllAtHome(E2, P2, W2, pipes')
      BY <1>1 DEF PlaceInv, E2, P2, W2
    <3> QED BY <1>5, <3>2, <3>3 DEF AllAtHome
  <2>3. QueuesReady(E2, P2) /\ CallsReady(E2, P2, K2) /\ NamesApart(E2)
    BY <1>1 DEF PlaceInv, E2, P2, K2
  <2> QED BY <2>1, <2>2, <2>3, TravellersStill
<1>9. e \in GuardedNow'
  BY <1>5, <1>7, <1>8 DEF GuardedNow, Guarded, Onwards, CarryMore, E2, K2
<1>10. e \notin GuardedNow
  <2>1. \E i \in DOMAIN s : s[i] = msg
    <3> DEFINE r == Tail(s)
    <3>1. Tail(s) = r
      OBVIOUS
    <3> HIDE DEF r
    <3> QED BY <1>2, <3>1, HeadAndTail DEF s
  <2>2. Pinned(endpoints, call, n, d.name)
    BY <1>2, <2>1 DEF Pinned, IsWaiting, s
  <2> QED BY <1>2, <2>2 DEF GuardedNow, Guarded, Still, e
<1> QED BY <1>4, <1>9, <1>10 DEF e

\* So the flushing loop keeps what it sends tame.
LEMMA FlushedEndpoints ==
    ASSUME PlaceInv, NEW n \in Nodes, NEW t, NEW k, NEW msg, NEW mail, NEW Ep,
           NEW q, NEW Q2, Flushed(n, t, k, msg, mail, Ep, q, Q2)
    PROVE  QueuesRemain(endpoints, endpoints')
<1> DEFINE E2 == endpoints'
<1>1. /\ mail.descs = msg.descs /\ SameStates(endpoints, Ep)
      /\ \A l \in Nodes : l # n => Ep[l] = endpoints[l]
      /\ \A y \in DOMAIN endpoints[n] :
            (\A d \in ToSet(msg.descs) : d.name # y) => Ep[n][y] = endpoints[n][y]
      /\ MovedOn(Ep, E2, n, mail, k)
  BY ZenonT(30) DEF Flushed
<1> HIDE DEF E2
<1>2. /\ \A l \in Nodes : l # n => E2[l] = Ep[l]
      /\ DOMAIN E2[n] = DOMAIN Ep[n]
      /\ \A y \in DOMAIN Ep[n] : (\A d \in ToSet(mail.descs) : d.name # y) => E2[n][y] = Ep[n][y]
      /\ \A d \in ToSet(mail.descs) : E2[n][d.name].queue = << >>
  BY <1>1 DEF MovedOn
<1>3. DOMAIN Ep[n] = DOMAIN endpoints[n]
  BY <1>1 DEF SameStates
<1> SUFFICES ASSUME NEW l \in Nodes, NEW y \in DOMAIN E2[l], NEW i \in DOMAIN E2[l][y].queue
             PROVE  y \in DOMAIN endpoints[l] /\ \E j \in DOMAIN endpoints[l][y].queue :
                        E2[l][y].queue[i] = endpoints[l][y].queue[j]
  BY DEF QueuesRemain, E2
<1>4. CASE l # n
  BY <1>1, <1>2, <1>4
<1>5. CASE l = n
  <2>1. \A d \in ToSet(mail.descs) : d.name # y
    BY <1>2, <1>5
  <2>2. E2[n][y] = endpoints[n][y] /\ y \in DOMAIN endpoints[n]
    BY <1>1, <1>2, <1>3, <1>5, <2>1
  <2> QED BY <1>5, <2>2
<1> QED BY <1>4, <1>5

\* The calls of others stay as they are.
LEMMA FlushedPins ==
    ASSUME NEW n \in Nodes, NEW t \in AllThreads, NEW msg, NEW q, NEW K2, NEW E2,
           \A i \in DOMAIN msg.descs : msg.descs[i].name \in DOMAIN endpoints[n],
           FlushedCall(n, msg, q, K2, t), QueuesRemain(endpoints, E2),
           \A l \in Nodes : \A u \in AllThreads : l # n \/ u # t => K2[l][u] = call[l][u]
    PROVE  FewPins(endpoints, call, E2, K2, {})
<1> SUFFICES ASSUME NEW l \in Nodes, NEW descs, IsWaiting(E2, K2, l, descs)
             PROVE  IsWaiting(endpoints, call, l, descs)
  BY DEF FewPins
<1>1. ASSUME NEW y \in DOMAIN E2[l], NEW i \in DOMAIN E2[l][y].queue, E2[l][y].queue[i].descs = descs
      PROVE  IsWaiting(endpoints, call, l, descs)
  BY <1>1 DEF QueuesRemain, IsWaiting
<1>2. ASSUME NEW u \in AllThreads, NEW i \in DOMAIN K2[l][u].msgs, K2[l][u].msgs[i].descs = descs
      PROVE  IsWaiting(endpoints, call, l, descs)
  <2>1. CASE l # n \/ u # t
    <3>1. K2[l][u] = call[l][u]
      BY <2>1
    <3> QED BY <1>2, <3>1 DEF IsWaiting
  <2>2. CASE l = n /\ u = t
    <3>1. CASE \E j \in DOMAIN call[n][t].msgs : K2[n][t].msgs[i] = call[n][t].msgs[j]
      BY <1>2, <2>2, <3>1 DEF IsWaiting
    <3>2. CASE \E h \in DOMAIN msg.descs :
                 \E j \in DOMAIN endpoints[n][msg.descs[h].name].queue :
                    K2[n][t].msgs[i].descs = endpoints[n][msg.descs[h].name].queue[j].descs
      <4>1. PICK h \in DOMAIN msg.descs :
                 \E j \in DOMAIN endpoints[n][msg.descs[h].name].queue :
                    K2[n][t].msgs[i].descs = endpoints[n][msg.descs[h].name].queue[j].descs
        BY <3>2
      <4> DEFINE x == msg.descs[h].name
      <4>2. x \in DOMAIN endpoints[n]
        OBVIOUS
      <4> HIDE DEF x
      <4>3. \E j \in DOMAIN endpoints[n][x].queue : endpoints[n][x].queue[j].descs = descs
        BY <1>2, <2>2, <4>1 DEF x
      <4> QED BY <2>2, <4>2, <4>3 DEF IsWaiting
    <3> QED BY <1>2, <2>2, <3>1, <3>2 DEF FlushedCall
  <2> QED BY <2>1, <2>2
<1> QED BY <1>1, <1>2 DEF IsWaiting

LEMMA FlushedCallsTame ==
    ASSUME Onwards, NEW n \in Nodes, NEW t \in AllThreads, NEW k, NEW msg, NEW mail, NEW Ep,
           NEW q, NEW Q2, msg = Head(call[n][t].msgs), Flushed(n, t, k, msg, mail, Ep, q, Q2)
    PROVE  CallsCome(endpoints', GuardedNow', call, call')
<1> DEFINE E2 == endpoints'
           K2 == call'
           G2 == GuardedNow'
<1>1. IndInv /\ PlaceInv /\ QueuesTame(endpoints, carriers, GuardedNow)
  BY DEF Onwards, Tame, AllTame, GuardedNow
<1>2. /\ \A l \in Nodes : \A u \in AllThreads : l # n \/ u # t => K2[l][u] = call[l][u]
      /\ msg.descs \in Seq(Carried(endpoints, names))
      /\ \A d \in ToSet(msg.descs) : d.name \in DOMAIN endpoints[n]
  BY ZenonT(30) DEF Flushed
<1>3. FlushedCall(n, msg, q, K2, t)
  BY <1>1, FlushedCalls
<1>4. \A d \in ToSet(msg.descs) : d.name[1] \in carriers =>
          EndOf(d.cross) \in G2 /\ EndOf(d.name) \notin GuardedNow
  BY FlushedGuards
<1>5. \A l \in Nodes : DOMAIN endpoints[l] \subseteq DOMAIN E2[l]
  BY DEF Onwards, Grown
<1> HIDE DEF E2, K2, G2
<1> SUFFICES ASSUME NEW l \in Nodes, NEW u \in AllThreads, NEW i \in DOMAIN K2[l][u].msgs
             PROVE  \/ CallTame(E2, G2, l, K2[l][u].msgs[i])
                    \/ \E j \in DOMAIN call[l][u].msgs : K2[l][u].msgs[i] = call[l][u].msgs[j]
  BY DEF CallsCome, E2, K2, G2
<1>6. CASE l # n \/ u # t
  <2>1. K2[l][u] = call[l][u]
    BY <1>2, <1>6
  <2> QED BY <2>1
<1>7. ASSUME l = n, u = t, NEW h \in DOMAIN msg.descs,
             NEW j \in DOMAIN endpoints[n][msg.descs[h].name].queue,
             K2[n][t].msgs[i].descs = endpoints[n][msg.descs[h].name].queue[j].descs,
             K2[n][t].msgs[i].target = msg.descs[h].cross
      PROVE  CallTame(E2, G2, l, K2[l][u].msgs[i])
  <2> DEFINE d == msg.descs[h]
             x == d.name
             old == endpoints[n][x].queue[j]
             new == K2[n][t].msgs[i]
  <2>1. d \in ToSet(msg.descs) /\ x \in DOMAIN endpoints[n]
    BY <1>2 DEF ToSet
  <2>2. new.descs = old.descs /\ new.target = d.cross
    BY <1>7
  <2>3. QueueTame(endpoints, carriers, GuardedNow, n, x, old)
    BY <1>1, <1>7, <2>1 DEF QueuesTame
  <2> HIDE DEF d, old, new
  <2>4. CASE new.descs = << >>
    <3>1. Own(E2, n, << >>) \/ TRUE
      OBVIOUS
    <3>2. Own(E2, n, new)
      BY <2>4, OwnDescs
    <3> QED BY <1>7, <2>4, <3>2 DEF CallTame, new
  <2>5. CASE new.descs # << >>
    <3>1. x[1] \in carriers
      BY <2>2, <2>3, <2>5 DEF QueueTame
    <3>2. EndOf(d.cross) \in G2 /\ EndOf(x) \notin GuardedNow
      BY <1>4, <2>1, <3>1
    <3>3. Own(endpoints, n, old)
      BY <2>2, <2>3, <2>5, <3>2 DEF QueueTame
    <3>4. Own(E2, n, old)
      BY <1>5, <3>3 DEF Own
    <3>5. Own(E2, n, new)
      BY <2>2, <3>4, OwnDescs
    <3> QED BY <1>7, <2>2, <3>2, <3>5 DEF CallTame, new
  <2> QED BY <2>4, <2>5
<1>8. CASE l = n /\ u = t
  <2>1. CASE \E j \in DOMAIN call[n][t].msgs : K2[n][t].msgs[i] = call[n][t].msgs[j]
    BY <1>8, <2>1
  <2>2. CASE \E h \in DOMAIN msg.descs :
               \E j \in DOMAIN endpoints[n][msg.descs[h].name].queue :
                  /\ K2[n][t].msgs[i].descs = endpoints[n][msg.descs[h].name].queue[j].descs
                  /\ K2[n][t].msgs[i].target = msg.descs[h].cross
    BY <1>7, <1>8, <2>2
  <2> QED BY <1>3, <1>8, <2>1, <2>2 DEF FlushedCall
<1> QED BY <1>6, <1>8

LEMMA FlushedWiresTame ==
    ASSUME Onwards, NEW n \in Nodes, NEW t \in AllThreads, NEW k, NEW msg, NEW mail, NEW Ep,
           NEW q, NEW Q2, msg = Head(call[n][t].msgs), Flushed(n, t, k, msg, mail, Ep, q, Q2)
    PROVE  WiresCome(GuardedNow, wire, wire')
<1> DEFINE s == call[n][t].msgs
           W2 == wire'
           G == GuardedNow
<1>1. /\ k \in Nodes /\ mail.type = "USER" /\ mail.id = msg.id /\ mail.descs = msg.descs
      /\ msg \in RoutedMail(endpoints, names)
      /\ Wrote(wire, W2, Q2, n, k, mail)
      /\ s # << >> /\ s \in Seq(RoutedMail(endpoints, names))
  BY ZenonT(30) DEF Flushed
<1>2. RoutedOn(W2)
  BY WiresRoute DEF Onwards, IndInv
<1>3. \A i \in DOMAIN s : CallTame(endpoints, G, n, s[i])
  BY DEF Onwards, Tame, AllTame, CallsTame, GuardedNow
<1> HIDE DEF W2, G
<1>4. CallTame(endpoints, G, n, msg)
  <2> DEFINE r == Tail(s)
  <2>1. Tail(s) = r
    OBVIOUS
  <2> HIDE DEF r
  <2>2. \E i \in DOMAIN s : s[i] = msg
    BY <1>1, <2>1, HeadAndTail
  <2> HIDE DEF s
  <2> QED BY <1>3, <2>2
<1>5. \E i \in DOMAIN W2[n][k] : W2[n][k][i] = mail
  <2>1. wire[n][k] \in Seq(Q2) /\ Append(wire[n][k], mail) = W2[n][k]
    BY <1>1 DEF Wrote
  <2>2. Len(wire[n][k]) + 1 \in DOMAIN W2[n][k] /\ W2[n][k][Len(wire[n][k]) + 1] = mail
    BY <2>1
  <2> QED BY <2>2
<1>6. EndOf(mail.target) = Partner(EndOf(mail.id))
  BY <1>1, <1>2, <1>5 DEF RoutedOn
<1>7. EndOf(msg.target) = Partner(EndOf(msg.id))
  BY <1>1 DEF RoutedMail
<1>8. WireTame(G, mail)
  BY <1>1, <1>4, <1>6, <1>7 DEF WireTame, CallTame
<1> QED BY <1>1, <1>8, WroteTame DEF W2, G

LEMMA FlushOneTame ==
    ASSUME Onwards, NEW n \in Nodes, NEW t \in AllThreads, FlushOne(n, t)
    PROVE  Tame'
<1> DEFINE E2 == endpoints'
           K2 == call'
           P2 == pending'
           G == GuardedNow
           G2 == GuardedNow'
           R2 == carriers'
           W2 == wire'
<1>0. IndInv /\ PlaceInv /\ \A l \in Nodes : DOMAIN endpoints[l] \subseteq DOMAIN E2[l]
  BY DEF Onwards, Grown
<1>1. PICK k, msg, mail, Ep, q, Q2 :
          msg = Head(call[n][t].msgs) /\ Flushed(n, t, k, msg, mail, Ep, q, Q2)
  BY <1>0, FlushedFacts
<1>2. P2 = pending
  BY ZenonT(30) DEF FlushOne
<1>3. QueuesRemain(endpoints, E2)
  BY <1>0, <1>1, FlushedEndpoints
<1>4. PendingRemains(E2, pending, P2)
  BY <1>0, <1>2, Unmoved
<1>5. FewPins(endpoints, call, E2, K2, {})
  <2>1. FlushedCall(n, msg, q, K2, t)
    BY <1>0, <1>1, FlushedCalls
  <2>2. /\ \A l \in Nodes : \A u \in AllThreads : l # n \/ u # t => K2[l][u] = call[l][u]
        /\ \A d \in ToSet(msg.descs) : d.name \in DOMAIN endpoints[n]
    BY <1>1, ZenonT(30) DEF Flushed
  <2>3. \A i \in DOMAIN msg.descs : msg.descs[i].name \in DOMAIN endpoints[n]
    BY <2>2 DEF ToSet
  <2> HIDE DEF E2, K2
  <2> QED BY <1>3, <2>1, <2>2, <2>3, FlushedPins
<1>6. MayPin({}, carriers, moves, moves')
  BY DEF MayPin
<1>7. G \subseteq G2
  BY <1>5, <1>6, GuardsStay DEF Onwards
<1>8. CallsCome(E2, G2, call, K2)
  BY <1>1, FlushedCallsTame
<1>9. WiresCome(G, wire, W2)
  BY <1>1, FlushedWiresTame
<1>10. QueuesCome(endpoints, E2, R2, G2) /\ ReservedCome(endpoints, pending, E2, P2, G2)
  <2> HIDE DEF E2, P2, R2, G2
  <2> QED BY <1>3, <1>4, RemainingCome
<1>11. WiresCome(G2, wire, W2)
  <2> HIDE DEF W2, G2, G
  <2> QED BY <1>7, <1>9 DEF WiresCome, WireTame
<1> QED BY <1>5, <1>6, <1>8, <1>10, <1>11, BusyStep

\* Every step keeps it.
LEMMA NextTame ==
    ASSUME AtMostTwoNodes, ~Reforward, Meetings(channels, wire), Onwards, [Next]_vars
    PROVE  Tame'
<1>1. CASE UNCHANGED vars
  <2>1. endpoints' = endpoints /\ call' = call /\ pending' = pending /\ wire' = wire
    BY <1>1 DEF vars, netVars
  <2> QED BY <2>1, TameApart
<1>2. ASSUME NEW n \in Nodes, NEW t \in Threads, Application(n, t) PROVE Tame'
  <2>1. CASE CreateMessagePipes(n, t)
    BY <2>1, CreateMessagePipesTame
  <2>2. ASSUME NEW m \in Nodes, SendInvitation(n, t, m) PROVE Tame'
    BY <2>2, SendInvitationTame
  <2>3. CASE AcceptInvitation(n, t)
    <3>1. endpoints' = endpoints /\ call' = call /\ pending' = pending /\ wire' = wire
      BY <2>3 DEF AcceptInvitation
    <3> QED BY <3>1, TameApart
  <2>4. CASE SendMessage(n, t)
    BY <2>4, SendMessageTame
  <2>5. ASSUME NEW x \in held[n], Bind(n, t, x) PROVE Tame'
    BY <2>5, BindTame
  <2> QED BY <1>2, <2>1, <2>2, <2>3, <2>4, <2>5 DEF Application
<1>3. ASSUME NEW n \in Nodes, NEW t \in Threads, RunTask(n, t) PROVE Tame'
  <2>1. endpoints' = endpoints /\ call' = call /\ pending' = pending /\ wire' = wire
    BY <1>3, ZenonT(30) DEF RunTask
  <2> QED BY <2>1, TameApart
<1>4. ASSUME NEW n \in Nodes, IOThread(n) PROVE Tame'
  <2>1. PICK m \in Nodes :
            \/ OnReceivedInvitation(n, m)
            \/ OnReceivedAcceptInvitation(n, m)
            \/ OnReceivedUserMessage(n, m)
            \/ ForwardUserMessage(n, m)
    BY <1>4 DEF IOThread
  <2>2. CASE OnReceivedInvitation(n, m)
    BY <2>2, OnReceivedInvitationTame
  <2>3. CASE OnReceivedAcceptInvitation(n, m)
    BY <2>3, OnReceivedAcceptInvitationTame
  <2>4. CASE OnReceivedUserMessage(n, m)
    BY <2>4, OnReceivedUserMessageTame
  <2>5. CASE ForwardUserMessage(n, m)
    BY <2>5, ForwardUserMessageTame
  <2> QED BY <2>1, <2>2, <2>3, <2>4, <2>5
<1>5. ASSUME NEW n \in Nodes, NEW t \in AllThreads, Flush(n, t) PROVE Tame'
  BY <1>5, FlushOneTame, FlushDoneTame DEF Flush
<1> QED BY <1>1, <1>2, <1>3, <1>4, <1>5 DEF Next

\* At first there is nothing to tame.
LEMMA InitTame ==
    ASSUME Init
    PROVE  Naming /\ Tame
<1>1. /\ \A n \in Nodes : DOMAIN endpoints[n] = {} /\ DOMAIN channels[n] = {} /\ DOMAIN pending[n] = {}
      /\ names = [e \in Ends |-> 0] /\ moves = [p \in 1..MaxPipes |-> 0]
  BY DEF Init
<1>2. Naming
  <2>1. BornTogether(endpoints) /\ ReservedNamed(pending, names, moves) /\ OneKey(channels)
    BY <1>1 DEF BornTogether, ReservedNamed, OneKey
  <2>2. NotMadeNotMoved(moves, pipes)
    BY <1>1 DEF NotMadeNotMoved
  <2>3. MovesNamed(names, moves)
    BY <1>1, EndsFit DEF MovesNamed, Ends
  <2> QED BY <2>1, <2>2, <2>3 DEF Naming
<1>3. /\ \A n \in Nodes : \A t \in AllThreads : DOMAIN call[n][t].msgs = {}
      /\ \A m, n \in Nodes : DOMAIN wire[m][n] = {}
  BY DEF Init, Idle
<1>4. \A G : AllTame(endpoints, call, wire, pending, carriers, G)
  BY <1>1, <1>3 DEF AllTame, CallsTame, WiresTame, QueuesTame, AllReservedTame
<1>5. PinsMoved(endpoints, call, moves)
  BY <1>1 DEF PinsMoved
<1> QED BY <1>2, <1>4, <1>5 DEF Tame

\* Between two nodes whose applications keep the rule of Reforward = FALSE (what
\* a pipe's ends may be sent in, and when the pipe may carry handles), the CHECKs
\* of SendMessagesAndRecursiveDependents (node.cc:502, endpoint.cc:108, 154) cannot
\* fail: every handle in the message about to be written is an endpoint that the
\* node has and that nobody has moved, and the channel (node.cc:541) exists.
THEOREM DependentsAlwaysReady == AtMostTwoNodes /\ ~Reforward => (Spec => []DependentsReady)
<1> SUFFICES ASSUME AtMostTwoNodes, ~Reforward PROVE Spec => []DependentsReady
  OBVIOUS
<1> DEFINE Inv == /\ IndInv /\ PlaceInv /\ Meetings(channels, wire)
                  /\ Naming /\ Tame
<1>1. Init => Inv
  BY InitSound, InitPlaces, InitMeets, InitTame
<1>2. Inv /\ [Next]_vars => Inv'
  <2> SUFFICES ASSUME Inv, [Next]_vars PROVE Inv'
    OBVIOUS
  <2>1. IndInv' /\ PlaceInv' /\ Meetings(channels', wire')
    BY NextSound, NextPlaces, NextMeets
  <2>2. Naming' /\ CarryMore /\ Grown
    BY <2>1, NextNaming
  <2>3. Tame'
    BY <2>1, <2>2, NextTame DEF Onwards
  <2> QED BY <2>1, <2>2, <2>3
<1>3. Inv => DependentsReady
  <2> SUFFICES ASSUME IndInv, PlaceInv, Tame, NEW n \in Nodes, NEW t \in AllThreads,
                      call[n][t].msgs # << >>
               PROVE  /\ call[n][t].dest \in DOMAIN channels[n]
                      /\ \A d \in ToSet(Head(call[n][t].msgs).descs) :
                            d.name \in Local(n) /\ endpoints[n][d.name].state = "queueing"
    BY DEF DependentsReady
  <2> DEFINE msgs == call[n][t].msgs
             msg == Head(msgs)
  <2>1. call[n][t].dest \in DOMAIN channels[n]
    BY DEF PlaceInv, CallsBound
  <2>2. PICK S : msgs \in Seq(S)
    BY DEF IndInv, CallsSound, Calls
  <2>3. 1 \in DOMAIN msgs /\ msg = msgs[1]
    BY <2>2
  <2> HIDE DEF msg
  <2>4. CallReady(endpoints, pending, n, msg)
    BY <2>3 DEF PlaceInv, CallsReady
  <2>5. Own(endpoints, n, msg)
    BY <2>3 DEF Tame, AllTame, CallsTame, CallTame
  <2> HIDE DEF msgs
  <2>6. CASE Fresh(endpoints, pending, n, msg)
    BY <2>1, <2>6 DEF Fresh, Available, Local, msg, msgs
  <2>7. CASE Stale(endpoints, n, msg)
    <3>1. \A d \in ToSet(msg.descs) : FALSE
      BY <2>5, <2>7 DEF Stale, Own, PlaceInv, NamesApart
    <3> QED BY <2>1, <3>1 DEF msg, msgs
  <2> QED BY <2>4, <2>6, <2>7 DEF CallReady
<1> QED BY <1>1, <1>2, <1>3, PTL DEF Spec
=============================================================================
