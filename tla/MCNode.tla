------------------------------- MODULE MCNode -------------------------------
(***************************************************************************)
(* Small networks for TLC.                                                  *)
(***************************************************************************)
EXTENDS NodeProperties

CONSTANTS A, B, C

\* A parent and its child.
ParentChild == {<<A, B>>}

\* A parent and two children, which have no channel to each other.
Star == {<<A, B>>, <<A, C>>}

\* What ends of pipes are for: anything, or one side to send on (a Remote) and
\* the other to receive (a Receiver).
AnyEnd == (1..MaxPipes) \X {1, 2}
FirstSides == (1..MaxPipes) \X {1}
SecondSides == (1..MaxPipes) \X {2}

\* The state after invitations 1, 2, ... have been accepted and reported, in
\* that order, and before anything else has happened: where the runs that are
\* not about invitations start.
Accepted == CASE Invitations = ParentChild -> <<<<A, B>>>>
              [] Invitations = Star -> <<<<A, B>>, <<A, C>>>>

Parent(i) == Accepted[i][1]
Child(i) == Accepted[i][2]
InvitationPipes == DOMAIN Accepted

ConnectedInit ==
    /\ endpoints = [n \in Nodes |->
          [x \in UNION {{<<i, 1, 0>>, <<i, 2, 0>>} : i \in {j \in InvitationPipes : Parent(j) = n}}
                 \cup {<<i, 2, 1>> : i \in {j \in InvitationPipes : Child(j) = n}} |->
             CASE x[2] = 1 -> NewEndpoint(Address(n, <<x[1], 2, 0>>))
               [] x[2] = 2 /\ x[3] = 0 ->
                    Proxying(NewEndpoint(Address(n, <<x[1], 1, 0>>)),
                             Address(Child(x[1]), <<x[1], 2, 1>>))
               [] x[2] = 2 /\ x[3] = 1 ->
                    NewEndpoint(Address(Parent(x[1]), <<x[1], 1, 0>>))]]
    /\ channels = [n \in Nodes |->
          [m \in {k \in Nodes : <<n, k>> \in Invitations \/ <<k, n>> \in Invitations} |-> m]]
    /\ joined = {i[2] : i \in Invitations}
    /\ held = [n \in Nodes |->
          {<<i, 1, 0>> : i \in {j \in InvitationPipes : Parent(j) = n}}
          \cup {<<i, 2, 1>> : i \in {j \in InvitationPipes : Child(j) = n}}]
    /\ names = [e \in Ends |-> IF e[1] \in InvitationPipes THEN e[2] ELSE 0]
    /\ pipes = Len(Accepted)
    /\ moves = [p \in 1..MaxPipes |-> IF p \in InvitationPipes THEN 1 ELSE 0]
    /\ told = [n \in Nodes |-> {m \in Nodes : <<n, m>> \in Invitations}]
    /\ pending = [n \in Nodes |-> << >>]
    /\ wire = [m \in Nodes |-> [n \in Nodes |-> << >>]]
    /\ call = [n \in Nodes |-> [t \in AllThreads |-> Idle]]
    /\ tasks = [n \in Nodes |-> [t \in Threads |-> << >>]]
    /\ acceptCallback = [n \in Nodes |-> NoOne]
    /\ carriers = {}
    /\ sent = [e \in Ends |-> 0]
    /\ got = [e \in Ends |-> << >>]

ConnectedSpec == ConnectedInit /\ [][Next]_vars
=============================================================================
