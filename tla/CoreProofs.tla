----------------------------- MODULE CoreProofs -----------------------------
(***************************************************************************)
(* `Core` proved for any application threads, any number of calls,          *)
(* invitations and messages.  The inductive invariant `IInv` says of every   *)
(* thread how far it is: which handles it has made, which of them it has     *)
(* registered, what its invitation has reached.  With the lock of the        *)
(* counter this makes every handle and every endpoint fresh when it is       *)
(* inserted, and with the order of the accesses on each path every lookup    *)
(* finds what it must; `Targets` says that what a call is about was there      *)
(* when it began, and nothing but a rename of a channel ever takes it away.   *)
(***************************************************************************)
EXTENDS Core, TLAPS
-----------------------------------------------------------------------------
(* The invariant.                                                           *)

\* What a thread may be doing.
Jobs == {"create", "invite", "send", "sendHandle", "sendAway", "bind", "join",
         "accept", "receive", "forward", "invited"}
\* The calls of the application's threads, and what the IO thread handles.
AppJobs == {"create", "invite", "send", "sendHandle", "sendAway", "bind", "join"}
IOJobs == {"accept", "receive", "forward", "invited"}
\* A handle and its endpoint; and with its peer, as the application has it.
Entries == [handle : Nat, endpoint : Names]
Givens == [handle : Nat, endpoint : Names, peer : Names \cup {Remote}]
\* What a lookup leaves behind: the counter's value, a name, or nothing.
Foundables == ({"handle", "unknown"} \cup AllThreads \cup {NoThread}) \X Nat

\* The types of the variables.  What waits for an acceptance is an endpoint of
\* this process; only invitations that were sent are accepted.
Types ==
    /\ role \in Roles /\ role \in {"inviter", "invitee"}
    /\ job \in [AllThreads -> Jobs \cup {"idle"}]
    /\ pc \in [AllThreads -> Nat]
    /\ arg \in [AllThreads -> Nat]
    /\ found \in [AllThreads -> Foundables]
    /\ mine \in [AllThreads -> Seq(Entries)]
    /\ registered \in [AllThreads -> Nat]
    /\ made \in [AllThreads -> Nat]
    /\ lock \in [Tables -> AllThreads \cup {NoThread}]
    /\ next \in Nat
    /\ DOMAIN handles \subseteq Nat /\ \A h \in DOMAIN handles : handles[h] \in Names
    /\ endpoints \subseteq Names
    /\ DOMAIN pending \subseteq Invitations /\ \A i \in DOMAIN pending : pending[i] \in endpoints
    /\ callback \in Invitations \cup {Nothing}
    /\ accepted \subseteq invited /\ told \subseteq Invitations /\ invited \subseteq Invitations
    /\ {joinable, started, joined} \subseteq BOOLEAN
    /\ returned \subseteq Givens
    /\ begun \in Nat

\* Every call is on its path; application threads make calls and the IO thread
\* handles messages.
Places ==
    /\ \A t \in Threads : job[t] \in AppJobs \cup {"idle"}
    /\ job[IO] \in IOJobs \cup {"idle"}
    /\ \A t \in AllThreads :
          /\ Idle(t) => pc[t] = 1
          /\ ~Idle(t) => pc[t] \in 1..(Len(Path[job[t]]) + 1)
          /\ job[t] \in {"invite", "accept"} => role = "inviter"
          /\ job[t] \in {"join", "invited"} => role = "invitee"

\* Between the two halves of GetNextMessagePipe's increment.
AtWriteNext(t) == ~Idle(t) /\ pc[t] \in 1..Len(Path[job[t]]) /\ Path[job[t]][pc[t]] = "writeNext"

\* Only the counter's lock is ever held between two steps, by the thread that
\* has read the counter and will write it: what it read is still there.
Counter ==
    /\ \A k \in Tables \ {"next"} : lock[k] = NoThread
    /\ \A t \in AllThreads : lock["next"] = t <=> AtWriteNext(t)
    /\ \A t \in AllThreads : AtWriteNext(t) => found[t] = <<"handle", next>>

\* How many of the two places a call has passed; and the same for one place.
Past(p, first, second) == IF p > second THEN 2 ELSE IF p > first THEN 1 ELSE 0
Single(p, first) == IF p > first THEN 1 ELSE 0

\* How many handles a call has made, how many of those are in the handle table
\* and how many of their endpoints in local_endpoints_, at each place of its path.
Created(t) ==
    CASE job[t] = "create"  -> Past(pc[t], 2, 4)
      [] job[t] = "invite"  -> Past(pc[t], 3, 5)
      [] job[t] \in {"receive", "forward"} -> Single(pc[t], 3)
      [] job[t] = "invited" -> Single(pc[t], 5)
      [] OTHER              -> 0

Stored(t) ==
    CASE job[t] = "create"  -> Past(pc[t], 6, 9)
      [] job[t] = "invite"  -> Past(pc[t], 7, 10)
      [] job[t] \in {"receive", "forward"} -> Single(pc[t], 5)
      [] job[t] = "invited" -> Single(pc[t], 6)
      [] OTHER              -> 0

Entered(t) ==
    CASE job[t] = "create"  -> Past(pc[t], 7, 10)
      [] job[t] = "invite"  -> Past(pc[t], 8, 11)
      [] job[t] \in {"receive", "forward"} -> Single(pc[t], 6)
      [] OTHER              -> 0

\* OnReceivedInvitation's endpoint is in the map before it has a handle.
Ahead(t) == job[t] = "invited" /\ pc[t] \in 3..5

\* Handles in the table are below the counter, endpoints among those made.
Fresh ==
    /\ \A h \in DOMAIN handles :
          /\ h < next
          /\ \A t \in AllThreads : handles[h][1] = t => handles[h][2] <= made[t]
    /\ \A e \in endpoints : \A t \in AllThreads :
          e[1] = t => e[2] <= made[t] \/ (Ahead(t) /\ e[2] = made[t] + 1)
    /\ \A t \in AllThreads : Ahead(t) => <<t, made[t] + 1>> \in endpoints

\* The i-th handle of a call, with its endpoint: in the tables from the step that
\* inserts it on, and not before.
Kept(t, i) ==
    LET entry == mine[t][i]
    IN  /\ entry.handle < next
        /\ entry.endpoint[1] = t
        /\ entry.endpoint[2] <= made[t]
        /\ i <= Stored(t) => /\ entry.handle \in DOMAIN handles
                             /\ handles[entry.handle] = entry.endpoint
        /\ i > Stored(t) => /\ entry.handle \notin DOMAIN handles
                            /\ \A h \in DOMAIN handles : handles[h] # entry.endpoint
        /\ (i <= Entered(t) \/ job[t] = "invited") => entry.endpoint \in endpoints
        /\ (i > Entered(t) /\ job[t] # "invited") => entry.endpoint \notin endpoints

\* Every call has made and registered what its place says.
Progress ==
    \A t \in AllThreads :
        /\ Len(mine[t]) = Created(t)
        /\ registered[t] = Entered(t)
        /\ \A i \in 1..Created(t) : Kept(t, i)

\* No handle and no endpoint is made twice.
Distinct ==
    \A t, u \in AllThreads : \A i \in 1..Created(t) : \A j \in 1..Created(u) :
        t # u \/ i # j => /\ mine[t][i].handle # mine[u][j].handle
                          /\ mine[t][i].endpoint # mine[u][j].endpoint

\* Invitations.  One that was written is pending, with its channel, until its
\* acceptance is taken; an acceptance on its way has what its next steps look up;
\* a process that can send has a channel to a known process.
Invited ==
    /\ role = "invitee" => invited = {}
    /\ \A t \in AllThreads : job[t] = "invite" =>
          /\ arg[t] \in Invitations /\ arg[t] <= begun
          /\ arg[t] \in invited <=> pc[t] > 15
          /\ pc[t] \in 14..15 => Temporary(arg[t]) \in channels
          /\ pc[t] = 15 => arg[t] \in DOMAIN pending
          /\ \A u \in AllThreads : t # u /\ job[u] = "invite" => arg[t] # arg[u]
    /\ \A i \in invited : i <= begun
    /\ \A i \in invited \ accepted : i \in DOMAIN pending /\ Temporary(i) \in channels
    /\ job[IO] = "accept" =>
          /\ arg[IO] \in invited
          /\ arg[IO] \in accepted <=> pc[IO] > 1
          /\ pc[IO] <= 3 => Temporary(arg[IO]) \in channels
          /\ pc[IO] >= 4 => Actual(arg[IO]) \in channels
          /\ pc[IO] = 8 => callback # Nothing
    /\ accepted # {} /\ job[IO] # "accept" => Known \cap channels # {}
    /\ \A t \in AllThreads : job[t] \in {"send", "sendAway", "forward"} => Known \cap channels # {}

\* Being invited.  The callback is kept and the channel there before the channel is
\* started; the inviter is in the map once its invitation was handled.
Joins ==
    /\ \A t \in AllThreads : job[t] = "join" =>
          /\ begun # 0
          /\ pc[t] <= 3 => ~started
          /\ pc[t] >= 2 => joinable
          /\ pc[t] = 3 => Initial \in channels
          /\ \A u \in AllThreads : job[u] = "join" => t = u
    /\ started => role = "invitee" /\ begun # 0 /\ joinable
    /\ joined => started
    /\ started /\ ~joined => Initial \in channels
    /\ job[IO] = "invited" => joined /\ (pc[IO] = 1 => Initial \in channels)
    /\ joined /\ ~(job[IO] = "invited" /\ pc[IO] = 1) => Inviter \in channels
    /\ role = "invitee" /\ (\/ job[IO] \in {"receive", "forward"}
                            \/ \E r \in returned : r.endpoint[1] = IO
                            \/ \E t \in AllThreads : job[t] \in {"send", "sendAway"})
       => joined /\ job[IO] # "invited"

\* A call looks up the handle it was given, before it has found its channel.
ByHandle(t) == \/ job[t] \in {"sendHandle", "bind"}
               \/ job[t] = "send" /\ pc[t] <= 3
               \/ job[t] = "sendAway" /\ pc[t] <= 6

\* A message carries a handle, or by now the name of its endpoint.
Carries(t) == job[t] \in {"sendHandle", "sendAway"} /\ pc[t] <= 2
Carried(t) == job[t] \in {"sendHandle", "sendAway"} /\ pc[t] >= 3

\* A handler is about to look up the name in its message, or a reserved or a
\* queued one.
Aims(t) == \/ job[t] = "accept" /\ pc[t] \in {2, 5}
           \/ job[t] \in {"receive", "forward"} /\ pc[t] = 1

\* A call knows its channel.
Routed(t) == \/ job[t] = "send" /\ pc[t] >= 4
             \/ job[t] = "sendAway" /\ pc[t] >= 7
             \/ job[t] = "forward"

\* What a call is about is there: a handle that was returned, an endpoint with a
\* handle, a channel with a name.
Aimed(t) ==
    /\ ByHandle(t) => \E r \in returned : r.handle = arg[t]
    /\ Carries(t) => \E r \in returned : r.handle = found[t][2]
    /\ Carried(t) => /\ found[t] \in endpoints
                     /\ \E h \in DOMAIN handles : handles[h] = found[t]
    /\ Aims(t) => found[t] \in endpoints
    /\ Routed(t) => Route(arg[t]) \in channels

\* So are the local peers, the endpoints others know of and those in the messages
\* that are queued.
Targets ==
    /\ queued \subseteq endpoints /\ announced \subseteq endpoints
    /\ \A r \in returned : r.peer = Remote \/ r.peer \in endpoints
    /\ \A t \in AllThreads : Aimed(t)

\* The inductive invariant.
IInv == /\ Types /\ Places /\ Counter /\ Fresh /\ Progress /\ Distinct
        /\ HandlesUnique /\ Invited /\ Joins /\ Targets

-----------------------------------------------------------------------------
(* The paths, and the types.                                               *)

\* The lengths of the paths.
LEMMA PathLengths ==
    /\ Len(Path["create"]) = 12
    /\ Len(Path["invite"]) = 15
    /\ Len(Path["send"]) = 4
    /\ Len(Path["sendHandle"]) = 8
    /\ Len(Path["sendAway"]) = 8
    /\ Len(Path["bind"]) = 1
    /\ Len(Path["join"]) = 3
    /\ Len(Path["accept"]) = 8
    /\ Len(Path["receive"]) = 6
    /\ Len(Path["forward"]) = 8
    /\ Len(Path["invited"]) = 7
  BY DEF Path, CreatePath, InvitePath, SendPath, SendHandlePath, SendAwayPath, BindPath, JoinPath,
         AcceptPath, ReceivePath, ForwardPath, InvitedPath

\* Where each step is on the paths.
LEMMA PathSteps ==
    ASSUME NEW j \in Jobs, NEW p \in 1..Len(Path[j])
    PROVE
      /\ Path[j][p] = "readNext" <=>
            \/ j = "create" /\ p \in {1, 3}
            \/ j = "invite" /\ p \in {2, 4}
            \/ j \in {"receive", "forward"} /\ p = 2
            \/ j = "invited" /\ p = 4
      /\ Path[j][p] = "writeNext" <=>
            \/ j = "create" /\ p \in {2, 4}
            \/ j = "invite" /\ p \in {3, 5}
            \/ j \in {"receive", "forward"} /\ p = 3
            \/ j = "invited" /\ p = 5
      /\ Path[j][p] = "checkHandle" <=>
            \/ j = "create" /\ p \in {5, 8}
            \/ j = "invite" /\ p \in {6, 9}
            \/ j \in {"receive", "forward"} /\ p = 4
      /\ Path[j][p] = "insertHandle" <=>
            \/ j = "create" /\ p \in {6, 9}
            \/ j = "invite" /\ p \in {7, 10}
            \/ j \in {"receive", "forward"} /\ p = 5
            \/ j = "invited" /\ p = 6
      /\ Path[j][p] = "insertEndpoint" <=>
            \/ j = "create" /\ p \in {7, 10}
            \/ j = "invite" /\ p \in {8, 11}
            \/ j \in {"receive", "forward"} /\ p = 6
      /\ Path[j][p] = "confirmEndpoints" <=>
            \/ j = "create" /\ p = 11
            \/ j = "invite" /\ p = 12
      /\ Path[j][p] = "confirmHandles" <=> j = "create" /\ p = 12
      /\ Path[j][p] = "setCallback" <=> j = "invite" /\ p = 1
      /\ Path[j][p] = "insertChannel" <=> j = "invite" /\ p = 13
      /\ Path[j][p] = "insertPending" <=> j = "invite" /\ p = 14
      /\ Path[j][p] = "invite" <=> j = "invite" /\ p = 15
      /\ Path[j][p] = "findHandle" <=>
            \/ j = "send" /\ p = 1
            \/ j \in {"sendHandle", "sendAway"} /\ p \in {1, 3}
            \/ j = "bind" /\ p = 1
      /\ Path[j][p] = "findPeer" <=>
            \/ j = "send" /\ p = 2
            \/ j \in {"sendHandle", "sendAway"} /\ p = 5
      /\ Path[j][p] = "findChannel" <=>
            \/ j = "send" /\ p = 3
            \/ j \in {"sendHandle", "sendAway"} /\ p = 6
      /\ Path[j][p] = "writeChannel" <=>
            \/ j = "send" /\ p = 4
            \/ j = "accept" /\ p = 6
            \/ j \in {"sendAway", "forward"} /\ p = 8
      /\ Path[j][p] = "findCarried" <=> j \in {"sendHandle", "sendAway"} /\ p = 2
      /\ Path[j][p] = "findSent" <=> j \in {"sendHandle", "sendAway"} /\ p = 4
      /\ Path[j][p] = "deliver" <=> j = "sendHandle" /\ p = 8
      /\ Path[j][p] = "recoverExisting" <=> j = "sendHandle" /\ p = 7
      /\ Path[j][p] = "findDependent" <=>
            \/ j = "sendAway" /\ p = 7
            \/ j = "accept" /\ p = 5
      /\ Path[j][p] = "findRecovered" <=> j = "forward" /\ p = 7
      /\ Path[j][p] = "takeQueued" <=> j = "accept" /\ p = 4
      /\ Path[j][p] = "setJoinCallback" <=> j = "join" /\ p = 1
      /\ Path[j][p] = "insertInitial" <=> j = "join" /\ p = 2
      /\ Path[j][p] = "start" <=> j = "join" /\ p = 3
      /\ Path[j][p] = "takePending" <=> j = "accept" /\ p = 1
      /\ Path[j][p] = "findReserved" <=> j = "accept" /\ p = 2
      /\ Path[j][p] = "renameChannel" <=> j = "accept" /\ p = 3
      /\ Path[j][p] = "testCallback" <=> j = "accept" /\ p = 7
      /\ Path[j][p] = "moveCallback" <=> j = "accept" /\ p = 8
      /\ Path[j][p] = "findTarget" <=>
            \/ j = "receive" /\ p = 1
            \/ j = "forward" /\ p = 1
      /\ Path[j][p] = "renameInitial" <=> j = "invited" /\ p = 1
      /\ Path[j][p] = "insertInvited" <=> j = "invited" /\ p = 2
      /\ Path[j][p] = "accept" <=> j = "invited" /\ p = 3
      /\ Path[j][p] = "report" <=> j = "invited" /\ p = 7
<1>1. CASE j = "create"
  BY <1>1, PathLengths, SMTT(60) DEF Path, CreatePath
<1>2. CASE j = "invite"
  BY <1>2, PathLengths, SMTT(60) DEF Path, InvitePath
<1>3. CASE j = "send"
  BY <1>3, PathLengths, SMTT(60) DEF Path, SendPath
<1>4. CASE j = "sendHandle"
  BY <1>4, PathLengths, SMTT(60) DEF Path, SendHandlePath
<1>5. CASE j = "bind"
  BY <1>5, PathLengths, SMTT(60) DEF Path, BindPath
<1>11. CASE j = "sendAway"
  BY <1>11, PathLengths, SMTT(60) DEF Path, SendAwayPath
<1>6. CASE j = "join"
  BY <1>6, PathLengths, SMTT(60) DEF Path, JoinPath
<1>7. CASE j = "accept"
  BY <1>7, PathLengths, SMTT(60) DEF Path, AcceptPath
<1>8. CASE j = "receive"
  BY <1>8, PathLengths, SMTT(60) DEF Path, ReceivePath
<1>9. CASE j = "forward"
  BY <1>9, PathLengths, SMTT(60) DEF Path, ForwardPath
<1>10. CASE j = "invited"
  BY <1>10, PathLengths, SMTT(60) DEF Path, InvitedPath
<1> QED
  BY <1>1, <1>2, <1>3, <1>4, <1>5, <1>6, <1>7, <1>8, <1>9, <1>10, <1>11 DEF Jobs

\* A step of a call moves it on by one place, or past what there is no reason for:
\* the report of an acceptance that has no callback, the flush of what is not queued.
Advances(t, n) ==
    /\ ~Idle(t) /\ pc[t] \in 1..Len(Path[job[t]])
    /\ \/ n = 1
       \/ n = 2 /\ Step(t) \in {"testCallback", "takeQueued"}
       \/ n = 3 /\ Step(t) = "takeQueued"
    /\ pc' = [pc EXCEPT ![t] = pc[t] + n]
    /\ UNCHANGED <<callVars, job, returned>>

\* A step done is the step the call was at; it moves on by one place and takes
\* or frees the table's lock.
LEMMA DoAdvances ==
    ASSUME Types, Places, NEW t \in AllThreads, NEW s, Do(t, s)
    PROVE  /\ Step(t) = s /\ Advances(t, 1) /\ Accessing(t)
           /\ job[t] \in Jobs
           /\ lock' = IF s \in Locked
                      THEN [lock EXCEPT ![Table(s)] = IF s \in KeepsLock THEN t ELSE NoThread]
                      ELSE lock
  BY DEF Do, Done, Advances, Accessing, Busy, Idle, Types, Places

\* What every step keeps of the types.
LEMMA StepTypes ==
    ASSUME Types, Places, NEW t \in AllThreads, NEW s, Do(t, s)
    PROVE  /\ pc' \in [AllThreads -> Nat]
           /\ lock' \in [Tables -> AllThreads \cup {NoThread}]
           /\ UNCHANGED <<callVars, job, returned>>
<1>1. Advances(t, 1)
  BY DoAdvances
<1>2. pc' \in [AllThreads -> Nat]
  BY <1>1 DEF Advances, Types
<1>3. lock' \in [Tables -> AllThreads \cup {NoThread}]
  <2>1. lock' = IF s \in Locked
                THEN [lock EXCEPT ![Table(s)] = IF s \in KeepsLock THEN t ELSE NoThread]
                ELSE lock
    BY DoAdvances
  <2> QED
    BY <2>1 DEF Types
<1> QED
  BY <1>1, <1>2, <1>3 DEF Advances

\* The step a call is at says which call it is, and how far.
LEMMA Where ==
    ASSUME Types, Places, NEW t \in AllThreads, Busy(t)
    PROVE  /\ job[t] \in Jobs /\ pc[t] \in 1..Len(Path[job[t]])
           /\ Step(t) = "readNext" =>
                  \/ job[t] = "create" /\ pc[t] \in {1, 3}
                  \/ job[t] = "invite" /\ pc[t] \in {2, 4}
                  \/ job[t] \in {"receive", "forward"} /\ pc[t] = 2
                  \/ job[t] = "invited" /\ pc[t] = 4
           /\ Step(t) = "writeNext" =>
                  \/ job[t] = "create" /\ pc[t] \in {2, 4}
                  \/ job[t] = "invite" /\ pc[t] \in {3, 5}
                  \/ job[t] \in {"receive", "forward"} /\ pc[t] = 3
                  \/ job[t] = "invited" /\ pc[t] = 5
           /\ Step(t) = "checkHandle" =>
                  \/ job[t] = "create" /\ pc[t] \in {5, 8}
                  \/ job[t] = "invite" /\ pc[t] \in {6, 9}
                  \/ job[t] \in {"receive", "forward"} /\ pc[t] = 4
           /\ Step(t) = "insertHandle" =>
                  \/ job[t] = "create" /\ pc[t] \in {6, 9}
                  \/ job[t] = "invite" /\ pc[t] \in {7, 10}
                  \/ job[t] \in {"receive", "forward"} /\ pc[t] = 5
                  \/ job[t] = "invited" /\ pc[t] = 6
           /\ Step(t) = "insertEndpoint" =>
                  \/ job[t] = "create" /\ pc[t] \in {7, 10}
                  \/ job[t] = "invite" /\ pc[t] \in {8, 11}
                  \/ job[t] \in {"receive", "forward"} /\ pc[t] = 6
           /\ Step(t) = "confirmEndpoints" =>
                  \/ job[t] = "create" /\ pc[t] = 11
                  \/ job[t] = "invite" /\ pc[t] = 12
           /\ Step(t) = "confirmHandles" => job[t] = "create" /\ pc[t] = 12
           /\ Step(t) = "setCallback" => job[t] = "invite" /\ pc[t] = 1
           /\ Step(t) = "insertChannel" => job[t] = "invite" /\ pc[t] = 13
           /\ Step(t) = "insertPending" => job[t] = "invite" /\ pc[t] = 14
           /\ Step(t) = "invite" => job[t] = "invite" /\ pc[t] = 15
           /\ Step(t) = "findHandle" =>
                  \/ job[t] = "send" /\ pc[t] = 1
                  \/ job[t] \in {"sendHandle", "sendAway"} /\ pc[t] \in {1, 3}
                  \/ job[t] = "bind" /\ pc[t] = 1
           /\ Step(t) = "findPeer" =>
                  \/ job[t] = "send" /\ pc[t] = 2
                  \/ job[t] \in {"sendHandle", "sendAway"} /\ pc[t] = 5
           /\ Step(t) = "findChannel" =>
                  \/ job[t] = "send" /\ pc[t] = 3
                  \/ job[t] \in {"sendHandle", "sendAway"} /\ pc[t] = 6
           /\ Step(t) = "writeChannel" =>
                  \/ job[t] = "send" /\ pc[t] = 4
                  \/ job[t] = "accept" /\ pc[t] = 6
                  \/ job[t] \in {"sendAway", "forward"} /\ pc[t] = 8
           /\ Step(t) = "findCarried" => job[t] \in {"sendHandle", "sendAway"} /\ pc[t] = 2
           /\ Step(t) = "findSent" => job[t] \in {"sendHandle", "sendAway"} /\ pc[t] = 4
           /\ Step(t) = "deliver" => job[t] = "sendHandle" /\ pc[t] = 8
           /\ Step(t) = "recoverExisting" => job[t] = "sendHandle" /\ pc[t] = 7
           /\ Step(t) = "findDependent" =>
                  \/ job[t] = "sendAway" /\ pc[t] = 7
                  \/ job[t] = "accept" /\ pc[t] = 5
           /\ Step(t) = "findRecovered" => job[t] = "forward" /\ pc[t] = 7
           /\ Step(t) = "takeQueued" => job[t] = "accept" /\ pc[t] = 4
           /\ Step(t) = "setJoinCallback" => job[t] = "join" /\ pc[t] = 1
           /\ Step(t) = "insertInitial" => job[t] = "join" /\ pc[t] = 2
           /\ Step(t) = "start" => job[t] = "join" /\ pc[t] = 3
           /\ Step(t) = "takePending" => job[t] = "accept" /\ pc[t] = 1
           /\ Step(t) = "findReserved" => job[t] = "accept" /\ pc[t] = 2
           /\ Step(t) = "renameChannel" => job[t] = "accept" /\ pc[t] = 3
           /\ Step(t) = "testCallback" => job[t] = "accept" /\ pc[t] = 7
           /\ Step(t) = "moveCallback" => job[t] = "accept" /\ pc[t] = 8
           /\ Step(t) = "findTarget" =>
                  \/ job[t] = "receive" /\ pc[t] = 1
                  \/ job[t] = "forward" /\ pc[t] = 1
           /\ Step(t) = "renameInitial" => job[t] = "invited" /\ pc[t] = 1
           /\ Step(t) = "insertInvited" => job[t] = "invited" /\ pc[t] = 2
           /\ Step(t) = "accept" => job[t] = "invited" /\ pc[t] = 3
           /\ Step(t) = "report" => job[t] = "invited" /\ pc[t] = 7
<1>1. job[t] \in Jobs /\ pc[t] \in Nat /\ pc[t] \in 1..Len(Path[job[t]])
  BY DEF Types, Places, Busy, Idle
<1> QED
  BY <1>1, PathSteps DEF Step

\* While handles are registered there is a current one: it is made, and in the
\* tables exactly as far as the step says.
LEMMA AtCurrent ==
    ASSUME Types, Places, Progress, NEW t \in AllThreads, Busy(t),
           Step(t) \in {"checkHandle", "insertHandle", "insertEndpoint"}
    PROVE  /\ registered[t] + 1 \in 1..Created(t)
           /\ Current(t) \in Entries
           /\ Stored(t) = IF Step(t) = "insertEndpoint" THEN registered[t] + 1 ELSE registered[t]
           /\ registered[t] = Entered(t)
           /\ Step(t) = "insertEndpoint" => job[t] # "invited"
<1>1. pc[t] \in Nat /\ registered[t] = Entered(t) /\ Len(mine[t]) = Created(t)
  BY DEF Types, Progress
<1>2. \/ job[t] = "create" /\ pc[t] \in 5..10
      \/ job[t] = "invite" /\ pc[t] \in 6..11
      \/ job[t] \in {"receive", "forward"} /\ pc[t] \in 4..6
      \/ job[t] = "invited" /\ pc[t] = 6
  BY Where
<1>3. /\ registered[t] + 1 \in 1..Created(t)
      /\ Stored(t) = IF Step(t) = "insertEndpoint" THEN registered[t] + 1 ELSE registered[t]
      /\ Step(t) = "insertEndpoint" => job[t] # "invited"
  <2>1. CASE job[t] = "create"
    BY <2>1, <1>1, <1>2, Where DEF Created, Stored, Entered, Past
  <2>2. CASE job[t] = "invite"
    BY <2>2, <1>1, <1>2, Where DEF Created, Stored, Entered, Past
  <2>3. CASE job[t] \in {"receive", "forward"}
    BY <2>3, <1>1, <1>2, Where DEF Created, Stored, Entered, Single
  <2>4. CASE job[t] = "invited"
    BY <2>4, <1>1, <1>2, Where DEF Created, Stored, Entered, Single
  <2> QED
    BY <2>1, <2>2, <2>3, <2>4, <1>2
<1>4. Current(t) \in Entries
  <2>1. mine[t] \in Seq(Entries)
    BY DEF Types
  <2> QED
    BY <2>1, <1>1, <1>3 DEF Current
<1> QED
  BY <1>1, <1>3, <1>4

\* A known channel is the route to its number.
LEMMA KnownRoutes ==
    ASSUME NEW c \in Known
    PROVE  c[2] \in Nat /\ Route(c[2]) = c
  BY BoundsAssumption DEF Known, Route, Inviter, Actual, Nothing, Invitations

\* Every access keeps the types.
LEMMA TypesKept ==
    ASSUME IInv, NEW t \in AllThreads, Access(t)
    PROVE  Types'
<1> USE DEF IInv
<1>0. /\ Accessing(t) /\ Busy(t)
      /\ \A s : Do(t, s) => /\ pc' \in [AllThreads -> Nat]
                            /\ lock' \in [Tables -> AllThreads \cup {NoThread}]
                            /\ UNCHANGED <<callVars, job, returned>>
  BY StepTypes DEF Access, Accessing
<1>1. CASE ReadNext(t)
  <2>1. found' \in [AllThreads -> Foundables]
    BY <1>1 DEF ReadNext, Types, Foundables
  <2> QED
    BY <2>1, <1>1, <1>0 DEF ReadNext, Types, tableVars, outsideVars, historyVars, callVars
<1>2. CASE WriteNext(t)
  <2>1. mine' \in [AllThreads -> Seq(Entries)]
    <3>1. [handle |-> found[t][2], endpoint |-> NewEndpoint(t)] \in Entries
      <4>1. found[t][2] \in Nat /\ made[t] + 1 \in Nat
        BY DEF Types, Foundables
      <4> QED
        BY <4>1 DEF Entries, Names, NewEndpoint
    <3>2. mine[t] \in Seq(Entries)
      BY DEF Types
    <3>3. Append(mine[t], [handle |-> found[t][2], endpoint |-> NewEndpoint(t)]) \in Seq(Entries)
      BY <3>1, <3>2
    <3> QED
      BY <3>3, <1>2 DEF WriteNext, Types
  <2>2. made' \in [AllThreads -> Nat] /\ next' \in Nat
    BY <1>2, <1>0, SMTT(30) DEF WriteNext, Types, Foundables
  <2> QED
    BY <2>1, <2>2, <1>2, <1>0 DEF WriteNext, Types, outsideVars, historyVars, callVars
<1>3. CASE InsertHandle(t)
  <2>1. Current(t) \in Entries
    BY <1>3, <1>0, AtCurrent DEF InsertHandle, Do
  <2>2. DOMAIN handles' \subseteq Nat /\ \A h \in DOMAIN handles' : handles'[h] \in Names
    BY <2>1, <1>3 DEF InsertHandle, Inserted, Types, Entries
  <2> QED
    BY <2>2, <1>3, <1>0 DEF InsertHandle, Types, localVars, outsideVars, historyVars, callVars
<1>4. CASE InsertEndpoint(t)
  <2>1. Current(t) \in Entries
    BY <1>4, <1>0, AtCurrent DEF InsertEndpoint, Do
  <2>2. endpoints' \subseteq Names /\ registered' \in [AllThreads -> Nat]
    BY <2>1, <1>4 DEF InsertEndpoint, Types, Entries
  <2>3. \A i \in DOMAIN pending' : pending'[i] \in endpoints'
    BY <1>4 DEF InsertEndpoint, Types
  <2> QED
    BY <2>2, <2>3, <1>4, <1>0 DEF InsertEndpoint, Types, outsideVars, historyVars, callVars
<1>5. CASE Look(t)
  BY <1>5, <1>0 DEF Look, Types, localVars, tableVars, outsideVars, historyVars, callVars
<1>22. CASE FindCarried(t)
  <2>1. found[t][2] \in DOMAIN handles => handles[found[t][2]] \in Foundables
    BY DEF Types, Names, Foundables
  <2>2. found' \in [AllThreads -> Foundables]
    BY <2>1, <1>22 DEF FindCarried, Finds, Types
  <2> QED
    BY <2>2, <1>22, <1>0 DEF FindCarried, Types, tableVars, outsideVars, historyVars, callVars
<1>23. CASE FindChannel(t)
  <2>1. arg' \in [AllThreads -> Nat]
    <3>1. CASE job[t] = "sendHandle"
      BY <1>23, <3>1 DEF FindChannel, Types
    <3>2. CASE job[t] # "sendHandle"
      <4>1. PICK c \in Known \cap channels : arg' = [arg EXCEPT ![t] = c[2]]
        BY <1>23, <3>2 DEF FindChannel
      <4>2. c[2] \in Nat
        BY KnownRoutes
      <4> QED
        BY <4>1, <4>2 DEF Types
    <3> QED
      BY <3>1, <3>2
  <2>2. /\ Do(t, "findChannel")
        /\ UNCHANGED <<found, mine, registered, made, tableVars, outsideVars, historyVars>>
    BY <1>23 DEF FindChannel
  <2> QED
    BY <2>1, <2>2, <1>0 DEF Types, tableVars, outsideVars, historyVars, callVars
<1>24. CASE Deliver(t)
  <2>1. Do(t, "deliver") /\ UNCHANGED <<localVars, tableVars, invited, started, announced, historyVars>>
    BY <1>24 DEF Deliver
  <2> QED
    BY <2>1, <1>0 DEF Types, localVars, tableVars, historyVars, callVars
<1>25. CASE TakeQueued(t)
  <2>1. pc' \in [AllThreads -> Nat] /\ UNCHANGED <<callVars, job, returned, lock>>
    <3>1. Step(t) = "takeQueued" /\ \E to \in {pc[t] + 1, pc[t] + 2, pc[t] + 3} : Done(t, to)
      BY <1>25 DEF TakeQueued
    <3>2. PICK to \in {pc[t] + 1, pc[t] + 2, pc[t] + 3} : Done(t, to)
      BY <3>1
    <3>3. to \in Nat /\ pc \in [AllThreads -> Nat]
      BY DEF Types
    <3>4. Step(t) \notin Locked
      BY <3>1 DEF Locked
    <3> QED
      BY <3>2, <3>3, <3>4 DEF Done
  <2>2. \A e \in queued : e \in Foundables
    BY DEF Targets, Types, Names, Foundables
  <2>3. found' \in [AllThreads -> Foundables]
    BY <2>2, <1>25 DEF TakeQueued, Types
  <2> QED
    BY <2>1, <2>3, <1>25 DEF TakeQueued, Types, tableVars, outsideVars, historyVars, callVars
<1>6. CASE WriteChannel(t)
  BY <1>6, <1>0 DEF WriteChannel, Types, localVars, tableVars, outsideVars, historyVars, callVars
<1>7. CASE SetCallback(t)
  <2>1. callback' \in Invitations
    BY <1>7, <1>0, Where DEF SetCallback, Do, Invited
  <2> QED
    BY <2>1, <1>7, <1>0 DEF SetCallback, Types, localVars, outsideVars, callVars
<1>8. CASE InsertChannel(t)
  BY <1>8, <1>0 DEF InsertChannel, Types, localVars, outsideVars, historyVars, callVars
<1>9. CASE InsertPending(t)
  <2>1. arg[t] \in Invitations /\ mine[t][2].endpoint \in endpoints
    <3>1. job[t] = "invite" /\ pc[t] = 14
      BY <1>9, <1>0, Where DEF InsertPending, Do
    <3>2. Created(t) = 2 /\ Entered(t) = 2
      BY <3>1 DEF Created, Entered, Past
    <3> QED
      BY <3>1, <3>2 DEF Invited, Progress, Kept
  <2>2. DOMAIN pending' \subseteq Invitations /\ \A i \in DOMAIN pending' : pending'[i] \in endpoints'
    BY <2>1, <1>9 DEF InsertPending, Inserted, Types
  <2> QED
    BY <2>2, <1>9, <1>0 DEF InsertPending, Types, localVars, outsideVars, historyVars, callVars
<1>10. CASE SendInvitation(t)
  <2>1. arg[t] \in Invitations
    BY <1>10, <1>0, Where DEF SendInvitation, Do, Invited
  <2> QED
    BY <2>1, <1>10, <1>0 DEF SendInvitation, Types, localVars, tableVars, historyVars, callVars
<1>11. CASE TakePending(t)
  <2>1. t = IO /\ job[IO] = "accept"
    BY <1>11, <1>0, Where DEF TakePending, Do, Places, AllThreads, AppJobs
  <2>2. arg[t] \in invited
    BY <2>1 DEF Invited
  <2>3. found' \in [AllThreads -> Foundables]
    <3>1. pending[arg[t]] \in Names
      BY <1>11 DEF TakePending, Types
    <3>2. pending[arg[t]] \in Foundables
      BY <3>1 DEF Names, Foundables
    <3> QED
      BY <3>2, <1>11 DEF TakePending, Types
  <2>4. /\ DOMAIN pending' \subseteq DOMAIN pending
        /\ \A i \in DOMAIN pending' : pending'[i] = pending[i]
    BY <1>11 DEF TakePending, Restrict
  <2> QED
    BY <2>2, <2>3, <2>4, <1>11, <1>0 DEF TakePending, Types, outsideVars, callVars
<1>12. CASE RenameChannel(t)
  BY <1>12, <1>0 DEF RenameChannel, Types, localVars, outsideVars, historyVars, callVars
<1>13. CASE TestCallback(t)
  <2>1. pc' \in [AllThreads -> Nat] /\ UNCHANGED <<callVars, job, returned, lock>>
    BY <1>13 DEF TestCallback, Done, Types, Locked
  <2> QED
    BY <2>1, <1>13 DEF TestCallback, Types, localVars, tableVars, outsideVars, historyVars, callVars
<1>14. CASE MoveCallback(t)
  <2>1. t = IO /\ job[IO] = "accept" /\ pc[IO] = 8
    BY <1>14, <1>0, Where DEF MoveCallback, Do, Places, AllThreads, AppJobs
  <2>2. callback \in Invitations
    BY <2>1 DEF Invited, Types
  <2> QED
    BY <2>2, <1>14, <1>0 DEF MoveCallback, Types, localVars, outsideVars, callVars
<1>15. CASE SetJoinCallback(t)
  BY <1>15, <1>0 DEF SetJoinCallback, Types, localVars, outsideVars, historyVars, callVars
<1>16. CASE InsertInitial(t)
  BY <1>16, <1>0 DEF InsertInitial, Types, localVars, outsideVars, historyVars, callVars
<1>17. CASE StartChannel(t)
  BY <1>17, <1>0 DEF StartChannel, Types, localVars, tableVars, historyVars, callVars
<1>18. CASE RenameInitial(t)
  BY <1>18, <1>0 DEF RenameInitial, Types, localVars, outsideVars, historyVars, callVars
<1>19. CASE InsertInvited(t)
  <2>1. endpoints \subseteq endpoints' /\ endpoints' \subseteq Names
    BY <1>19 DEF InsertInvited, Types, NewEndpoint, Names
  <2> QED
    BY <2>1, <1>19, <1>0 DEF InsertInvited, Types, localVars, outsideVars, historyVars, callVars
<1>20. CASE SendAcceptance(t)
  BY <1>20, <1>0 DEF SendAcceptance, Types, localVars, tableVars, outsideVars, historyVars, callVars
<1>21. CASE Report(t)
  BY <1>21, <1>0 DEF Report, Types, localVars, tableVars, outsideVars, historyVars, callVars
<1> QED
  BY <1>1, <1>2, <1>3, <1>4, <1>5, <1>6, <1>7, <1>8, <1>9, <1>10, <1>11, <1>12, <1>13, <1>14,
     <1>15, <1>16, <1>17, <1>18, <1>19, <1>20, <1>21, <1>22, <1>23, <1>24, <1>25
  DEF Access, Inviting, BeingInvited

-----------------------------------------------------------------------------
(* The counter and its lock.                                               *)

\* Every access moves its call on.
LEMMA AccessAdvances ==
    ASSUME Types, Places, NEW t \in AllThreads, Access(t)
    PROVE  \E n \in 1..3 : Advances(t, n)
<1>1. ASSUME NEW s, Do(t, s) PROVE Advances(t, 1)
  BY <1>1, DoAdvances
<1>2. ASSUME TestCallback(t) PROVE Advances(t, IF callback = Nothing THEN 2 ELSE 1)
  BY <1>2 DEF TestCallback, Done, Advances, Accessing, Busy, Idle, Types, Places
<1>4. ASSUME TakeQueued(t) PROVE Advances(t, 1) \/ Advances(t, 2) \/ Advances(t, 3)
  BY <1>4 DEF TakeQueued, Done, Advances, Accessing, Busy, Idle, Types, Places
<1> QED
  BY <1>1, <1>2, <1>4 DEF Access, ReadNext, WriteNext, InsertHandle, InsertEndpoint, Look,
     FindCarried, FindChannel, Deliver, WriteChannel, Inviting, BeingInvited, SetCallback, InsertChannel, InsertPending, SendInvitation,
     TakePending, RenameChannel, MoveCallback, SetJoinCallback, InsertInitial, StartChannel,
     RenameInitial, InsertInvited, SendAcceptance, Report

\* Every access keeps calls on their paths.
LEMMA PlacesKept ==
    ASSUME Types, Places, NEW t \in AllThreads, NEW n \in 1..3, Advances(t, n)
    PROVE  Places'
<1>1. pc[t] + n \in 1..(Len(Path[job[t]]) + 1) /\ pc[t] \in Nat /\ Busy(t)
  <2>1. pc[t] \in Nat /\ pc[t] \in 1..Len(Path[job[t]]) /\ Busy(t)
    BY DEF Types, Advances, Busy
  <2>2. CASE n = 1
    BY <2>1, <2>2
  <2>3. CASE n # 1
    <3>1. \/ job[t] = "accept" /\ pc[t] = 4
          \/ job[t] = "accept" /\ pc[t] = 7 /\ n = 2
      BY <2>1, <2>3, Where DEF Advances
    <3>2. Len(Path[job[t]]) = 8
      BY <3>1, PathLengths
    <3> QED
      BY <2>1, <2>3, <3>1, <3>2
  <2> QED
    BY <2>2, <2>3
<1> QED
  BY <1>1 DEF Places, Advances, Idle, Types, callVars

\* A thread is about to write the counter exactly after it has read it.
LEMMA WritesNext ==
    ASSUME Types, Places, NEW t \in AllThreads, NEW n \in 1..3, Advances(t, n)
    PROVE  /\ AtWriteNext(t) <=> Step(t) = "writeNext"
           /\ AtWriteNext(t)' <=> Step(t) = "readNext"
           /\ \A u \in AllThreads \ {t} : AtWriteNext(u)' <=> AtWriteNext(u)
<1>1. AtWriteNext(t) <=> Step(t) = "writeNext"
  BY DEF AtWriteNext, Step, Advances
<1>2. \A u \in AllThreads \ {t} : AtWriteNext(u)' <=> AtWriteNext(u)
  BY DEF AtWriteNext, Advances, Types, Idle
<1>3. AtWriteNext(t)' <=> Step(t) = "readNext"
  <2>1. /\ job[t] \in Jobs /\ pc[t] \in Nat /\ ~Idle(t) /\ Busy(t)
        /\ pc'[t] = pc[t] + n /\ job'[t] = job[t] /\ pc[t] \in 1..Len(Path[job[t]])
    BY DEF Advances, Types, Idle, Busy
  <2>2. AtWriteNext(t)' <=>
          /\ pc[t] + n \in 1..Len(Path[job[t]])
          /\ Path[job[t]][pc[t] + n] = "writeNext"
    BY <2>1 DEF AtWriteNext, Idle
  <2>3. AtWriteNext(t)' <=>
          /\ pc[t] + n \in 1..Len(Path[job[t]])
          /\ \/ job[t] = "create" /\ pc[t] + n \in {2, 4}
             \/ job[t] = "invite" /\ pc[t] + n \in {3, 5}
             \/ job[t] \in {"receive", "forward"} /\ pc[t] + n = 3
             \/ job[t] = "invited" /\ pc[t] + n = 5
    BY <2>1, <2>2, PathSteps
  <2>4. Step(t) = "readNext" <=>
           \/ job[t] = "create" /\ pc[t] \in {1, 3}
           \/ job[t] = "invite" /\ pc[t] \in {2, 4}
           \/ job[t] \in {"receive", "forward"} /\ pc[t] = 2
           \/ job[t] = "invited" /\ pc[t] = 4
    BY <2>1, PathSteps DEF Step
  <2>5. CASE n # 1
    BY <2>1, <2>3, <2>4, <2>5, Where DEF Advances
  <2>6. CASE n = 1
    <3>1. CASE job[t] \in {"create", "invite", "receive", "forward", "invited"}
      <4>1. Step(t) = "readNext" => pc[t] + 1 \in 1..Len(Path[job[t]])
        <5>1. Len(Path[job[t]]) \in Nat /\ (Step(t) = "readNext" => Len(Path[job[t]]) > pc[t])
          <6>1. CASE job[t] = "create"
            BY <2>4, <6>1, PathLengths
          <6>2. CASE job[t] = "invite"
            BY <2>4, <6>2, PathLengths
          <6>3. CASE job[t] = "receive"
            BY <2>4, <6>3, PathLengths
          <6>4. CASE job[t] = "invited"
            BY <2>4, <6>4, PathLengths
          <6>5. CASE job[t] = "forward"
            BY <2>4, <6>5, PathLengths
          <6> QED
            BY <3>1, <6>1, <6>2, <6>3, <6>4, <6>5
        <5> QED
          BY <2>1, <5>1
      <4> QED
        BY <2>1, <2>3, <2>4, <2>6, <4>1
    <3>2. CASE job[t] \notin {"create", "invite", "receive", "forward", "invited"}
      BY <2>3, <2>4, <3>2
    <3> QED
      BY <3>1, <3>2
  <2> QED
    BY <2>5, <2>6
<1> QED
  BY <1>1, <1>2, <1>3

\* The locks of the other tables are free again after every step.
LEMMA OtherLocks ==
    ASSUME Types, Places, Counter, NEW t \in AllThreads, NEW s, Do(t, s),
           s \notin {"readNext", "writeNext"}
    PROVE  lock' = lock
<1>1. s \in Locked => /\ Table(s) \in Tables \ {"next"}
                      /\ s \notin KeepsLock
  BY DEF Locked, Table, Tables, KeepsLock
<1>2. lock' = IF s \in Locked
              THEN [lock EXCEPT ![Table(s)] = IF s \in KeepsLock THEN t ELSE NoThread]
              ELSE lock
  BY DoAdvances
<1>3. s \in Locked => lock[Table(s)] = NoThread
  BY <1>1 DEF Counter
<1> QED
  BY <1>1, <1>2, <1>3 DEF Types

\* Accesses to anything but the counter.
CounterFrame(t) ==
    /\ Step(t) \notin {"readNext", "writeNext"}
    /\ next' = next /\ lock' = lock
    /\ \A u \in AllThreads \ {t} : found'[u] = found[u]

\* Every access reads the counter, writes it or leaves it alone.
LEMMA CounterFrames ==
    ASSUME Types, Places, Counter, NEW t \in AllThreads, Access(t)
    PROVE  ReadNext(t) \/ WriteNext(t) \/ CounterFrame(t)
<1>1. ASSUME NEW s, Do(t, s), s \notin {"readNext", "writeNext"}
      PROVE  lock' = lock /\ Step(t) \notin {"readNext", "writeNext"}
  BY <1>1, OtherLocks, DoAdvances
<1>2. CASE TestCallback(t)
  BY <1>2 DEF TestCallback, Done, Locked, CounterFrame, localVars, tableVars
<1>3. CASE InsertHandle(t) \/ InsertEndpoint(t) \/ InsertInvited(t)
  BY <1>1, <1>3 DEF InsertHandle, InsertEndpoint, InsertInvited, CounterFrame, localVars
<1>4. CASE Look(t)
  <2>1. PICK step \in Lookups : Do(t, step)
    BY <1>4 DEF Look
  <2>2. step \notin {"readNext", "writeNext"}
    BY DEF Lookups
  <2> QED
    BY <1>1, <1>4, <2>1, <2>2 DEF Look, CounterFrame, localVars, tableVars
<1>5. CASE WriteChannel(t) \/ SendAcceptance(t) \/ Report(t) \/ FindChannel(t)
  BY <1>1, <1>5 DEF WriteChannel, SendAcceptance, Report, FindChannel, CounterFrame, localVars,
     tableVars
<1>6. CASE TakePending(t) \/ FindCarried(t)
  BY <1>1, <1>6 DEF TakePending, FindCarried, CounterFrame, Types, tableVars
<1>9. CASE Deliver(t) \/ TakeQueued(t)
  <2>1. lock' = lock /\ Step(t) \notin {"readNext", "writeNext"}
    BY <1>9 DEF Deliver, TakeQueued, Do, Done, Locked
  <2> QED
    BY <1>9, <2>1 DEF Deliver, TakeQueued, CounterFrame, Types, localVars, tableVars
<1>7. CASE \/ SetCallback(t) \/ InsertChannel(t) \/ InsertPending(t) \/ SendInvitation(t)
           \/ RenameChannel(t) \/ MoveCallback(t)
  BY <1>1, <1>7 DEF SetCallback, InsertChannel, InsertPending, SendInvitation, RenameChannel,
     MoveCallback, CounterFrame, localVars, tableVars
<1>8. CASE \/ SetJoinCallback(t) \/ InsertInitial(t) \/ StartChannel(t) \/ RenameInitial(t)
  BY <1>1, <1>8 DEF SetJoinCallback, InsertInitial, StartChannel, RenameInitial, CounterFrame,
     localVars, tableVars
<1> QED
  BY <1>2, <1>3, <1>4, <1>5, <1>6, <1>7, <1>8, <1>9 DEF Access, Inviting, BeingInvited

\* No thread reads or writes the counter between another's read and write.
LEMMA CounterKept ==
    ASSUME Types, Places, Counter, NEW t \in AllThreads, Access(t)
    PROVE  Counter'
<1>0. PICK n \in 1..3 : Advances(t, n)
  BY AccessAdvances
<1> USE ThreadsAssumption DEF AllThreads
<1>1. CASE ReadNext(t)
  <2>1. Step(t) = "readNext" /\ lock["next"] \in {NoThread, t}
    BY <1>1, DoAdvances DEF ReadNext, Accessing, Waits, Locked, Table
  <2>2. lock' = [lock EXCEPT !["next"] = t]
    BY <1>1, DoAdvances DEF ReadNext, Locked, Table, KeepsLock
  <2>3. \A u \in AllThreads : ~AtWriteNext(u)
    BY <2>1, WritesNext, <1>0 DEF Counter
  <2>4. \A u \in AllThreads : AtWriteNext(u)' <=> u = t
    BY <2>1, <2>3, WritesNext, <1>0
  <2>5. found'[t] = <<"handle", next>> /\ next' = next
    BY <1>1 DEF ReadNext, Types, tableVars
  <2> QED
    BY <2>2, <2>4, <2>5 DEF Counter, Types, Tables
<1>2. CASE WriteNext(t)
  <2>1. Step(t) = "writeNext"
    BY <1>2, DoAdvances DEF WriteNext
  <2>2. lock' = [lock EXCEPT !["next"] = NoThread]
    BY <1>2, DoAdvances DEF WriteNext, Locked, Table, KeepsLock
  <2>3. lock["next"] = t
    BY <2>1, WritesNext, <1>0 DEF Counter
  <2>4. \A u \in AllThreads : ~AtWriteNext(u)'
    BY <2>1, <2>3, WritesNext, <1>0 DEF Counter
  <2> QED
    BY <2>2, <2>4 DEF Counter, Types, Tables
<1>3. CASE CounterFrame(t)
  <2>1. \A u \in AllThreads : AtWriteNext(u)' <=> AtWriteNext(u)
    BY <1>3, WritesNext, <1>0 DEF CounterFrame
  <2>2. ~AtWriteNext(t)
    BY <1>3, WritesNext, <1>0 DEF CounterFrame
  <2> QED
    BY <1>3, <2>1, <2>2 DEF Counter, CounterFrame
<1> QED
  BY <1>1, <1>2, <1>3, CounterFrames

-----------------------------------------------------------------------------
(* Handles and endpoints.                                                  *)

\* What a step adds to the handles made and registered.
LEMMA Counts ==
    ASSUME Types, Places, NEW t \in AllThreads, NEW n \in 1..3, Advances(t, n)
    PROVE  /\ Created(t)' = Created(t) + IF Step(t) = "writeNext" THEN 1 ELSE 0
           /\ Stored(t)' = Stored(t) + IF Step(t) = "insertHandle" THEN 1 ELSE 0
           /\ Entered(t)' = Entered(t) + IF Step(t) = "insertEndpoint" THEN 1 ELSE 0
           /\ Ahead(t)' <=> \/ Ahead(t) /\ Step(t) # "writeNext"
                            \/ Step(t) = "insertInvited"
           /\ Step(t) = "writeNext" => (job[t] = "invited" <=> Ahead(t))
           /\ Step(t) = "insertInvited" => Created(t) = 0 /\ Created(t)' = 0
<1>1. /\ pc[t] \in Nat /\ Busy(t) /\ pc[t] \in 1..Len(Path[job[t]]) /\ job[t] \in Jobs
      /\ pc'[t] = pc[t] + n /\ job'[t] = job[t]
  BY DEF Types, Advances, Busy, Idle
<1>2. n # 1 => job[t] = "accept"
  BY <1>1, Where DEF Advances
<1>3. CASE job[t] = "create"
  <2>1. n = 1 /\ pc[t] \in 1..12
    BY <1>1, <1>2, <1>3, PathLengths
  <2>2. /\ Step(t) = "writeNext" <=> pc[t] \in {2, 4}
        /\ Step(t) = "insertHandle" <=> pc[t] \in {6, 9}
        /\ Step(t) = "insertEndpoint" <=> pc[t] \in {7, 10}
        /\ Step(t) # "insertInvited"
    BY <1>1, <1>3, PathSteps, SMTT(30) DEF Step
  <2> QED
    BY <1>1, <1>3, <2>1, <2>2, SMTT(30) DEF Created, Stored, Entered, Ahead, Past
<1>4. CASE job[t] = "invite"
  <2>1. n = 1 /\ pc[t] \in 1..15
    BY <1>1, <1>2, <1>4, PathLengths
  <2>2. /\ Step(t) = "writeNext" <=> pc[t] \in {3, 5}
        /\ Step(t) = "insertHandle" <=> pc[t] \in {7, 10}
        /\ Step(t) = "insertEndpoint" <=> pc[t] \in {8, 11}
        /\ Step(t) # "insertInvited"
    BY <1>1, <1>4, PathSteps, SMTT(30) DEF Step
  <2>3. pc'[t] = pc[t] + 1 /\ job'[t] = "invite"
    BY <1>1, <1>4, <2>1
  <2>4. ~Ahead(t) /\ ~Ahead(t)'
    BY <1>4, <2>3 DEF Ahead
  <2>5. Created(t)' = Created(t) + IF pc[t] \in {3, 5} THEN 1 ELSE 0
    BY <1>4, <2>1, <2>3 DEF Created, Past
  <2>6. Stored(t)' = Stored(t) + IF pc[t] \in {7, 10} THEN 1 ELSE 0
    BY <1>4, <2>1, <2>3 DEF Stored, Past
  <2>7. Entered(t)' = Entered(t) + IF pc[t] \in {8, 11} THEN 1 ELSE 0
    BY <1>4, <2>1, <2>3 DEF Entered, Past
  <2>8. /\ Created(t)' = Created(t) + IF Step(t) = "writeNext" THEN 1 ELSE 0
        /\ Stored(t)' = Stored(t) + IF Step(t) = "insertHandle" THEN 1 ELSE 0
        /\ Entered(t)' = Entered(t) + IF Step(t) = "insertEndpoint" THEN 1 ELSE 0
    BY <2>2, <2>5, <2>6, <2>7, Zenon
  <2>9. Step(t) = "writeNext" => (job[t] = "invited" <=> Ahead(t))
    BY <1>4, <2>4
  <2> QED
    BY <2>2, <2>4, <2>8, <2>9
<1>5. CASE job[t] \in {"receive", "forward"}
  <2>1. n = 1
    BY <1>2, <1>5
  <2>3. pc[t] \in 1..8
    <3>1. CASE job[t] = "receive"
      BY <1>1, <3>1, PathLengths
    <3>2. CASE job[t] = "forward"
      BY <1>1, <3>2, PathLengths
    <3> QED
      BY <1>5, <3>1, <3>2
  <2>2. /\ Step(t) = "writeNext" <=> pc[t] = 3
        /\ Step(t) = "insertHandle" <=> pc[t] = 5
        /\ Step(t) = "insertEndpoint" <=> pc[t] = 6
        /\ Step(t) # "insertInvited"
    BY <1>1, <1>5, PathSteps DEF Step
  <2> QED
    BY <1>1, <1>5, <2>1, <2>2 DEF Created, Stored, Entered, Ahead, Single
<1>6. CASE job[t] = "invited"
  <2>1. n = 1 /\ pc[t] \in 1..7
    BY <1>1, <1>2, <1>6, PathLengths
  <2>2. /\ Step(t) = "writeNext" <=> pc[t] = 5
        /\ Step(t) = "insertHandle" <=> pc[t] = 6
        /\ Step(t) # "insertEndpoint"
        /\ Step(t) = "insertInvited" <=> pc[t] = 2
    BY <1>1, <1>6, PathSteps DEF Step
  <2> QED
    BY <1>1, <1>6, <2>1, <2>2 DEF Created, Stored, Entered, Ahead, Single
<1>7. CASE job[t] \notin {"create", "invite", "receive", "forward", "invited"}
  BY <1>1, <1>7, Where DEF Created, Stored, Entered, Ahead
<1> QED
  BY <1>3, <1>4, <1>5, <1>6, <1>7

\* They depend on nothing but the place of the call.
LEMMA SameCounts ==
    ASSUME NEW u, pc'[u] = pc[u], job'[u] = job[u]
    PROVE  /\ Created(u)' = Created(u) /\ Stored(u)' = Stored(u) /\ Entered(u)' = Entered(u)
           /\ Ahead(u)' <=> Ahead(u)
  BY DEF Created, Stored, Entered, Ahead

\* A handle is made before it is stored and stored before its endpoint is
\* entered.
LEMMA CountsOrdered ==
    ASSUME Types, NEW t \in AllThreads
    PROVE  /\ Created(t) \in 0..2 /\ Stored(t) \in 0..Created(t)
           /\ Entered(t) \in 0..Stored(t)
<1>1. pc[t] \in Nat
  BY DEF Types
<1>2. CASE job[t] = "create"
  BY <1>1, <1>2 DEF Created, Stored, Entered, Past
<1>3. CASE job[t] = "invite"
  BY <1>1, <1>3 DEF Created, Stored, Entered, Past
<1>4. CASE job[t] \in {"receive", "forward"}
  BY <1>1, <1>4 DEF Created, Stored, Entered, Single
<1>5. CASE job[t] = "invited"
  BY <1>1, <1>5 DEF Created, Stored, Entered, Single
<1>6. CASE job[t] \notin {"create", "invite", "receive", "forward", "invited"}
  BY <1>6 DEF Created, Stored, Entered
<1> QED
  BY <1>2, <1>3, <1>4, <1>5, <1>6

\* What a call has made are handles with endpoints.
LEMMA MineTyped ==
    ASSUME Types, Progress, NEW t \in AllThreads, NEW i \in 1..Created(t)
    PROVE  mine[t][i] \in Entries
  BY CountsOrdered DEF Types, Progress

\* The parts of the invariant that are about handles and endpoints.
Registration == Fresh /\ Progress /\ Distinct /\ HandlesUnique

\* Accesses that neither make nor register a handle.
RegistrationFrame(t) ==
    /\ Step(t) \notin {"writeNext", "insertHandle", "insertEndpoint", "insertInvited"}
    /\ UNCHANGED <<mine, registered, made, next, handles, endpoints>>

\* They keep what is known of handles and endpoints.
LEMMA RegistrationFrameKept ==
    ASSUME Types, Places, Registration, NEW t \in AllThreads, NEW n \in 1..3, Advances(t, n),
           RegistrationFrame(t)
    PROVE  Registration'
<1>1. \A u \in AllThreads : /\ Created(u)' = Created(u) /\ Stored(u)' = Stored(u)
                            /\ Entered(u)' = Entered(u) /\ (Ahead(u)' <=> Ahead(u))
  <2>1. ASSUME NEW u \in AllThreads, u # t
        PROVE  pc'[u] = pc[u] /\ job'[u] = job[u]
    BY <2>1 DEF Advances, Types
  <2>2. Created(t) \in Nat /\ Stored(t) \in Nat /\ Entered(t) \in Nat
    BY CountsOrdered
  <2> QED
    BY <2>1, <2>2, SameCounts, Counts DEF RegistrationFrame
<1>2. UNCHANGED <<job, returned, mine, registered, made, next, handles, endpoints>>
  BY DEF Advances, RegistrationFrame
<1>3. Fresh'
  BY <1>1, <1>2 DEF Registration, Fresh
<1>4. Progress'
  BY <1>1, <1>2 DEF Registration, Progress, Kept
<1>5. Distinct'
  BY <1>1, <1>2 DEF Registration, Distinct
<1>6. HandlesUnique'
  BY <1>2 DEF Registration, HandlesUnique, IsInjective
<1> QED
  BY <1>3, <1>4, <1>5, <1>6 DEF Registration

\* A step of one thread adds nothing to what another made and registered.
LEMMA CountsOfOthers ==
    ASSUME Types, NEW t \in AllThreads, NEW n, Advances(t, n), NEW u \in AllThreads, u # t
    PROVE  /\ Created(u)' = Created(u) /\ Stored(u)' = Stored(u) /\ Entered(u)' = Entered(u)
           /\ Ahead(u)' <=> Ahead(u)
           /\ job'[u] = job[u]
<1>1. pc'[u] = pc[u] /\ job'[u] = job[u]
  BY DEF Advances, Types
<1> QED
  BY <1>1, SameCounts

\* A new handle is in no table and in no other call's hands: the counter's lock
\* is held from its read to its write.
LEMMA WriteNextRegistration ==
    ASSUME Types, Places, Counter, Registration, NEW t \in AllThreads, WriteNext(t)
    PROVE  Registration'
<1>0. /\ Advances(t, 1) /\ Step(t) = "writeNext"
      /\ UNCHANGED <<job, returned, registered, handles, endpoints>>
  BY DoAdvances DEF WriteNext, Advances
<1>1. found[t][2] = next /\ next \in Nat /\ made[t] \in Nat
  <2>1. AtWriteNext(t)
    BY <1>0, WritesNext
  <2>2. found[t] = <<"handle", next>>
    BY <2>1 DEF Counter
  <2> QED
    BY <2>2 DEF Types
<1>2. /\ Created(t)' = Created(t) + 1 /\ Stored(t)' = Stored(t) /\ Entered(t)' = Entered(t)
      /\ ~Ahead(t)' /\ (job[t] = "invited" <=> Ahead(t))
      /\ Created(t) \in Nat /\ Stored(t) \in 0..Created(t) /\ Entered(t) \in 0..Stored(t)
  BY <1>0, Counts, CountsOrdered
<1> DEFINE new == [handle |-> next, endpoint |-> <<t, made[t] + 1>>]
<1>3. /\ next' = next + 1 /\ made' = [made EXCEPT ![t] = made[t] + 1]
      /\ mine' = [mine EXCEPT ![t] = Append(mine[t], new)]
  BY <1>1 DEF WriteNext, NewEndpoint
<1>4. /\ \A u \in AllThreads \ {t} : mine'[u] = mine[u] /\ made'[u] = made[u]
      /\ made'[t] = made[t] + 1
      /\ Len(mine'[t]) = Created(t) + 1
      /\ \A i \in 1..Created(t) : mine'[t][i] = mine[t][i]
      /\ mine'[t][Created(t) + 1] = new
  <2>1. mine[t] \in Seq(Entries) /\ Len(mine[t]) = Created(t)
    BY DEF Types, Registration, Progress
  <2>2. mine'[t] = Append(mine[t], new)
    BY <1>3 DEF Types
  <2> HIDE DEF new
  <2>3. /\ Len(mine'[t]) = Created(t) + 1
        /\ \A i \in 1..Created(t) : mine'[t][i] = mine[t][i]
        /\ mine'[t][Created(t) + 1] = new
    BY <2>1, <2>2, <1>2
  <2> QED
    BY <1>3, <2>3, <1>1 DEF Types
<1>5. Fresh'
  <2>1. ASSUME NEW h \in DOMAIN handles
        PROVE  h < next' /\ \A u \in AllThreads : handles[h][1] = u => handles[h][2] <= made'[u]
    <3>1. h \in Nat /\ handles[h][2] \in Nat
      BY DEF Types, Names
    <3> QED
      BY <3>1, <1>1, <1>3, <1>4 DEF Registration, Fresh
  <2>2. ASSUME NEW e \in endpoints, NEW u \in AllThreads, e[1] = u
        PROVE  e[2] <= made'[u] \/ (Ahead(u)' /\ e[2] = made'[u] + 1)
    <3>1. e[2] \in Nat
      BY DEF Types, Names
    <3>2. CASE u = t
      BY <3>1, <3>2, <2>2, <1>1, <1>4 DEF Registration, Fresh
    <3>3. CASE u # t
      BY <3>3, <2>2, <1>0, <1>4, CountsOfOthers DEF Registration, Fresh
    <3> QED
      BY <3>2, <3>3
  <2>3. ASSUME NEW u \in AllThreads, Ahead(u)'
        PROVE  <<u, made'[u] + 1>> \in endpoints
    BY <2>3, <1>0, <1>2, <1>4, CountsOfOthers DEF Registration, Fresh
  <2> QED
    BY <2>1, <2>2, <2>3, <1>0 DEF Fresh
<1>6. \A u \in AllThreads : \A i \in 1..Created(u) :
         /\ mine[u][i].handle \in Nat /\ mine[u][i].handle < next
         /\ mine[u][i].endpoint[1] = u /\ mine[u][i].endpoint[2] \in Nat
         /\ mine[u][i].endpoint[2] <= made[u]
  BY MineTyped DEF Registration, Progress, Kept, Entries, Names
<1>7. Progress'
  <2>1. ASSUME NEW u \in AllThreads, u # t
        PROVE  /\ Len(mine'[u]) = Created(u)' /\ registered'[u] = Entered(u)'
               /\ \A i \in 1..Created(u)' : Kept(u, i)'
    <3>1. \A i \in 1..Created(u) : mine[u][i].handle < next + 1
      BY <1>6, <1>1
    <3> QED
      BY <2>1, <3>1, <1>0, <1>3, <1>4, CountsOfOthers DEF Registration, Progress, Kept
  <2>2. ASSUME NEW i \in 1..Created(t)
        PROVE  Kept(t, i)'
    <3>1. /\ mine[t][i].handle < next + 1 /\ mine[t][i].endpoint[1] = t
          /\ mine[t][i].endpoint[2] <= made[t] + 1
      BY <1>6, <1>1
    <3> QED
      BY <3>1, <1>0, <1>2, <1>3, <1>4 DEF Registration, Progress, Kept
  <2>3. ASSUME NEW i, i = Created(t) + 1
        PROVE  Kept(t, i)'
    <3>1. /\ next \notin DOMAIN handles
          /\ \A h \in DOMAIN handles : handles[h] # <<t, made[t] + 1>>
          /\ job[t] = "invited" => <<t, made[t] + 1>> \in endpoints
          /\ job[t] # "invited" => <<t, made[t] + 1>> \notin endpoints
      BY <1>1, <1>2 DEF Registration, Fresh
    <3>2. Created(t) + 1 > Stored(t) /\ Created(t) + 1 > Entered(t) /\ next < next'
      BY <1>1, <1>2, <1>3
    <3> QED
      BY <3>1, <3>2, <2>3, <1>0, <1>1, <1>2, <1>4 DEF Kept
  <2>4. /\ Len(mine'[t]) = Created(t)' /\ registered'[t] = Entered(t)'
    BY <1>0, <1>2, <1>4 DEF Registration, Progress
  <2>5. \A i \in 1..Created(t)' : i \in 1..Created(t) \/ i = Created(t) + 1
    BY <1>2
  <2>6. \A i \in 1..Created(t)' : Kept(t, i)'
    BY <2>2, <2>3, <2>5
  <2> QED
    BY <2>1, <2>4, <2>6 DEF Progress
<1>8. Distinct'
  <2>1. ASSUME NEW u \in AllThreads, NEW v \in AllThreads,
               NEW i \in 1..Created(u)', NEW j \in 1..Created(v)', u # v \/ i # j
        PROVE  /\ mine'[u][i].handle # mine'[v][j].handle
               /\ mine'[u][i].endpoint # mine'[v][j].endpoint
    <3>1. \A w \in AllThreads : \A k \in 1..Created(w)' :
             \/ k \in 1..Created(w) /\ mine'[w][k] = mine[w][k]
             \/ w = t /\ k = Created(t) + 1 /\ mine'[w][k] = new
      <4>1. ASSUME NEW w \in AllThreads, NEW k \in 1..Created(w)', w # t
            PROVE  k \in 1..Created(w) /\ mine'[w][k] = mine[w][k]
        BY <4>1, <1>0, <1>4, CountsOfOthers
      <4>2. ASSUME NEW k \in 1..Created(t)'
            PROVE  k \in 1..Created(t) \/ k = Created(t) + 1
        BY <1>2
      <4> HIDE DEF new
      <4> QED
        BY <4>1, <4>2, <1>4
    <3>2. CASE i \in 1..Created(u) /\ mine'[u][i] = mine[u][i]
      <4>1. CASE j \in 1..Created(v) /\ mine'[v][j] = mine[v][j]
        BY <2>1, <3>2, <4>1 DEF Registration, Distinct
      <4>2. CASE v = t /\ j = Created(t) + 1 /\ mine'[v][j] = new
        BY <3>2, <4>2, <1>1, <1>6
      <4> QED
        BY <3>1, <4>1, <4>2
    <3>3. CASE u = t /\ i = Created(t) + 1 /\ mine'[u][i] = new
      <4>1. CASE j \in 1..Created(v) /\ mine'[v][j] = mine[v][j]
        BY <3>3, <4>1, <1>1, <1>6
      <4>2. CASE v = t /\ j = Created(t) + 1 /\ mine'[v][j] = new
        BY <2>1, <3>3, <4>2
      <4> QED
        BY <3>1, <4>1, <4>2
    <3> QED
      BY <3>1, <3>2, <3>3
  <2> QED
    BY <2>1 DEF Distinct
<1>9. HandlesUnique'
  BY <1>0 DEF Registration, HandlesUnique, IsInjective
<1> QED
  BY <1>5, <1>7, <1>8, <1>9 DEF Registration

\* The handle that is stored is fresh, and so is its endpoint.
LEMMA InsertHandleRegistration ==
    ASSUME Types, Places, Registration, NEW t \in AllThreads, InsertHandle(t)
    PROVE  Registration'
<1> DEFINE k == registered[t] + 1
<1>0. /\ Advances(t, 1) /\ Step(t) = "insertHandle" /\ Busy(t)
      /\ UNCHANGED <<job, returned, mine, registered, made, next, endpoints>>
  BY DoAdvances DEF InsertHandle, Advances, Accessing, localVars
<1>1. /\ k \in 1..Created(t) /\ k = Stored(t) + 1 /\ Current(t) = mine[t][k]
      /\ k \in Nat /\ Stored(t) \in Nat /\ Entered(t) \in Nat /\ Created(t) \in Nat
      /\ Current(t).handle \in Nat
  BY <1>0, AtCurrent, CountsOrdered DEF Registration, Current, Entries
<1>2. /\ Created(t)' = Created(t) /\ Stored(t)' = k /\ Entered(t)' = Entered(t)
      /\ Ahead(t)' <=> Ahead(t)
  BY <1>0, <1>1, Counts
<1> HIDE DEF k
<1>3. Kept(t, k)
  BY <1>1 DEF Registration, Progress
<1>4. /\ DOMAIN handles' = DOMAIN handles \cup {Current(t).handle}
      /\ Current(t).handle \notin DOMAIN handles
      /\ handles'[Current(t).handle] = Current(t).endpoint
      /\ \A h \in DOMAIN handles : handles'[h] = handles[h] /\ handles[h] # Current(t).endpoint
  BY <1>1, <1>3 DEF InsertHandle, Inserted, Kept
<1>5. Fresh'
  <2>1. \A u \in AllThreads : Ahead(u)' <=> Ahead(u)
    BY <1>0, <1>2, CountsOfOthers
  <2>2. ASSUME NEW h \in DOMAIN handles'
        PROVE  h < next /\ \A u \in AllThreads : handles'[h][1] = u => handles'[h][2] <= made[u]
    BY <1>1, <1>3, <1>4 DEF Registration, Fresh, Kept
  <2> QED
    BY <2>1, <2>2, <1>0 DEF Registration, Fresh
<1>6. Progress'
  <2>1. ASSUME NEW u \in AllThreads, NEW i \in 1..Created(u), u # t \/ i # k
        PROVE  /\ mine[u][i].handle # Current(t).handle
               /\ mine[u][i].endpoint # Current(t).endpoint
    BY <2>1, <1>1 DEF Registration, Distinct
  <2>2. ASSUME NEW u \in AllThreads, u # t, NEW i \in 1..Created(u)
        PROVE  Kept(u, i)'
    <3>1. Kept(u, i)
      BY DEF Registration, Progress
    <3> QED
      BY <2>1, <2>2, <3>1, <1>0, <1>4, CountsOfOthers DEF Kept
  <2>3. ASSUME NEW i \in 1..Created(t), i # k
        PROVE  Kept(t, i)'
    <3>1. Kept(t, i)
      BY DEF Registration, Progress
    <3>2. i <= k <=> i <= Stored(t)
      BY <2>3, <1>1
    <3> QED
      BY <2>1, <2>3, <3>1, <3>2, <1>0, <1>1, <1>2, <1>4 DEF Kept
  <2>4. ASSUME NEW i, i = k
        PROVE  Kept(t, i)'
    BY <2>4, <1>0, <1>1, <1>2, <1>3, <1>4 DEF Kept
  <2> QED
    BY <2>2, <2>3, <2>4, <1>0, <1>2, CountsOfOthers DEF Registration, Progress
<1>7. Distinct'
  BY <1>0, <1>2, CountsOfOthers DEF Registration, Distinct
<1>8. HandlesUnique'
  BY <1>0, <1>4 DEF Registration, HandlesUnique, IsInjective
<1> QED
  BY <1>5, <1>6, <1>7, <1>8 DEF Registration

\* The endpoint that is entered is fresh.
LEMMA InsertEndpointRegistration ==
    ASSUME Types, Places, Registration, NEW t \in AllThreads, InsertEndpoint(t)
    PROVE  Registration'
<1> DEFINE k == registered[t] + 1
<1>0. /\ Advances(t, 1) /\ Step(t) = "insertEndpoint" /\ Busy(t)
      /\ UNCHANGED <<job, returned, mine, made, next, handles>>
  BY DoAdvances DEF InsertEndpoint, Advances, Accessing
<1>1. /\ k \in 1..Created(t) /\ k = Entered(t) + 1 /\ k = Stored(t) /\ Current(t) = mine[t][k]
      /\ k \in Nat /\ Stored(t) \in Nat /\ Entered(t) \in Nat /\ Created(t) \in Nat
      /\ job[t] # "invited"
  BY <1>0, AtCurrent, CountsOrdered DEF Registration, Current
<1>2. /\ Created(t)' = Created(t) /\ Stored(t)' = Stored(t) /\ Entered(t)' = k
      /\ Ahead(t)' <=> Ahead(t)
  BY <1>0, <1>1, Counts
<1> HIDE DEF k
<1>3. Kept(t, k)
  BY <1>1 DEF Registration, Progress
<1>4. endpoints' = endpoints \cup {Current(t).endpoint}
  BY DEF InsertEndpoint
<1>5. /\ registered'[t] = k
      /\ \A u \in AllThreads \ {t} : registered'[u] = registered[u]
  BY DEF InsertEndpoint, Types, k
<1>6. Fresh'
  <2>1. \A u \in AllThreads : Ahead(u)' <=> Ahead(u)
    BY <1>0, <1>2, CountsOfOthers
  <2>2. ASSUME NEW e \in endpoints', NEW u \in AllThreads, e[1] = u
        PROVE  e[2] <= made[u] \/ (Ahead(u) /\ e[2] = made[u] + 1)
    BY <2>2, <1>1, <1>3, <1>4 DEF Registration, Fresh, Kept
  <2> QED
    BY <2>1, <2>2, <1>0, <1>4 DEF Registration, Fresh
<1>7. Progress'
  <2>1. ASSUME NEW u \in AllThreads, NEW i \in 1..Created(u), u # t \/ i # k
        PROVE  mine[u][i].endpoint # Current(t).endpoint
    BY <2>1, <1>1 DEF Registration, Distinct
  <2>2. ASSUME NEW u \in AllThreads, u # t, NEW i \in 1..Created(u)
        PROVE  Kept(u, i)'
    <3>1. Kept(u, i)
      BY DEF Registration, Progress
    <3> QED
      BY <2>1, <2>2, <3>1, <1>0, <1>4, CountsOfOthers DEF Kept
  <2>3. ASSUME NEW i \in 1..Created(t), i # k
        PROVE  Kept(t, i)'
    <3>1. Kept(t, i)
      BY DEF Registration, Progress
    <3>2. (i <= k <=> i <= Entered(t)) /\ (i > k <=> i > Entered(t))
      BY <2>3, <1>1
    <3> QED
      BY <2>1, <2>3, <3>1, <3>2, <1>0, <1>1, <1>2, <1>4 DEF Kept
  <2>4. ASSUME NEW i, i = k
        PROVE  Kept(t, i)'
    BY <2>4, <1>0, <1>1, <1>2, <1>3, <1>4 DEF Kept
  <2> QED
    BY <2>2, <2>3, <2>4, <1>0, <1>2, <1>5, CountsOfOthers DEF Registration, Progress
<1>8. Distinct'
  BY <1>0, <1>2, CountsOfOthers DEF Registration, Distinct
<1>9. HandlesUnique'
  BY <1>0, <1>4 DEF Registration, HandlesUnique, IsInjective
<1> QED
  BY <1>6, <1>7, <1>8, <1>9 DEF Registration

\* So is the endpoint of the invitee, which comes before its handle.
LEMMA InsertInvitedRegistration ==
    ASSUME Types, Places, Registration, NEW t \in AllThreads, InsertInvited(t)
    PROVE  Registration'
<1>0. /\ Advances(t, 1) /\ Step(t) = "insertInvited"
      /\ UNCHANGED <<job, returned, mine, registered, made, next, handles>>
  BY DoAdvances DEF InsertInvited, Advances, localVars
<1>1. /\ Created(t)' = Created(t) /\ Stored(t)' = Stored(t) /\ Entered(t)' = Entered(t)
      /\ Ahead(t)' /\ Created(t) = 0 /\ Stored(t) \in Nat /\ Entered(t) \in Nat
  BY <1>0, Counts, CountsOrdered
<1>2. endpoints' = endpoints \cup {<<t, made[t] + 1>>} /\ made[t] \in Nat
  BY DEF InsertInvited, NewEndpoint, Types
<1>3. Fresh'
  <2>1. ASSUME NEW u \in AllThreads, u # t
        PROVE  Ahead(u)' <=> Ahead(u)
    BY <2>1, <1>0, CountsOfOthers
  <2>2. ASSUME NEW e \in endpoints', NEW u \in AllThreads, e[1] = u
        PROVE  e[2] <= made[u] \/ (Ahead(u)' /\ e[2] = made[u] + 1)
    <3>1. CASE e \in endpoints
      BY <2>1, <2>2, <3>1, <1>1 DEF Registration, Fresh
    <3>2. CASE e = <<t, made[t] + 1>>
      BY <2>2, <3>2, <1>1
    <3> QED
      BY <3>1, <3>2, <1>2
  <2>3. \A u \in AllThreads : Ahead(u)' => <<u, made[u] + 1>> \in endpoints'
    BY <2>1, <1>2 DEF Registration, Fresh
  <2> QED
    BY <2>2, <2>3, <1>0 DEF Registration, Fresh
<1>4. Progress'
  <2>1. ASSUME NEW u \in AllThreads, u # t, NEW i \in 1..Created(u)
        PROVE  Kept(u, i)'
    <3>1. Kept(u, i)
      BY DEF Registration, Progress
    <3> QED
      BY <2>1, <3>1, <1>0, <1>2, CountsOfOthers DEF Kept
  <2> QED
    BY <2>1, <1>0, <1>1, CountsOfOthers DEF Registration, Progress
<1>5. Distinct'
  BY <1>0, <1>1, CountsOfOthers DEF Registration, Distinct
<1>6. HandlesUnique'
  BY <1>0, <1>2 DEF Registration, HandlesUnique, IsInjective
<1> QED
  BY <1>3, <1>4, <1>5, <1>6 DEF Registration

\* No other access touches handles or endpoints.
LEMMA RegistrationFrames ==
    ASSUME NEW t \in AllThreads, Types, Places, Access(t)
    PROVE  \/ WriteNext(t) \/ InsertHandle(t) \/ InsertEndpoint(t) \/ InsertInvited(t)
           \/ RegistrationFrame(t)
<1>0. ASSUME NEW s, Do(t, s)
      PROVE  Step(t) = s
  BY <1>0, DoAdvances
<1>1. CASE ReadNext(t) \/ WriteChannel(t) \/ SendAcceptance(t) \/ Report(t) \/ TestCallback(t)
  BY <1>0, <1>1 DEF ReadNext, WriteChannel, SendAcceptance, Report, TestCallback,
     RegistrationFrame, localVars, tableVars
<1>5. CASE FindCarried(t) \/ FindChannel(t) \/ Deliver(t) \/ TakeQueued(t)
  BY <1>0, <1>5 DEF FindCarried, FindChannel, Deliver, TakeQueued, RegistrationFrame, localVars,
     tableVars
<1>2. CASE Look(t)
  BY <1>0, <1>2 DEF Look, Lookups, RegistrationFrame, localVars, tableVars
<1>3. CASE \/ SetCallback(t) \/ InsertChannel(t) \/ InsertPending(t) \/ SendInvitation(t)
           \/ TakePending(t) \/ RenameChannel(t) \/ MoveCallback(t)
  BY <1>0, <1>3 DEF SetCallback, InsertChannel, InsertPending, SendInvitation, TakePending,
     RenameChannel, MoveCallback, RegistrationFrame, localVars, tableVars
<1>4. CASE SetJoinCallback(t) \/ InsertInitial(t) \/ StartChannel(t) \/ RenameInitial(t)
  BY <1>0, <1>4 DEF SetJoinCallback, InsertInitial, StartChannel, RenameInitial,
     RegistrationFrame, localVars, tableVars
<1> QED
  BY <1>1, <1>2, <1>3, <1>4, <1>5 DEF Access, Inviting, BeingInvited

\* Every access keeps handles and endpoints distinct and in step.
LEMMA RegistrationKept ==
    ASSUME Types, Places, Counter, Registration, NEW t \in AllThreads, Access(t)
    PROVE  Registration'
<1>1. PICK n \in 1..3 : Advances(t, n)
  BY AccessAdvances
<1>2. CASE RegistrationFrame(t)
  BY <1>1, <1>2, RegistrationFrameKept
<1> QED
  BY <1>2, RegistrationFrames, WriteNextRegistration, InsertHandleRegistration,
     InsertEndpointRegistration, InsertInvitedRegistration

-----------------------------------------------------------------------------
(* Invitations.                                                             *)

\* Accesses that change nothing an invitation depends on.
InvitedFrame(t) ==
    /\ UNCHANGED <<invited, accepted, pending>>
    /\ \A u \in AllThreads : job[u] \in {"invite", "accept"} => arg'[u] = arg[u]
    /\ callback # Nothing => callback' # Nothing
    /\ job[t] # "accept"
    /\ job[t] = "invite" => pc[t] <= 12
    /\ \A i \in Invitations : /\ Temporary(i) \in channels => Temporary(i) \in channels'
                              /\ Actual(i) \in channels => Actual(i) \in channels'
    /\ Inviter \in channels => Inviter \in channels'

\* They keep what is known of invitations.
LEMMA InvitedFrameKept ==
    ASSUME Types, Places, Invited, NEW t \in AllThreads, NEW n \in 1..3, Advances(t, n),
           InvitedFrame(t)
    PROVE  Invited'
<1>1. /\ UNCHANGED <<role, begun, job, invited, accepted, pending>>
      /\ \A u \in AllThreads : job[u] \in {"invite", "accept"} => arg'[u] = arg[u]
      /\ job[t] = "invite" => pc'[t] = pc[t] + 1
      /\ pc[t] \in Nat
      /\ \A u \in AllThreads : u # t => pc'[u] = pc[u]
  <2>1. job[t] = "invite" => n = 1
    BY Where DEF Advances, Busy
  <2> QED
    BY <2>1 DEF Advances, InvitedFrame, Types, callVars
<1>2. Known \cap channels # {} => Known \cap channels' # {}
  BY DEF InvitedFrame, Known
<1>3. ASSUME NEW u \in AllThreads, job[u] = "invite"
      PROVE  /\ arg'[u] = arg[u]
             /\ arg[u] \in Invitations /\ arg[u] <= begun
             /\ arg[u] \in invited <=> pc'[u] > 15
             /\ pc'[u] \in 14..15 => Temporary(arg[u]) \in channels'
             /\ pc'[u] = 15 => arg[u] \in DOMAIN pending
             /\ \A v \in AllThreads : u # v /\ job[v] = "invite" => arg[u] # arg[v]
  <2>1. CASE u = t
    BY <1>1, <1>3, <2>1 DEF Invited, InvitedFrame
  <2>2. CASE u # t
    BY <1>1, <1>3, <2>2 DEF Invited, InvitedFrame
  <2> QED
    BY <2>1, <2>2
<1>4. \A i \in invited \ accepted : i \in DOMAIN pending /\ Temporary(i) \in channels'
  BY DEF Invited, InvitedFrame, Types
<1>5. job[IO] = "accept" =>
          /\ arg'[IO] = arg[IO]
          /\ arg[IO] \in invited
          /\ arg[IO] \in accepted <=> pc'[IO] > 1
          /\ pc'[IO] <= 3 => Temporary(arg[IO]) \in channels'
          /\ pc'[IO] >= 4 => Actual(arg[IO]) \in channels'
          /\ pc'[IO] = 8 => callback' # Nothing
  <2>1. IO \in AllThreads
    BY DEF AllThreads
  <2> QED
    BY <1>1, <2>1 DEF Invited, InvitedFrame, Types
<1> QED
  BY <1>1, <1>2, <1>3, <1>4, <1>5 DEF Invited

\* Messages are handled by the IO thread.
LEMMA IOAccepts ==
    ASSUME Types, Places, NEW t \in AllThreads, job[t] \in {"accept", "receive", "forward", "invited"}
    PROVE  t = IO
  BY DEF Places, AllThreads, AppJobs

\* The accesses that do change something an invitation depends on.
LEMMA InvitedFrames ==
    ASSUME IInv, NEW t \in AllThreads, Access(t)
    PROVE  \/ InvitedFrame(t)
           \/ InsertChannel(t) \/ InsertPending(t) \/ SendInvitation(t) \/ TakePending(t)
           \/ RenameChannel(t) \/ TestCallback(t) \/ MoveCallback(t)
           \/ job[t] = "accept" /\ (Look(t) \/ WriteChannel(t) \/ TakeQueued(t))
<1> USE DEF IInv
<1>0. ASSUME NEW s, Do(t, s)
      PROVE  Step(t) = s
  BY <1>0, DoAdvances
<1>w. Busy(t)
  BY DEF Access, Accessing
<1>1. CASE ReadNext(t) \/ WriteNext(t)
  <2>1. job[t] # "accept" /\ (job[t] = "invite" => pc[t] <= 12)
    BY <1>0, <1>1, <1>w, Where DEF ReadNext, WriteNext
  <2> QED
    BY <1>1, <2>1 DEF ReadNext, WriteNext, InvitedFrame, tableVars, outsideVars, historyVars, Types
<1>2. CASE InsertHandle(t) \/ InsertEndpoint(t) \/ InsertInvited(t)
  <2>1. job[t] # "accept" /\ (job[t] = "invite" => pc[t] <= 12)
    BY <1>0, <1>2, <1>w, Where DEF InsertHandle, InsertEndpoint, InsertInvited
  <2> QED
    BY <1>2, <2>1 DEF InsertHandle, InsertEndpoint, InsertInvited, InvitedFrame,
       localVars, outsideVars, historyVars
<1>3. CASE SendAcceptance(t) \/ Report(t)
  <2>1. job[t] # "accept" /\ job[t] # "invite"
    BY <1>0, <1>3, <1>w, Where DEF SendAcceptance, Report
  <2> QED
    BY <1>3, <2>1 DEF SendAcceptance, Report, InvitedFrame,
       localVars, tableVars, outsideVars, historyVars
<1>4. CASE (Look(t) \/ WriteChannel(t)) /\ job[t] # "accept"
  <2>1. CASE Look(t)
    <3>1. PICK step \in Lookups : Do(t, step)
      BY <2>1 DEF Look
    <3>2. job[t] = "invite" => pc[t] <= 12
      BY <1>0, <3>1, <1>w, Where DEF Lookups
    <3> QED
      BY <1>4, <2>1, <3>2 DEF Look, InvitedFrame, localVars, tableVars, outsideVars, historyVars
  <2>2. CASE WriteChannel(t)
    <3>1. job[t] # "invite"
      BY <1>0, <2>2, <1>w, Where DEF WriteChannel
    <3> QED
      BY <1>4, <2>2, <3>1 DEF WriteChannel, InvitedFrame, localVars, tableVars, outsideVars,
         historyVars
  <2> QED
    BY <1>4, <2>1, <2>2
<1>5. CASE SetCallback(t)
  <2>1. job[t] = "invite" /\ pc[t] = 1
    BY <1>0, <1>5, <1>w, Where DEF SetCallback
  <2>2. arg[t] # Nothing
    BY <2>1 DEF Invited, Invitations, Nothing
  <2> QED
    BY <1>5, <2>1, <2>2 DEF SetCallback, InvitedFrame, localVars, outsideVars
<1>6. CASE SetJoinCallback(t) \/ InsertInitial(t) \/ StartChannel(t)
  <2>1. job[t] = "join"
    BY <1>0, <1>6, <1>w, Where DEF SetJoinCallback, InsertInitial, StartChannel
  <2> QED
    BY <1>6, <2>1 DEF SetJoinCallback, InsertInitial, StartChannel, InvitedFrame, localVars,
       tableVars, outsideVars, historyVars
<1>8. CASE FindCarried(t) \/ FindChannel(t)
  <2>1. job[t] \notin {"accept", "invite"}
    BY <1>0, <1>8, <1>w, Where DEF FindCarried, FindChannel
  <2> QED
    BY <1>8, <2>1 DEF FindCarried, FindChannel, InvitedFrame, tableVars, outsideVars, historyVars,
       Types
<1>9. CASE Deliver(t)
  <2>1. job[t] \notin {"accept", "invite"}
    BY <1>0, <1>9, <1>w, Where DEF Deliver
  <2> QED
    BY <1>9, <2>1 DEF Deliver, InvitedFrame, localVars, tableVars, historyVars
<1>10. CASE TakeQueued(t)
  <2>1. job[t] = "accept"
    BY <1>10, <1>w, Where DEF TakeQueued
  <2> QED
    BY <1>10, <2>1
<1>7. CASE RenameInitial(t)
  <2>1. job[t] = "invited"
    BY <1>0, <1>7, <1>w, Where DEF RenameInitial
  <2> QED
    BY <1>7, <2>1 DEF RenameInitial, InvitedFrame, localVars, outsideVars, historyVars,
       Initial, Temporary, Actual, Inviter
<1> QED
  BY <1>1, <1>2, <1>3, <1>4, <1>5, <1>6, <1>7, <1>8, <1>9, <1>10
  DEF Access, Inviting, BeingInvited

\* Steps of the acceptance that change neither channels nor invitations.
LEMMA AcceptStepInvited ==
    ASSUME Types, Places, Invited, NEW t \in AllThreads, NEW n \in 1..3, Advances(t, n),
           job[t] = "accept", pc[t] \in {2, 4, 5, 6, 7, 8},
           UNCHANGED <<arg, invited, accepted, pending, channels>>,
           pc'[t] = 8 => callback' # Nothing
    PROVE  Invited'
<1>1. t = IO
  BY IOAccepts
<1>2. /\ UNCHANGED <<role, begun, job>>
      /\ pc'[IO] = pc[IO] + n /\ pc[IO] \in Nat
      /\ \A u \in AllThreads : u # IO => pc'[u] = pc[u]
  BY <1>1 DEF Advances, Types, callVars
<1>3. n # 1 => pc[IO] \in {4, 7}
  BY <1>1, Where DEF Advances, Busy
<1>4. /\ pc'[IO] > 1 /\ (pc[IO] <= 3 <=> pc'[IO] <= 3)
      /\ (pc[IO] >= 4 <=> pc'[IO] >= 4)
  BY <1>1, <1>2, <1>3
<1>5. \A u \in AllThreads : job[u] = "invite" => u # IO
  BY <1>1
<1> QED
  BY <1>1, <1>2, <1>4, <1>5 DEF Invited

\* Sending an invitation: its channel, then its pending endpoint, then the
\* invitation itself.
LEMMA InvitationStepsInvited ==
    ASSUME IInv, NEW t \in AllThreads,
           InsertChannel(t) \/ InsertPending(t) \/ SendInvitation(t)
    PROVE  Invited'
<1> USE DEF IInv
<1>0. /\ Advances(t, 1) /\ Busy(t) /\ job[t] = "invite" /\ pc[t] \in 13..15
      /\ InsertChannel(t) => pc[t] = 13
      /\ InsertPending(t) => pc[t] = 14
      /\ SendInvitation(t) => pc[t] = 15
  <2>1. ASSUME NEW s, Do(t, s) PROVE Advances(t, 1) /\ Busy(t) /\ Step(t) = s
    BY <2>1, DoAdvances DEF Accessing
  <2> QED
    BY <2>1, Where DEF InsertChannel, InsertPending, SendInvitation
<1>1. /\ UNCHANGED <<role, begun, job, arg>>
      /\ pc'[t] = pc[t] + 1 /\ pc[t] \in Nat
      /\ \A u \in AllThreads : u # t => pc'[u] = pc[u]
  BY <1>0 DEF Advances, Types, callVars, InsertChannel, InsertPending, SendInvitation, localVars
<1>2. t # IO
  BY <1>0 DEF Places, IOJobs
<1>3. CASE InsertChannel(t)
  <2>1. channels' = channels \cup {Temporary(arg[t])} /\ UNCHANGED <<pending,
              callback, invited, accepted>>
    BY <1>3 DEF InsertChannel, localVars, outsideVars, historyVars
  <2>2. Known \cap channels # {} => Known \cap channels' # {}
    BY <2>1
  <2>3. ASSUME NEW u \in AllThreads, job[u] = "invite"
        PROVE  /\ arg[u] \in Invitations /\ arg[u] <= begun
               /\ arg[u] \in invited <=> pc'[u] > 15
               /\ pc'[u] \in 14..15 => Temporary(arg[u]) \in channels'
               /\ pc'[u] = 15 => arg[u] \in DOMAIN pending
               /\ \A v \in AllThreads : u # v /\ job[v] = "invite" => arg[u] # arg[v]
    <3>1. CASE u = t
      BY <1>0, <1>1, <1>3, <2>1, <2>3, <3>1 DEF Invited
    <3>2. CASE u # t
      BY <1>1, <2>1, <2>3, <3>2 DEF Invited
    <3> QED
      BY <3>1, <3>2
  <2> QED
    BY <1>1, <1>2, <2>1, <2>2, <2>3 DEF Invited, AllThreads
<1>4. CASE InsertPending(t)
  <2>1. /\ UNCHANGED <<channels, callback, invited, accepted>>
        /\ DOMAIN pending' = DOMAIN pending \cup {arg[t]}
    BY <1>4 DEF InsertPending, Inserted, localVars, outsideVars, historyVars
  <2>2. ASSUME NEW u \in AllThreads, job[u] = "invite"
        PROVE  /\ arg[u] \in Invitations /\ arg[u] <= begun
               /\ arg[u] \in invited <=> pc'[u] > 15
               /\ pc'[u] \in 14..15 => Temporary(arg[u]) \in channels
               /\ pc'[u] = 15 => arg[u] \in DOMAIN pending'
               /\ \A v \in AllThreads : u # v /\ job[v] = "invite" => arg[u] # arg[v]
    <3>1. CASE u = t
      BY <1>0, <1>1, <1>4, <2>1, <2>2, <3>1 DEF Invited
    <3>2. CASE u # t
      BY <1>1, <2>1, <2>2, <3>2 DEF Invited
    <3> QED
      BY <3>1, <3>2
  <2> QED
    BY <1>1, <1>2, <2>1, <2>2 DEF Invited, AllThreads
<1>5. CASE SendInvitation(t)
  <2>1. /\ UNCHANGED <<channels, pending, callback, accepted>>
        /\ invited' = invited \cup {arg[t]}
        /\ pc[t] = 15 /\ pc'[t] = 16
    BY <1>0, <1>1, <1>5 DEF SendInvitation, localVars, tableVars, historyVars
  <2>2. ASSUME NEW u \in AllThreads, job[u] = "invite"
        PROVE  /\ arg[u] \in Invitations /\ arg[u] <= begun
               /\ arg[u] \in invited' <=> pc'[u] > 15
               /\ pc'[u] \in 14..15 => Temporary(arg[u]) \in channels
               /\ pc'[u] = 15 => arg[u] \in DOMAIN pending
               /\ \A v \in AllThreads : u # v /\ job[v] = "invite" => arg[u] # arg[v]
    <3>1. CASE u = t
      BY <2>1, <2>2, <3>1 DEF Invited
    <3>2. CASE u # t
      <4>1. arg[u] # arg[t]
        BY <1>0, <2>2, <3>2 DEF Invited
      <4> QED
        BY <1>1, <2>1, <2>2, <3>2, <4>1 DEF Invited
    <3> QED
      BY <3>1, <3>2
  <2>3. /\ arg[t] \in DOMAIN pending /\ Temporary(arg[t]) \in channels /\ arg[t] <= begun
        /\ role = "inviter" /\ arg[t] \notin accepted
    BY <1>0, <2>1 DEF Invited, Places, Types
  <2> QED
    BY <1>1, <1>2, <2>1, <2>2, <2>3 DEF Invited, AllThreads
<1> QED
  BY <1>3, <1>4, <1>5

\* Taking what was pending finds the invitation's endpoint, for the last time.
LEMMA TakePendingInvited ==
    ASSUME IInv, NEW t \in AllThreads, TakePending(t)
    PROVE  Invited'
<1> USE DEF IInv
<1>0. /\ Advances(t, 1) /\ job[t] = "accept" /\ pc[t] = 1 /\ t = IO
  <2>1. Advances(t, 1) /\ Busy(t) /\ Step(t) = "takePending"
    BY DoAdvances DEF TakePending, Accessing
  <2> QED
    BY <2>1, Where, IOAccepts
<1>1. /\ UNCHANGED <<role, begun, job, arg, channels, callback, invited>>
      /\ pc'[IO] = 2
      /\ \A u \in AllThreads : u # IO => pc'[u] = pc[u]
  BY <1>0 DEF Advances, Types, callVars, TakePending, outsideVars
<1>2. /\ accepted' = accepted \cup {arg[IO]}
      /\ arg[IO] \in DOMAIN pending
      /\ DOMAIN pending' = DOMAIN pending \ {arg[IO]}
  BY <1>0 DEF TakePending, Restrict, Types
<1>3. arg[IO] \in invited /\ arg[IO] \notin accepted /\ Temporary(arg[IO]) \in channels
  BY <1>0 DEF Invited
<1>4. ASSUME NEW u \in AllThreads, job[u] = "invite"
      PROVE  /\ arg[u] \in Invitations /\ arg[u] <= begun
             /\ arg[u] \in invited <=> pc'[u] > 15
             /\ pc'[u] \in 14..15 => Temporary(arg[u]) \in channels
             /\ pc'[u] = 15 => arg[u] \in DOMAIN pending'
             /\ \A v \in AllThreads : u # v /\ job[v] = "invite" => arg[u] # arg[v]
  <2>1. u # IO
    BY <1>0, <1>4
  <2>2. pc[u] = 15 => arg[u] # arg[IO]
    BY <1>3, <1>4 DEF Invited
  <2> QED
    BY <1>1, <1>2, <1>4, <2>1, <2>2 DEF Invited
<1> QED
  BY <1>0, <1>1, <1>2, <1>3, <1>4 DEF Invited

\* Renaming a channel leaves those of other invitations alone.
LEMMA RenameChannelInvited ==
    ASSUME IInv, NEW t \in AllThreads, RenameChannel(t)
    PROVE  Invited'
<1> USE DEF IInv
<1>0. /\ Advances(t, 1) /\ job[t] = "accept" /\ pc[t] = 3 /\ t = IO
  <2>1. Advances(t, 1) /\ Busy(t) /\ Step(t) = "renameChannel"
    BY DoAdvances DEF RenameChannel, Accessing
  <2> QED
    BY <2>1, Where, IOAccepts
<1>1. /\ UNCHANGED <<role, begun, job, arg, pending, callback, invited, accepted>>
      /\ pc'[IO] = 4
      /\ \A u \in AllThreads : u # IO => pc'[u] = pc[u]
  BY <1>0 DEF Advances, Types, callVars, RenameChannel, localVars, outsideVars, historyVars
<1>2. /\ Actual(arg[IO]) \in channels'
      /\ \A i \in Invitations : i # arg[IO] /\ Temporary(i) \in channels => Temporary(i) \in channels'
      /\ Known \cap channels # {} => Known \cap channels' # {}
  BY <1>0 DEF RenameChannel, Temporary, Actual, Inviter, Known
<1>3. arg[IO] \in invited /\ arg[IO] \in accepted
  BY <1>0 DEF Invited
<1>4. ASSUME NEW u \in AllThreads, job[u] = "invite"
      PROVE  /\ arg[u] \in Invitations /\ arg[u] <= begun
             /\ arg[u] \in invited <=> pc'[u] > 15
             /\ pc'[u] \in 14..15 => Temporary(arg[u]) \in channels'
             /\ pc'[u] = 15 => arg[u] \in DOMAIN pending
             /\ \A v \in AllThreads : u # v /\ job[v] = "invite" => arg[u] # arg[v]
  <2>1. u # IO
    BY <1>0, <1>4
  <2>2. pc[u] \in 14..15 => arg[u] # arg[IO]
    BY <1>3, <1>4 DEF Invited
  <2> QED
    BY <1>1, <1>2, <1>4, <2>1, <2>2 DEF Invited
<1>5. \A i \in invited \ accepted : i \in DOMAIN pending /\ Temporary(i) \in channels'
  BY <1>2, <1>3 DEF Invited, Types
<1> QED
  BY <1>0, <1>1, <1>2, <1>3, <1>4, <1>5 DEF Invited

\* Every access keeps what is known of invitations.
LEMMA InvitedKept ==
    ASSUME IInv, NEW t \in AllThreads, Access(t)
    PROVE  Invited'
<1> USE DEF IInv
<1>0. PICK n \in 1..3 : Advances(t, n)
  BY AccessAdvances
<1>1. ASSUME NEW s, Do(t, s)
      PROVE  Step(t) = s /\ Advances(t, 1)
  BY <1>1, DoAdvances
<1>w. Busy(t)
  BY DEF Access, Accessing
<1>2. CASE InvitedFrame(t)
  BY <1>0, <1>2, InvitedFrameKept
<1>3. CASE InsertChannel(t) \/ InsertPending(t) \/ SendInvitation(t)
  BY <1>3, InvitationStepsInvited
<1>4. CASE TakePending(t)
  BY <1>4, TakePendingInvited
<1>5. CASE RenameChannel(t)
  BY <1>5, RenameChannelInvited
<1>6. CASE TestCallback(t)
  <2>1. job[t] = "accept" /\ pc[t] = 7
    BY <1>6, <1>w, Where DEF TestCallback
  <2>2. UNCHANGED <<arg, invited, accepted, pending, channels>>
    BY <1>6 DEF TestCallback, localVars, tableVars, outsideVars, historyVars
  <2>3. pc'[t] = 8 => callback' # Nothing
    BY <1>6, <2>1 DEF TestCallback, Done, tableVars, Types
  <2> QED
    BY <1>0, <2>1, <2>2, <2>3, AcceptStepInvited
<1>7. CASE MoveCallback(t)
  <2>1. job[t] = "accept" /\ pc[t] = 8 /\ Advances(t, 1)
    BY <1>1, <1>7, <1>w, Where DEF MoveCallback
  <2>2. UNCHANGED <<arg, invited, accepted, pending, channels>> /\ pc'[t] = 9
    BY <1>7, <2>1 DEF MoveCallback, localVars, outsideVars, Advances, Types
  <2> QED
    BY <2>1, <2>2, AcceptStepInvited
<1>9. CASE job[t] = "accept" /\ TakeQueued(t)
  <2>1. pc[t] = 4
    BY <1>9, <1>w, Where DEF TakeQueued
  <2>2. UNCHANGED <<arg, invited, accepted, pending, channels>>
    BY <1>9 DEF TakeQueued, tableVars, outsideVars, historyVars
  <2>3. pc'[t] # 8
    BY <1>0, <2>1 DEF Advances, Types
  <2> QED
    BY <1>0, <1>9, <2>1, <2>2, <2>3, AcceptStepInvited
<1>8. CASE job[t] = "accept" /\ (Look(t) \/ WriteChannel(t))
  <2>1. pc[t] \in {2, 5, 6} /\ Advances(t, 1)
    <3>1. CASE Look(t)
      <4>1. PICK step \in Lookups : Do(t, step)
        BY <3>1 DEF Look
      <4> QED
        BY <4>1, <1>1, <1>8, <1>w, Where DEF Lookups
    <3>2. CASE WriteChannel(t)
      BY <3>2, <1>1, <1>8, <1>w, Where DEF WriteChannel
    <3> QED
      BY <1>8, <3>1, <3>2
  <2>2. UNCHANGED <<arg, invited, accepted, pending, channels>>
    BY <1>8 DEF Look, WriteChannel, localVars, tableVars, outsideVars, historyVars
  <2>3. pc'[t] # 8
    BY <2>1 DEF Advances, Types
  <2> QED
    BY <1>8, <2>1, <2>2, <2>3, AcceptStepInvited
<1> QED
  BY <1>2, <1>3, <1>4, <1>5, <1>6, <1>7, <1>8, <1>9, InvitedFrames

-----------------------------------------------------------------------------
(* Being invited.                                                           *)

\* Accesses that change nothing the invitee depends on.
JoinsFrame(t) ==
    /\ UNCHANGED <<started, joinable>>
    /\ Initial \in channels => Initial \in channels'
    /\ Inviter \in channels => Inviter \in channels'
    /\ job[t] # "join"
    /\ job[t] = "invited" => pc[t] > 1

\* They keep what is known of being invited.
LEMMA JoinsFrameKept ==
    ASSUME Types, Joins, NEW t \in AllThreads, NEW n \in 1..3, Advances(t, n), JoinsFrame(t)
    PROVE  Joins'
<1>1. /\ UNCHANGED <<role, begun, joined, job, returned, started, joinable>>
      /\ pc'[t] = pc[t] + n /\ pc[t] \in Nat
      /\ \A u \in AllThreads : u # t => pc'[u] = pc[u]
      /\ IO \in AllThreads
  BY DEF Advances, JoinsFrame, Types, callVars, AllThreads
<1>2. job[IO] = "invited" => (pc[IO] = 1 <=> pc'[IO] = 1)
  BY <1>1 DEF JoinsFrame
<1>3. \A u \in AllThreads : job[u] = "join" => pc'[u] = pc[u]
  BY <1>1 DEF JoinsFrame
<1>4. /\ Initial \in channels => Initial \in channels'
      /\ Inviter \in channels => Inviter \in channels'
  BY DEF JoinsFrame
<1>5. /\ \A u \in AllThreads : job[u] = "join" =>
            /\ begun # 0
            /\ pc'[u] <= 3 => ~started
            /\ pc'[u] >= 2 => joinable
            /\ pc'[u] = 3 => Initial \in channels'
            /\ \A v \in AllThreads : job[v] = "join" => u = v
  BY <1>3, <1>4 DEF Joins
<1> QED
  BY <1>1, <1>2, <1>4, <1>5 DEF Joins

\* The accesses that do change something the invitee depends on.
LEMMA JoinsFrames ==
    ASSUME Types, Places, NEW t \in AllThreads, Access(t)
    PROVE  \/ JoinsFrame(t)
           \/ SetJoinCallback(t) \/ InsertInitial(t) \/ StartChannel(t) \/ RenameInitial(t)
<1>0. ASSUME NEW s, Do(t, s)
      PROVE  Step(t) = s
  BY <1>0, DoAdvances
<1>w. Busy(t)
  BY DEF Access, Accessing
<1>1. CASE ReadNext(t) \/ WriteNext(t) \/ InsertHandle(t) \/ InsertEndpoint(t)
  <2>1. job[t] # "join" /\ (job[t] = "invited" => pc[t] > 1)
    BY <1>0, <1>1, <1>w, Where DEF ReadNext, WriteNext, InsertHandle, InsertEndpoint
  <2> QED
    BY <1>1, <2>1 DEF ReadNext, WriteNext, InsertHandle, InsertEndpoint, JoinsFrame, tableVars,
       outsideVars
<1>2. CASE InsertInvited(t) \/ SendAcceptance(t) \/ Report(t)
  <2>1. job[t] # "join" /\ (job[t] = "invited" => pc[t] > 1)
    BY <1>0, <1>2, <1>w, Where DEF InsertInvited, SendAcceptance, Report
  <2> QED
    BY <1>2, <2>1 DEF InsertInvited, SendAcceptance, Report, JoinsFrame, tableVars, outsideVars
<1>3. CASE Look(t)
  <2>1. PICK step \in Lookups : Do(t, step)
    BY <1>3 DEF Look
  <2>2. job[t] # "join" /\ job[t] # "invited"
    BY <1>0, <2>1, <1>w, Where DEF Lookups
  <2> QED
    BY <1>3, <2>2 DEF Look, JoinsFrame, tableVars, outsideVars
<1>4. CASE WriteChannel(t) \/ TestCallback(t)
  <2>1. job[t] # "join" /\ job[t] # "invited"
    BY <1>0, <1>4, <1>w, Where DEF WriteChannel, TestCallback
  <2> QED
    BY <1>4, <2>1 DEF WriteChannel, TestCallback, JoinsFrame, tableVars, outsideVars
<1>6. CASE FindCarried(t) \/ FindChannel(t) \/ Deliver(t) \/ TakeQueued(t)
  <2>1. job[t] # "join" /\ job[t] # "invited"
    BY <1>0, <1>6, <1>w, Where DEF FindCarried, FindChannel, Deliver, TakeQueued
  <2> QED
    BY <1>6, <2>1 DEF FindCarried, FindChannel, Deliver, TakeQueued, JoinsFrame, tableVars,
       outsideVars
<1>5. CASE \/ SetCallback(t) \/ InsertChannel(t) \/ InsertPending(t) \/ SendInvitation(t)
           \/ TakePending(t) \/ RenameChannel(t) \/ MoveCallback(t)
  <2>1. job[t] # "join" /\ job[t] # "invited"
    BY <1>0, <1>5, <1>w, Where DEF SetCallback, InsertChannel, InsertPending, SendInvitation,
       TakePending, RenameChannel, MoveCallback
  <2>2. /\ Initial \in channels => Initial \in channels'
        /\ Inviter \in channels => Inviter \in channels'
    BY <1>5 DEF SetCallback, InsertChannel, InsertPending, SendInvitation, TakePending,
       RenameChannel, MoveCallback, tableVars, Initial, Inviter, Temporary
  <2> QED
    BY <1>5, <2>1, <2>2 DEF SetCallback, InsertChannel, InsertPending, SendInvitation,
       TakePending, RenameChannel, MoveCallback, JoinsFrame, tableVars, outsideVars
<1> QED
  BY <1>1, <1>2, <1>3, <1>4, <1>5, <1>6 DEF Access, Inviting, BeingInvited

\* Getting ready to be invited: the callback, then the channel, then its start.
LEMMA JoinStepsJoins ==
    ASSUME Types, Places, Joins, NEW t \in AllThreads,
           SetJoinCallback(t) \/ InsertInitial(t) \/ StartChannel(t)
    PROVE  Joins'
<1>0. /\ Advances(t, 1) /\ job[t] = "join" /\ t # IO
      /\ SetJoinCallback(t) => pc[t] = 1
      /\ InsertInitial(t) => pc[t] = 2
      /\ StartChannel(t) => pc[t] = 3
  <2>1. ASSUME NEW s, Do(t, s) PROVE Advances(t, 1) /\ Busy(t) /\ Step(t) = s
    BY <2>1, DoAdvances DEF Accessing
  <2> QED
    BY <2>1, Where DEF SetJoinCallback, InsertInitial, StartChannel, Places, IOJobs
<1>1. /\ UNCHANGED <<role, begun, joined, job, returned>>
      /\ pc'[t] = pc[t] + 1
      /\ pc'[IO] = pc[IO]
      /\ \A u \in AllThreads : job[u] = "join" => u = t
      /\ t \in AllThreads /\ begun # 0 /\ role = "invitee" /\ ~started
  <2>1. \A u \in AllThreads : job[u] = "join" => u = t
    BY <1>0 DEF Joins
  <2> QED
    BY <1>0, <2>1 DEF Advances, Types, callVars, AllThreads, Joins, Places
<1>2. ~joined
  BY <1>1 DEF Joins
<1>3. CASE SetJoinCallback(t)
  BY <1>0, <1>1, <1>2, <1>3 DEF SetJoinCallback, Joins, outsideVars
<1>4. CASE InsertInitial(t)
  BY <1>0, <1>1, <1>2, <1>4 DEF InsertInitial, Joins, outsideVars
<1>5. CASE StartChannel(t)
  BY <1>0, <1>1, <1>2, <1>5 DEF StartChannel, Joins, tableVars
<1> QED
  BY <1>3, <1>4, <1>5

\* The inviter's channel gets its name when the invitation is handled.
LEMMA RenameInitialJoins ==
    ASSUME Types, Places, Joins, NEW t \in AllThreads, RenameInitial(t)
    PROVE  Joins'
<1>0. /\ Advances(t, 1) /\ job[t] = "invited" /\ t = IO /\ pc[t] = 1
  <2>1. Advances(t, 1) /\ Busy(t) /\ Step(t) = "renameInitial"
    BY DoAdvances DEF Accessing, RenameInitial
  <2> QED
    BY <2>1, Where, IOAccepts
<1>1. /\ UNCHANGED <<role, begun, joined, job, returned, started, joinable>>
      /\ pc'[IO] = 2
      /\ \A u \in AllThreads : u # IO => pc'[u] = pc[u]
      /\ Inviter \in channels'
      /\ joined /\ started
  BY <1>0 DEF Advances, Types, callVars, RenameInitial, outsideVars, Joins
<1>2. \A u \in AllThreads : job[u] = "join" => pc'[u] = pc[u] /\ pc[u] # 3
  <2>1. \A u \in AllThreads : job[u] = "join" => u # IO
    BY <1>0
  <2> QED
    BY <1>1, <2>1 DEF Joins
<1> QED
  BY <1>0, <1>1, <1>2 DEF Joins

\* Every access keeps what is known of being invited.
LEMMA JoinsKept ==
    ASSUME Types, Places, Joins, NEW t \in AllThreads, Access(t)
    PROVE  Joins'
<1>1. PICK n \in 1..3 : Advances(t, n)
  BY AccessAdvances
<1>2. CASE JoinsFrame(t)
  BY <1>1, <1>2, JoinsFrameKept
<1> QED
  BY <1>2, JoinsFrames, JoinStepsJoins, RenameInitialJoins

-----------------------------------------------------------------------------
(* What a call is about.                                                    *)

\* What was found stays there: no access removes a handle, an endpoint or the
\* channel of a known process.
Stays == /\ \A h \in DOMAIN handles : h \in DOMAIN handles' /\ handles'[h] = handles[h]
         /\ endpoints \subseteq endpoints'
         /\ \A n \in Nat : Route(n) \in channels => Route(n) \in channels'
         /\ returned' = returned

LEMMA AccessStays ==
    ASSUME Types, Places, NEW t \in AllThreads, Access(t)
    PROVE  Stays
<1>1. PICK n \in 1..3 : Advances(t, n)
  BY AccessAdvances
<1>2. returned' = returned
  BY <1>1 DEF Advances
<1>3. CASE ReadNext(t) \/ WriteNext(t) \/ InsertEndpoint(t) \/ InsertInvited(t)
  BY <1>2, <1>3 DEF ReadNext, WriteNext, InsertEndpoint, InsertInvited, Stays, tableVars
<1>4. CASE InsertHandle(t)
  BY <1>2, <1>4 DEF InsertHandle, Inserted, Stays
<1>5. CASE \/ Look(t) \/ FindCarried(t) \/ FindChannel(t) \/ Deliver(t) \/ TakeQueued(t)
           \/ WriteChannel(t)
  BY <1>2, <1>5 DEF Look, FindCarried, FindChannel, Deliver, TakeQueued, WriteChannel, Stays,
     tableVars
<1>6. CASE Inviting(t)
  <2>1. \A m, i : Route(m) # Temporary(i)
    BY DEF Route, Inviter, Actual, Temporary
  <2> QED
    BY <1>2, <1>6, <2>1 DEF Inviting, SetCallback, InsertChannel, InsertPending, SendInvitation,
       TakePending, RenameChannel, TestCallback, MoveCallback, Stays, tableVars
<1>7. CASE SetJoinCallback(t) \/ InsertInitial(t) \/ StartChannel(t) \/ SendAcceptance(t) \/ Report(t)
  BY <1>2, <1>7 DEF SetJoinCallback, InsertInitial, StartChannel, SendAcceptance, Report, Stays,
     tableVars
<1>8. CASE RenameInitial(t)
  <2>1. \A m : Route(m) # Initial
    BY DEF Route, Inviter, Actual, Initial
  <2> QED
    BY <1>2, <1>8, <2>1 DEF RenameInitial, Stays
<1> QED
  BY <1>3, <1>4, <1>5, <1>6, <1>7, <1>8 DEF Access, BeingInvited

\* Accesses after which a call is about the same as before.
TargetsFrame(t) ==
    /\ Step(t) \notin {"findCarried", "findChannel", "takePending", "takeQueued"}
    /\ arg'[t] = arg[t]
    /\ found'[t] = found[t] \/ Step(t) = "readNext"
    /\ queued' = queued \/ (Step(t) = "deliver" /\ queued' = queued \cup {found[t]})
    /\ \A e \in announced' : e \in announced \/ e \in endpoints

\* Nobody else's call is about anything new.
OthersFrame(t) ==
    \A u \in AllThreads \ {t} : arg'[u] = arg[u] /\ found'[u] = found[u]

\* Every access leaves the calls of others alone.
LEMMA OthersKept ==
    ASSUME Types, Places, NEW t \in AllThreads, Access(t)
    PROVE  OthersFrame(t)
<1>1. CASE \/ ReadNext(t) \/ WriteNext(t) \/ InsertHandle(t) \/ InsertEndpoint(t)
           \/ Look(t) \/ FindCarried(t) \/ FindChannel(t) \/ Deliver(t) \/ TakeQueued(t)
           \/ WriteChannel(t)
  BY <1>1 DEF ReadNext, WriteNext, InsertHandle, InsertEndpoint, Look, FindCarried, FindChannel,
     Deliver, TakeQueued, WriteChannel, OthersFrame, localVars, Types
<1>2. CASE Inviting(t)
  BY <1>2 DEF Inviting, SetCallback, InsertChannel, InsertPending, SendInvitation, TakePending,
     RenameChannel, TestCallback, MoveCallback, OthersFrame, localVars, Types
<1>3. CASE BeingInvited(t)
  BY <1>3 DEF BeingInvited, SetJoinCallback, InsertInitial, StartChannel, RenameInitial,
     InsertInvited, SendAcceptance, Report, OthersFrame, localVars
<1> QED
  BY <1>1, <1>2, <1>3 DEF Access

\* Every access but four leaves its own call's subject alone.  An endpoint is told
\* to others only when it is in the map.
LEMMA TargetsFrames ==
    ASSUME IInv, NEW t \in AllThreads, Access(t)
    PROVE  \/ TargetsFrame(t)
           \/ FindCarried(t) \/ FindChannel(t) \/ TakePending(t) \/ TakeQueued(t)
<1> USE DEF IInv
<1>0. ASSUME NEW s, Do(t, s)
      PROVE  Step(t) = s
  BY <1>0, DoAdvances
<1>w. Busy(t)
  BY DEF Access, Accessing
<1>1. CASE ReadNext(t) \/ WriteNext(t) \/ InsertHandle(t) \/ InsertEndpoint(t)
  BY <1>0, <1>1 DEF ReadNext, WriteNext, InsertHandle, InsertEndpoint, TargetsFrame, localVars,
     outsideVars
<1>2. CASE Look(t)
  BY <1>0, <1>2 DEF Look, Lookups, TargetsFrame, localVars, outsideVars
<1>3. CASE Deliver(t)
  BY <1>0, <1>3 DEF Deliver, TargetsFrame, localVars
<1>4. CASE WriteChannel(t)
  <2>1. \A e \in announced' : e \in announced \/ e \in endpoints
    BY <1>4 DEF WriteChannel, Targets
  <2> QED
    BY <1>0, <1>4, <2>1 DEF WriteChannel, TargetsFrame, localVars
<1>5. CASE SetCallback(t) \/ InsertChannel(t) \/ InsertPending(t) \/ RenameChannel(t) \/ MoveCallback(t)
  BY <1>0, <1>5 DEF SetCallback, InsertChannel, InsertPending, RenameChannel, MoveCallback,
     TargetsFrame, localVars, outsideVars
<1>6. CASE TestCallback(t)
  BY <1>6 DEF TestCallback, TargetsFrame, localVars, outsideVars
<1>7. CASE SendInvitation(t)
  <2>1. Step(t) = "invite" /\ job[t] = "invite" /\ pc[t] = 15
    BY <1>0, <1>7, <1>w, Where DEF SendInvitation
  <2>2. Created(t) = 2 /\ Entered(t) = 2
    BY <2>1 DEF Created, Entered, Past
  <2>3. Kept(t, 1)
    BY <2>2 DEF Progress
  <2>4. mine[t][1].endpoint \in endpoints
    BY <2>2, <2>3 DEF Kept
  <2> QED
    BY <1>7, <2>1, <2>4 DEF SendInvitation, TargetsFrame, localVars
<1>8. CASE \/ SetJoinCallback(t) \/ InsertInitial(t) \/ StartChannel(t) \/ RenameInitial(t)
           \/ InsertInvited(t) \/ Report(t)
  BY <1>0, <1>8 DEF SetJoinCallback, InsertInitial, StartChannel, RenameInitial, InsertInvited,
     Report, TargetsFrame, localVars, outsideVars
<1>9. CASE SendAcceptance(t)
  <2>1. Step(t) = "accept" /\ job[t] = "invited" /\ pc[t] = 3
    BY <1>0, <1>9, <1>w, Where DEF SendAcceptance
  <2>2. NewEndpoint(t) \in endpoints
    BY <2>1 DEF Fresh, Ahead, NewEndpoint
  <2> QED
    BY <1>9, <2>1, <2>2 DEF SendAcceptance, TargetsFrame, localVars
<1> QED
  BY <1>1, <1>2, <1>3, <1>4, <1>5, <1>6, <1>7, <1>8, <1>9 DEF Access, Inviting, BeingInvited

\* A call stays about what it is about.
LEMMA AimedKept ==
    ASSUME Types, Places, Targets, NEW t \in AllThreads, NEW n \in 1..3, Advances(t, n), Stays,
           TargetsFrame(t)
    PROVE  Aimed(t)'
<1>1. /\ pc[t] \in Nat /\ Busy(t) /\ pc[t] \in 1..Len(Path[job[t]]) /\ job[t] \in Jobs
      /\ pc'[t] = pc[t] + n /\ job'[t] = job[t] /\ arg'[t] = arg[t] /\ arg[t] \in Nat
  BY DEF Types, Advances, Busy, Idle, TargetsFrame
<1>2. /\ ByHandle(t)' => ByHandle(t)
      /\ Carries(t)' => Carries(t)
  BY <1>1 DEF ByHandle, Carries
<1>3. Step(t) = "readNext" => job[t] \notin {"sendHandle", "sendAway", "accept"} /\ pc[t] >= 1
  BY <1>1, Where
<1>4. Carried(t)' => Carried(t)
  <2>1. CASE pc[t] = 2 /\ job[t] \in {"sendHandle", "sendAway"}
    BY <1>1, <2>1, PathSteps DEF TargetsFrame, Step
  <2>2. CASE pc[t] = 1 /\ job[t] \in {"sendHandle", "sendAway"}
    <3>1. n = 1
      BY <1>1, <2>2, Where DEF Advances
    <3> QED
      BY <1>1, <2>2, <3>1 DEF Carried
  <2> QED
    BY <1>1, <2>1, <2>2 DEF Carried
<1>5. ~Aims(t)'
  <2>1. CASE job[t] = "accept" /\ pc[t] \in {1, 4}
    BY <1>1, <2>1, PathSteps DEF TargetsFrame, Step
  <2>2. CASE job[t] = "accept" /\ pc[t] \in {2, 3}
    <3>1. n = 1
      BY <1>1, <2>2, Where DEF Advances
    <3> QED
      BY <1>1, <2>2, <3>1 DEF Aims
  <2> QED
    BY <1>1, <2>1, <2>2 DEF Aims
<1>6. Routed(t)' => Routed(t)
  <2>1. CASE (job[t] = "send" /\ pc[t] = 3) \/ (job[t] = "sendAway" /\ pc[t] = 6)
    BY <1>1, <2>1, PathSteps DEF TargetsFrame, Step
  <2>2. CASE job[t] \in {"send", "sendAway"}
    <3>1. n = 1
      BY <1>1, <2>2, Where DEF Advances
    <3> QED
      BY <1>1, <2>1, <2>2, <3>1 DEF Routed
  <2> QED
    BY <1>1, <2>1, <2>2 DEF Routed
<1>7. Carries(t) \/ Carried(t) => found'[t] = found[t]
  BY <1>3 DEF TargetsFrame, Carries, Carried
<1>8. Aimed(t) /\ returned' = returned
  BY DEF Targets, Stays
<1> QED
  BY <1>1, <1>2, <1>4, <1>5, <1>6, <1>7, <1>8 DEF Aimed, Stays

\* So do those of other threads.
LEMMA OthersAimed ==
    ASSUME Types, Targets, NEW t \in AllThreads, NEW n \in 1..3, Advances(t, n), Stays,
           OthersFrame(t), NEW u \in AllThreads, u # t
    PROVE  Aimed(u)'
<1>1. /\ pc'[u] = pc[u] /\ job'[u] = job[u] /\ arg'[u] = arg[u] /\ found'[u] = found[u]
      /\ arg[u] \in Nat
  BY DEF Advances, Types, OthersFrame
<1>2. /\ ByHandle(u)' <=> ByHandle(u)
      /\ Carries(u)' <=> Carries(u)
      /\ Carried(u)' <=> Carried(u)
      /\ Aims(u)' <=> Aims(u)
      /\ Routed(u)' <=> Routed(u)
  BY <1>1 DEF ByHandle, Carries, Carried, Aims, Routed
<1>3. Aimed(u)
  BY DEF Targets
<1> QED
  BY <1>1, <1>2, <1>3 DEF Aimed, Stays

\* The four accesses that find what the rest of the call is about.
LEMMA FindsAimed ==
    ASSUME IInv, NEW t \in AllThreads, NEW n \in 1..3, Advances(t, n), Stays,
           FindCarried(t) \/ FindChannel(t) \/ TakePending(t) \/ TakeQueued(t)
    PROVE  /\ Aimed(t)'
           /\ UNCHANGED <<queued, announced>>
<1> USE DEF IInv
<1>0. ASSUME NEW s, Do(t, s)
      PROVE  Step(t) = s /\ Advances(t, 1) /\ Busy(t)
  BY <1>0, DoAdvances DEF Accessing
<1>1. pc'[t] = pc[t] + n /\ job'[t] = job[t] /\ pc[t] \in Nat /\ arg[t] \in Nat /\ Aimed(t)
  BY DEF Advances, Types, Targets
<1>2. ASSUME NEW s, Do(t, s) PROVE pc'[t] = pc[t] + 1
  BY <1>2, <1>0 DEF Advances, Types
<1>3. CASE FindCarried(t)
  <2>1. job[t] \in {"sendHandle", "sendAway"} /\ pc[t] = 2 /\ pc'[t] = 3
    BY <1>0, <1>2, <1>3, Where DEF FindCarried
  <2>2. PICK r \in returned : r.handle = found[t][2]
    BY <1>1, <2>1 DEF Aimed, Carries
  <2>3. found'[t] \in endpoints /\ found[t][2] \in DOMAIN handles /\ handles[found[t][2]] = found'[t]
    BY <1>3, <2>2 DEF FindCarried, HandlesUnique, Types
  <2>4. ByHandle(t) /\ ByHandle(t)' /\ ~Aims(t)' /\ ~Carries(t)' /\ ~Routed(t)'
    BY <1>1, <2>1 DEF ByHandle, Aims, Carries, Routed
  <2>5. arg' = arg /\ UNCHANGED <<queued, announced>>
    BY <1>3 DEF FindCarried, outsideVars
  <2> QED
    BY <1>1, <2>3, <2>4, <2>5 DEF Aimed, Stays
<1>4. CASE FindChannel(t)
  <2>1. found' = found /\ UNCHANGED <<queued, announced, channels>>
    BY <1>4 DEF FindChannel, outsideVars, tableVars
  <2>2. /\ pc'[t] = pc[t] + 1
        /\ (job[t] = "send" /\ pc[t] = 3) \/ (job[t] \in {"sendHandle", "sendAway"} /\ pc[t] = 6)
    BY <1>0, <1>2, <1>4, Where DEF FindChannel
  <2>3. ~Carries(t)' /\ ~Aims(t)' /\ (Carried(t)' => Carried(t))
    BY <1>1, <2>2 DEF Carries, Aims, Carried
  <2>4. CASE job[t] = "sendHandle"
    <3>1. ByHandle(t) /\ ~Routed(t)' /\ arg' = arg
      BY <1>1, <1>4, <2>4 DEF ByHandle, Routed, FindChannel
    <3> QED
      BY <1>1, <2>1, <2>3, <3>1 DEF Aimed, Stays
  <2>5. CASE job[t] # "sendHandle"
    <3>1. PICK c \in Known \cap channels : arg' = [arg EXCEPT ![t] = c[2]]
      BY <1>4, <2>5 DEF FindChannel
    <3>2. ~ByHandle(t)' /\ Route(arg'[t]) \in channels'
      BY <1>1, <2>1, <2>2, <2>5, <3>1, KnownRoutes DEF ByHandle, Types
    <3> QED
      BY <1>1, <2>1, <2>3, <3>2 DEF Aimed, Stays
  <2> QED
    BY <2>1, <2>4, <2>5
<1>5. CASE TakePending(t)
  <2>1. job[t] = "accept"
    BY <1>0, <1>5, Where DEF TakePending
  <2>2. found'[t] \in endpoints /\ UNCHANGED <<queued, announced>>
    BY <1>5 DEF TakePending, Types, outsideVars
  <2>3. ~ByHandle(t)' /\ ~Carries(t)' /\ ~Carried(t)' /\ ~Routed(t)'
    BY <1>1, <2>1 DEF ByHandle, Carries, Carried, Routed
  <2> QED
    BY <2>2, <2>3 DEF Aimed, Stays
<1>6. CASE TakeQueued(t)
  <2>1. job[t] = "accept" /\ pc[t] = 4
    <3>1. Busy(t) /\ Step(t) = "takeQueued"
      BY <1>6 DEF TakeQueued, Accessing
    <3> QED
      BY <3>1, Where
  <2>2. UNCHANGED <<queued, announced>>
    BY <1>6 DEF TakeQueued, outsideVars
  <2>3. pc'[t] = 5 => found'[t] \in endpoints
    BY <1>6, <2>1 DEF TakeQueued, Done, Targets, Types
  <2>4. ~ByHandle(t)' /\ ~Carries(t)' /\ ~Carried(t)' /\ ~Routed(t)' /\ (Aims(t)' => pc'[t] = 5)
    BY <1>1, <2>1 DEF ByHandle, Carries, Carried, Routed, Aims
  <2> QED
    BY <2>2, <2>3, <2>4 DEF Aimed, Stays
<1> QED
  BY <1>3, <1>4, <1>5, <1>6

\* Every access keeps what calls are about.
LEMMA TargetsKept ==
    ASSUME IInv, NEW t \in AllThreads, Access(t)
    PROVE  Targets'
<1> USE DEF IInv
<1>1. PICK n \in 1..3 : Advances(t, n)
  BY AccessAdvances
<1>2. Stays /\ OthersFrame(t)
  BY AccessStays, OthersKept
<1>3. \A u \in AllThreads : u # t => Aimed(u)'
  BY <1>1, <1>2, OthersAimed
<1>4. \A r \in returned' : r.peer = Remote \/ r.peer \in endpoints'
  BY <1>2 DEF Targets, Stays
<1>5. CASE TargetsFrame(t)
  <2>1. Aimed(t)'
    BY <1>1, <1>2, <1>5, AimedKept
  <2>2. Step(t) = "deliver" => found[t] \in endpoints
    <3>1. Step(t) = "deliver" => Carried(t)
      <4>1. Busy(t)
        BY DEF Access, Accessing
      <4> QED
        BY <4>1, Where DEF Carried
    <3> QED
      BY <3>1 DEF Targets, Aimed
  <2>3. queued' \subseteq endpoints' /\ announced' \subseteq endpoints'
    BY <1>2, <1>5, <2>2 DEF TargetsFrame, Targets, Stays
  <2> QED
    BY <1>3, <1>4, <2>1, <2>3 DEF Targets
<1>6. CASE FindCarried(t) \/ FindChannel(t) \/ TakePending(t) \/ TakeQueued(t)
  <2>1. Aimed(t)' /\ UNCHANGED <<queued, announced>>
    BY <1>1, <1>2, <1>6, FindsAimed
  <2>2. queued' \subseteq endpoints' /\ announced' \subseteq endpoints'
    BY <1>2, <2>1 DEF Targets, Stays
  <2> QED
    BY <1>3, <1>4, <2>1, <2>2 DEF Targets
<1> QED
  BY <1>5, <1>6, TargetsFrames

\* Every access keeps the invariant.
LEMMA AccessKept ==
    ASSUME IInv, NEW t \in AllThreads, Access(t)
    PROVE  IInv'
<1>1. PICK n \in 1..3 : Advances(t, n)
  BY AccessAdvances DEF IInv
<1>2. Registration
  BY DEF IInv, Registration
<1>3. Types'
  BY TypesKept
<1>4. Places' /\ Counter'
  BY <1>1, PlacesKept, CounterKept DEF IInv
<1>5. Registration'
  BY <1>2, RegistrationKept DEF IInv
<1>6. Invited' /\ Joins'
  BY InvitedKept, JoinsKept DEF IInv
<1>7. Targets'
  BY TargetsKept
<1> QED
  BY <1>3, <1>4, <1>5, <1>6, <1>7 DEF IInv, Registration

-----------------------------------------------------------------------------
(* Calls begin.                                                             *)

\* What the beginning of a call changes.
LEMMA BeginSteps ==
    ASSUME IInv, NEW t \in AllThreads, NEW j \in Jobs, NEW a, NEW f, Begin(t, j, a, f)
    PROVE  /\ job[t] = "idle" /\ job'[t] = j /\ arg'[t] = a /\ found'[t] = f
           /\ pc[t] = 1 /\ pc' = pc
           /\ \A u \in AllThreads : u # t =>
                 job'[u] = job[u] /\ arg'[u] = arg[u] /\ found'[u] = found[u]
           /\ UNCHANGED <<role, mine, registered, made, next, handles, endpoints, channels,
                          pending, callback, joinable, invited, started, accepted, told, lock,
                          returned, queued, announced>>
<1>1. job[t] = "idle" /\ pc[t] = 1
  BY DEF Begin, Idle, IInv, Places
<1>2. /\ job'[t] = j /\ arg'[t] = a /\ found'[t] = f
      /\ \A u \in AllThreads : u # t =>
            job'[u] = job[u] /\ arg'[u] = arg[u] /\ found'[u] = found[u]
  BY DEF Begin, IInv, Types
<1> QED
  BY <1>1, <1>2 DEF Begin, localVars, tableVars, outsideVars, historyVars

\* A call begins at the first place of its path, with no lock.
LEMMA BeginPlaces ==
    ASSUME IInv, NEW t \in AllThreads, NEW j \in Jobs, NEW a \in Nat, NEW f \in Foundables,
           Begin(t, j, a, f),
           begun' \in Nat, joined' \in BOOLEAN,
           IF t = IO THEN j \in IOJobs ELSE j \in AppJobs,
           j \in {"invite", "accept"} => role = "inviter",
           j \in {"join", "invited"} => role = "invitee"
    PROVE  Types' /\ Places' /\ Counter'
<1> USE DEF IInv
<1>1. Types'
  BY DEF Types, Begin, localVars, tableVars, outsideVars, historyVars
<1>2. Len(Path[j]) \in Nat /\ Len(Path[j]) >= 1
  <2>1. Len(Path[j]) \in {1, 3, 4, 6, 7, 8, 12, 15}
    BY PathLengths, Zenon DEF Jobs
  <2>2. \A n \in {1, 3, 4, 6, 7, 8, 12, 15} : n \in Nat /\ n >= 1
    OBVIOUS
  <2> QED
    BY <2>1, <2>2, Zenon
<1>3. Places'
  <2>1. j # "idle"
    BY DEF Jobs
  <2>2. ASSUME NEW u \in AllThreads
        PROVE  /\ job'[u] = "idle" => pc'[u] = 1
               /\ job'[u] # "idle" => pc'[u] \in 1..(Len(Path[job'[u]]) + 1)
               /\ job'[u] \in {"invite", "accept"} => role' = "inviter"
               /\ job'[u] \in {"join", "invited"} => role' = "invitee"
    <3>1. CASE u = t
      BY <1>2, <2>1, <3>1, BeginSteps
    <3>2. CASE u # t
      BY <3>2, BeginSteps DEF Places, Idle
    <3> QED
      BY <3>1, <3>2
  <2>3. /\ \A u \in Threads : job'[u] \in AppJobs \cup {"idle"}
        /\ job'[IO] \in IOJobs \cup {"idle"}
    <3>1. IO \notin Threads
      BY ThreadsAssumption
    <3> QED
      BY <3>1, BeginSteps DEF Places, AllThreads
  <2> QED
    BY <2>2, <2>3 DEF Places, Idle
<1>4. Counter'
  <2>1. \A u \in AllThreads : AtWriteNext(u)' <=> AtWriteNext(u)
    <3>1. ~AtWriteNext(t)
      BY BeginSteps DEF AtWriteNext, Idle
    <3>2. ~AtWriteNext(t)'
      <4>1. 1 \in 1..Len(Path[j]) /\ Path[j][1] # "writeNext"
        BY <1>2, PathSteps
      <4> QED
        BY <4>1, BeginSteps DEF AtWriteNext, Idle
    <3>3. ASSUME NEW u \in AllThreads, u # t
          PROVE  AtWriteNext(u)' <=> AtWriteNext(u)
      BY <3>3, BeginSteps DEF AtWriteNext, Idle
    <3> QED
      BY <3>1, <3>2, <3>3
  <2>2. ~AtWriteNext(t)
    BY BeginSteps DEF AtWriteNext, Idle
  <2>3. \A u \in AllThreads : AtWriteNext(u) => found'[u] = found[u]
    BY <2>2, BeginSteps
  <2> QED
    BY <2>1, <2>3, BeginSteps DEF Counter
<1> QED
  BY <1>1, <1>3, <1>4

\* A thread that is idle or at its first step has made nothing.
LEMMA NothingAtFirst ==
    ASSUME NEW t, job[t] = "idle" \/ pc[t] = 1
    PROVE  Created(t) = 0 /\ Stored(t) = 0 /\ Entered(t) = 0 /\ ~Ahead(t)
  BY DEF Created, Stored, Entered, Ahead, Past, Single

\* The beginning of a call makes and registers nothing.
LEMMA BeginRegistration ==
    ASSUME IInv, NEW t \in AllThreads, NEW j \in Jobs, NEW a, NEW f, Begin(t, j, a, f)
    PROVE  Registration'
<1> USE DEF IInv
<1>1. Created(t) = 0 /\ Stored(t) = 0 /\ Entered(t) = 0 /\ ~Ahead(t)
  BY BeginSteps, NothingAtFirst
<1>2. Created(t)' = 0 /\ Stored(t)' = 0 /\ Entered(t)' = 0 /\ ~Ahead(t)'
  <2>1. pc'[t] = 1
    BY BeginSteps
  <2> QED
    BY <2>1 DEF Created, Stored, Entered, Ahead, Past, Single
<1>3. \A u \in AllThreads : /\ Created(u)' = Created(u) /\ Stored(u)' = Stored(u)
                            /\ Entered(u)' = Entered(u) /\ (Ahead(u)' <=> Ahead(u))
  <2>1. ASSUME NEW u \in AllThreads, u # t
        PROVE  pc'[u] = pc[u] /\ job'[u] = job[u]
    BY <2>1, BeginSteps
  <2> QED
    BY <1>1, <1>2, <2>1, SameCounts
<1>4. UNCHANGED <<returned, mine, registered, made, next, handles, endpoints>>
  BY BeginSteps
<1>5. Fresh'
  BY <1>3, <1>4 DEF Fresh
<1>6. Progress'
  <2>1. ASSUME NEW u \in AllThreads, u # t, NEW i \in 1..Created(u)
        PROVE  Kept(u, i)'
    <3>1. job'[u] = job[u] /\ Kept(u, i)
      BY <2>1, BeginSteps DEF Progress
    <3> QED
      BY <1>3, <1>4, <3>1 DEF Kept
  <2>2. \A i \in 1..Created(t)' : FALSE
    BY <1>2
  <2> QED
    BY <1>3, <1>4, <2>1, <2>2 DEF Progress
<1>7. Distinct'
  BY <1>3, <1>4 DEF Distinct
<1>8. HandlesUnique'
  BY <1>4 DEF HandlesUnique, IsInjective
<1> QED
  BY <1>5, <1>6, <1>7, <1>8 DEF Registration

\* A new invitation has a name of its own; an acceptance begins for one that is
\* pending, with its channel.
LEMMA BeginInvited ==
    ASSUME IInv, NEW t \in AllThreads, NEW j \in Jobs, NEW a, NEW f, Begin(t, j, a, f),
           begun' \in Nat, begun' >= begun,
           j = "invite" => a = begun + 1 /\ a \in Invitations /\ begun' = begun + 1 /\ t # IO,
           j = "accept" => a \in invited \ accepted /\ t = IO,
           j \in {"send", "sendAway", "forward"} => Known \cap channels # {}
    PROVE  Invited'
<1> USE DEF IInv
<1>0. begun \in Nat /\ invited \subseteq Nat /\ IO \in AllThreads
  BY BoundsAssumption DEF Types, Invitations, AllThreads
<1>1. ASSUME NEW u \in AllThreads, job'[u] = "invite"
      PROVE  /\ arg'[u] \in Invitations /\ arg'[u] <= begun'
             /\ arg'[u] \in invited <=> pc[u] > 15
             /\ pc[u] \in 14..15 => Temporary(arg'[u]) \in channels
             /\ pc[u] = 15 => arg'[u] \in DOMAIN pending
             /\ \A v \in AllThreads : u # v /\ job'[v] = "invite" => arg'[u] # arg'[v]
  <2>1. \A v \in AllThreads : v # t /\ job'[v] = "invite" =>
            arg'[v] = arg[v] /\ arg[v] \in Nat /\ arg[v] <= begun
    <3>1. \A v \in AllThreads : v # t => job'[v] = job[v] /\ arg'[v] = arg[v]
      BY BeginSteps
    <3>2. \A v \in AllThreads : arg[v] \in Nat /\ (job[v] = "invite" => arg[v] <= begun)
      BY DEF Invited, Types
    <3> QED
      BY <3>1, <3>2
  <2>2. CASE u = t
    <3>1. a = begun + 1 /\ a \in Invitations /\ arg'[u] = a /\ pc[u] = 1
      BY <1>1, <2>2, BeginSteps
    <3>2. a \notin invited
      BY <1>0, <3>1 DEF Invited
    <3>3. a <= begun'
      BY <1>0, <1>1, <2>2, <3>1, BeginSteps
    <3>4. \A v \in AllThreads : v # t /\ job'[v] = "invite" => arg'[v] # a
      BY <1>0, <2>1, <3>1
    <3> QED
      BY <2>2, <3>1, <3>2, <3>3, <3>4
  <2>3. CASE u # t
    <3>1. job[u] = "invite" /\ arg'[u] = arg[u] /\ arg[u] <= begun'
      BY <1>0, <1>1, <2>1, <2>3, BeginSteps
    <3>2. ASSUME NEW v \in AllThreads, u # v, job'[v] = "invite"
          PROVE  arg'[u] # arg'[v]
      <4>1. CASE v = t
        <5>1. arg'[v] = begun + 1
          BY <3>2, <4>1, BeginSteps
        <5> QED
          BY <1>0, <1>1, <2>1, <2>3, <5>1
      <4>2. CASE v # t
        BY <3>1, <3>2, <4>2, BeginSteps DEF Invited
      <4> QED
        BY <4>1, <4>2
    <3> QED
      BY <3>1, <3>2 DEF Invited
  <2> QED
    BY <2>2, <2>3
<1>2. \A i \in invited : i <= begun'
  <2>1. \A i \in invited : i \in Nat /\ i <= begun
    BY <1>0 DEF Invited
  <2> QED
    BY <1>0, <2>1
<1>3. job'[IO] = "accept" =>
          /\ arg'[IO] \in invited
          /\ arg'[IO] \in accepted <=> pc[IO] > 1
          /\ pc[IO] <= 3 => Temporary(arg'[IO]) \in channels
          /\ pc[IO] >= 4 => Actual(arg'[IO]) \in channels
          /\ pc[IO] = 8 => callback # Nothing
  <2>1. CASE t = IO
    BY <2>1, BeginSteps DEF Invited
  <2>2. CASE t # IO
    BY <1>0, <2>2, BeginSteps DEF Invited
  <2> QED
    BY <2>1, <2>2
<1>4. accepted # {} /\ job'[IO] # "accept" => Known \cap channels # {}
  <2>1. CASE t = IO
    BY <2>1, BeginSteps DEF Invited
  <2>2. CASE t # IO
    BY <1>0, <2>2, BeginSteps DEF Invited
  <2> QED
    BY <2>1, <2>2
<1>5. \A u \in AllThreads : job'[u] \in {"send", "sendAway", "forward"} => Known \cap channels # {}
  BY BeginSteps DEF Invited
<1>6. /\ role = "invitee" => invited = {}
      /\ \A i \in invited \ accepted : i \in DOMAIN pending /\ Temporary(i) \in channels
  BY DEF Invited
<1> HIDE DEF IInv
<1>7. UNCHANGED <<role, pc, channels, pending, callback, invited, accepted>>
  BY BeginSteps
<1> QED
  BY <1>1, <1>2, <1>3, <1>4, <1>5, <1>6, <1>7 DEF Invited

\* A process is invited at most once, and handles its invitation once.
LEMMA BeginJoins ==
    ASSUME IInv, NEW t \in AllThreads, NEW j \in Jobs, NEW a, NEW f, Begin(t, j, a, f),
           begun' \in Nat, begun' >= begun,
           j \in IOJobs <=> t = IO,
           j = "join" => begun = 0 /\ begun' = 1,
           IF j = "invited" THEN started /\ ~joined /\ joined' = TRUE ELSE joined' = joined,
           role = "invitee" /\ j \in {"receive", "forward"} => joined,
           role = "invitee" /\ j \in {"send", "sendAway"} =>
               \E r \in returned : r.endpoint[1] = IO
    PROVE  Joins'
<1> USE DEF IInv
<1>0. begun \in Nat /\ IO \in AllThreads
  BY DEF Types, AllThreads
<1>1. ASSUME NEW u \in AllThreads, job'[u] = "join"
      PROVE  /\ begun' # 0
             /\ pc[u] <= 3 => ~started
             /\ pc[u] >= 2 => joinable
             /\ pc[u] = 3 => Initial \in channels
             /\ \A v \in AllThreads : job'[v] = "join" => u = v
  <2>1. CASE u = t
    <3>1. j = "join" /\ begun = 0 /\ begun' = 1 /\ pc[u] = 1
      BY <1>1, <2>1, BeginSteps
    <3>2. ~started /\ \A v \in AllThreads : job[v] # "join"
      BY <3>1 DEF Joins
    <3> QED
      BY <2>1, <3>1, <3>2, BeginSteps
  <2>2. CASE u # t
    <3>1. job[u] = "join" /\ begun # 0
      BY <1>1, <2>2, BeginSteps DEF Joins
    <3>2. j # "join"
      BY <3>1
    <3> QED
      BY <1>0, <3>1, <3>2, BeginSteps DEF Joins
  <2> QED
    BY <2>1, <2>2
<1>2. /\ started => role = "invitee" /\ begun' # 0 /\ joinable
      /\ joined' => started
      /\ started /\ ~joined' => Initial \in channels
  BY <1>0 DEF Joins
<1>3. job'[IO] = "invited" => joined' /\ (pc[IO] = 1 => Initial \in channels)
  <2>1. CASE t = IO
    BY <2>1, BeginSteps DEF Joins
  <2>2. CASE t # IO
    <3>1. j # "invited"
      BY <2>2 DEF IOJobs
    <3> QED
      BY <1>0, <2>2, <3>1, BeginSteps DEF Joins
  <2> QED
    BY <2>1, <2>2
<1>4. joined' /\ ~(job'[IO] = "invited" /\ pc[IO] = 1) => Inviter \in channels
  <2>1. CASE t = IO
    <3>1. job[IO] = "idle" /\ job'[IO] = j /\ pc[IO] = 1
      BY <2>1, BeginSteps
    <3> QED
      BY <3>1 DEF Joins
  <2>2. CASE t # IO
    <3>1. j # "invited" /\ job'[IO] = job[IO]
      BY <1>0, <2>2, BeginSteps DEF IOJobs
    <3> QED
      BY <3>1 DEF Joins
  <2> QED
    BY <2>1, <2>2
<1>5. role = "invitee" /\ (\/ job'[IO] \in {"receive", "forward"}
                           \/ \E r \in returned : r.endpoint[1] = IO
                           \/ \E u \in AllThreads : job'[u] \in {"send", "sendAway"})
      => joined' /\ job'[IO] # "invited"
  <2>1. CASE t = IO
    <3>1. job[IO] = "idle" /\ job'[IO] = j /\ j \in IOJobs
      BY <2>1, BeginSteps
    <3>2. \A u \in AllThreads : job'[u] \in {"send", "sendAway"} => job[u] \in {"send", "sendAway"}
      BY <2>1, <3>1, BeginSteps DEF IOJobs
    <3> QED
      BY <3>1, <3>2 DEF Joins
  <2>2. CASE t # IO
    <3>1. joined' = joined /\ job'[IO] = job[IO]
      BY <1>0, <2>2, BeginSteps DEF IOJobs
    <3>2. \A u \in AllThreads : job'[u] \in {"send", "sendAway"} => u = t \/ job[u] \in {"send", "sendAway"}
      BY BeginSteps
    <3> QED
      BY <3>1, <3>2, BeginSteps DEF Joins
  <2> QED
    BY <2>1, <2>2
<1> HIDE DEF IInv
<1>6. UNCHANGED <<role, pc, channels, joinable, started, returned>>
  BY BeginSteps
<1> QED
  BY <1>1, <1>2, <1>3, <1>4, <1>5, <1>6 DEF Joins

\* A call begins with what it needs.
LEMMA BeginTargets ==
    ASSUME IInv, NEW t \in AllThreads, NEW j \in Jobs, NEW a, NEW f, Begin(t, j, a, f),
           j \in {"send", "sendHandle", "sendAway", "bind"} => \E r \in returned : r.handle = a,
           j \in {"sendHandle", "sendAway"} => \E r \in returned : r.handle = f[2],
           j \in {"receive", "forward"} => f \in endpoints,
           j = "forward" => Route(a) \in channels
    PROVE  Targets'
<1>1. Targets
  BY DEF IInv
<1>2. UNCHANGED <<handles, endpoints, channels, returned, queued, announced>> /\ pc' = pc
  BY BeginSteps
<1>3. ASSUME NEW u \in AllThreads, u # t
      PROVE  Aimed(u)'
  <2>1. job'[u] = job[u] /\ arg'[u] = arg[u] /\ found'[u] = found[u] /\ Aimed(u)
    BY <1>1, <1>3, BeginSteps DEF Targets
  <2> QED
    BY <1>2, <2>1 DEF Aimed, ByHandle, Carries, Carried, Aims, Routed
<1>4. Aimed(t)'
  <2>1. job'[t] = j /\ arg'[t] = a /\ found'[t] = f /\ pc'[t] = 1
    BY BeginSteps
  <2>2. /\ ByHandle(t)' => j \in {"send", "sendHandle", "sendAway", "bind"}
        /\ Carries(t)' => j \in {"sendHandle", "sendAway"}
        /\ ~Carried(t)'
        /\ Aims(t)' => j \in {"receive", "forward"}
        /\ Routed(t)' => j = "forward"
    BY <2>1 DEF ByHandle, Carries, Carried, Aims, Routed
  <2> QED
    BY <1>2, <2>1, <2>2 DEF Aimed
<1> QED
  BY <1>1, <1>2, <1>3, <1>4 DEF Targets

\* A process that can send has a channel to a known process.
LEMMA ConnectedByChannel ==
    ASSUME IInv, Connected
    PROVE  Known \cap channels # {}
<1>1. CASE role = "inviter"
  BY <1>1 DEF Connected
<1>2. CASE role = "invitee"
  <2>1. Inviter \in channels
    BY <1>2 DEF Connected, IInv, Joins
  <2> QED
    BY <2>1 DEF Known
<1> QED
  BY <1>1, <1>2 DEF IInv, Types

\* The beginning of every call of the application keeps the invariant.
LEMMA CallKept ==
    ASSUME IInv, NEW t \in Threads, Call(t)
    PROVE  IInv'
<1> USE DEF IInv
<1>0. t \in AllThreads /\ t # IO /\ begun \in Nat /\ joined \in BOOLEAN /\ joined' = joined
  BY ThreadsAssumption DEF AllThreads, Types, Call
<1>1. \E j \in AppJobs, a \in Nat, f \in Foundables :
         /\ Begin(t, j, a, f)
         /\ begun' \in Nat /\ begun' >= begun
         /\ j = "invite" => /\ a = begun + 1 /\ a \in Invitations /\ begun' = begun + 1
                            /\ role = "inviter"
         /\ j = "join" => begun = 0 /\ begun' = 1 /\ role = "invitee"
         /\ j \in {"send", "sendHandle", "sendAway", "bind"} => \E r \in returned : r.handle = a
         /\ j \in {"sendHandle", "sendAway"} => \E r \in returned : r.handle = f[2]
         /\ j \in {"send", "sendAway"} => Connected
  <2>0. Unknown \in Foundables
    BY DEF Unknown, Foundables, Nothing
  <2>1. CASE Begin(t, "create", Nothing, Unknown) /\ UNCHANGED begun
    BY <1>0, <2>0, <2>1 DEF AppJobs, Nothing
  <2>2. CASE /\ role = "inviter" /\ begun < MaxInvitations
             /\ Begin(t, "invite", begun + 1, Unknown)
             /\ begun' = begun + 1
    <3>1. begun + 1 \in Invitations /\ begun + 1 \in Nat
      BY <1>0, <2>2, BoundsAssumption DEF Invitations
    <3>2. "invite" \in AppJobs
      BY DEF AppJobs
    <3> QED
      BY <1>0, <2>0, <2>2, <3>1, <3>2
  <2>3. CASE /\ role = "invitee" /\ begun = 0
             /\ Begin(t, "join", Nothing, Unknown)
             /\ begun' = 1
    BY <1>0, <2>0, <2>3 DEF AppJobs, Nothing
  <2>4. ASSUME NEW r \in returned, UNCHANGED begun, Begin(t, "bind", r.handle, Unknown) \/ Send(t, r)
        PROVE  \E j \in {"bind", "send", "sendHandle", "sendAway"}, f \in Foundables :
                  /\ Begin(t, j, r.handle, f)
                  /\ j \in {"sendHandle", "sendAway"} => \E q \in returned : q.handle = f[2]
                  /\ j \in {"send", "sendAway"} => Connected
    <3>1. ASSUME NEW q \in returned
          PROVE  <<"handle", q.handle>> \in Foundables
      BY <3>1 DEF Types, Givens, Foundables
    <3>2. CASE Begin(t, "bind", r.handle, Unknown) \/ (Connected /\ Begin(t, "send", r.handle, Unknown))
      BY <2>0, <3>2
    <3>3. ASSUME NEW q \in returned,
                 \/ Begin(t, "sendHandle", r.handle, <<"handle", q.handle>>)
                 \/ Connected /\ Begin(t, "sendAway", r.handle, <<"handle", q.handle>>)
          PROVE  \E j \in {"sendHandle", "sendAway"}, f \in Foundables :
                    /\ Begin(t, j, r.handle, f)
                    /\ \E p \in returned : p.handle = f[2]
                    /\ j = "sendAway" => Connected
      <4>1. /\ <<"handle", q.handle>> \in Foundables
            /\ \E p \in returned : p.handle = <<"handle", q.handle>>[2]
        BY <3>1
      <4> QED
        BY <3>3, <4>1
    <3> QED
      BY <2>4, <3>2, <3>3 DEF Send
  <2>5. ASSUME NEW r \in returned, UNCHANGED begun,
               NEW j \in {"bind", "send", "sendHandle", "sendAway"}, NEW f \in Foundables,
               Begin(t, j, r.handle, f),
               j \in {"sendHandle", "sendAway"} => \E q \in returned : q.handle = f[2],
               j \in {"send", "sendAway"} => Connected
        PROVE  \E k \in AppJobs, a \in Nat, g \in Foundables :
                  /\ Begin(t, k, a, g)
                  /\ begun' \in Nat /\ begun' >= begun
                  /\ k = "invite" => /\ a = begun + 1 /\ a \in Invitations /\ begun' = begun + 1
                                     /\ role = "inviter"
                  /\ k = "join" => begun = 0 /\ begun' = 1 /\ role = "invitee"
                  /\ k \in {"send", "sendHandle", "sendAway", "bind"} =>
                         \E q \in returned : q.handle = a
                  /\ k \in {"sendHandle", "sendAway"} => \E q \in returned : q.handle = g[2]
                  /\ k \in {"send", "sendAway"} => Connected
    <3>1. r.handle \in Nat /\ j \in AppJobs /\ j # "invite" /\ j # "join"
      BY DEF Types, Givens, AppJobs
    <3>2. begun' \in Nat /\ begun' >= begun
      BY <1>0, <2>5
    <3> QED
      BY <2>5, <3>1, <3>2
  <2> QED
    BY <2>1, <2>2, <2>3, <2>4, <2>5 DEF Call
<1>2. PICK j \in AppJobs, a \in Nat, f \in Foundables :
         /\ Begin(t, j, a, f)
         /\ begun' \in Nat /\ begun' >= begun
         /\ j = "invite" => /\ a = begun + 1 /\ a \in Invitations /\ begun' = begun + 1
                            /\ role = "inviter"
         /\ j = "join" => begun = 0 /\ begun' = 1 /\ role = "invitee"
         /\ j \in {"send", "sendHandle", "sendAway", "bind"} => \E r \in returned : r.handle = a
         /\ j \in {"sendHandle", "sendAway"} => \E r \in returned : r.handle = f[2]
         /\ j \in {"send", "sendAway"} => Connected
  BY <1>1
<1> HIDE DEF IInv
<1>3. /\ j \in Jobs /\ j \notin IOJobs
      /\ j \notin {"accept", "invited", "forward", "receive"}
  BY DEF AppJobs, Jobs, IOJobs
<1>4. Types' /\ Places' /\ Counter'
  BY <1>0, <1>2, <1>3, BeginPlaces
<1>5. Registration'
  BY <1>0, <1>2, <1>3, BeginRegistration
<1>6. Invited'
  <2>1. j \in {"send", "sendAway", "forward"} => Known \cap channels # {}
    BY <1>2, <1>3, ConnectedByChannel
  <2> QED
    BY <1>0, <1>2, <1>3, <2>1, BeginInvited
<1>7. Joins'
  <2>1. role = "invitee" /\ j \in {"send", "sendAway"} => \E r \in returned : r.endpoint[1] = IO
    BY <1>2 DEF Connected
  <2> QED
    BY <1>0, <1>2, <1>3, <2>1, BeginJoins
<1>8. Targets'
  BY <1>0, <1>2, <1>3, BeginTargets
<1> QED
  BY <1>4, <1>5, <1>6, <1>7, <1>8 DEF IInv, Registration

\* The beginning of every handler of the IO thread keeps the invariant.
LEMMA ArriveKept ==
    ASSUME IInv, Arrive
    PROVE  IInv'
<1> USE DEF IInv
<1>0. IO \in AllThreads /\ begun \in Nat /\ joined \in BOOLEAN /\ begun' = begun
  BY DEF AllThreads, Types, Arrive
<1>1. PICK j \in IOJobs, a \in Nat, f \in Foundables :
         /\ Begin(IO, j, a, f)
         /\ j = "accept" => a \in invited \ accepted
         /\ IF j = "invited" THEN started /\ ~joined /\ joined' = TRUE ELSE joined' = joined
         /\ j \in {"receive", "forward"} => (accepted # {} \/ joined) /\ f \in endpoints
         /\ j = "forward" => Route(a) \in channels
  <2>0. Unknown \in Foundables
    BY DEF Unknown, Foundables, Nothing
  <2>1. CASE /\ \E i \in invited \ accepted : Begin(IO, "accept", i, Unknown)
             /\ UNCHANGED <<received, joined>>
    <3>1. invited \subseteq Nat
      BY BoundsAssumption DEF Types, Invitations
    <3>2. PICK i \in invited \ accepted : Begin(IO, "accept", i, Unknown)
      BY <2>1
    <3> QED
      BY <2>0, <2>1, <3>1, <3>2 DEF IOJobs
  <2>2. CASE started /\ ~joined /\ Begin(IO, "invited", Nothing, Unknown) /\ joined' = TRUE
    BY <2>0, <2>2 DEF IOJobs, Nothing
  <2>3. ASSUME accepted # {} \/ joined, UNCHANGED joined, NEW e \in announced,
               \/ Begin(IO, "receive", Nothing, e)
               \/ \E c \in Known \cap channels : Begin(IO, "forward", c[2], e)
        PROVE  \E j \in {"receive", "forward"}, a \in Nat :
                  Begin(IO, j, a, e) /\ (j = "forward" => Route(a) \in channels)
    <3>1. CASE Begin(IO, "receive", Nothing, e)
      BY <3>1 DEF Nothing
    <3>2. ASSUME NEW c \in Known \cap channels, Begin(IO, "forward", c[2], e)
          PROVE  \E a \in Nat : Begin(IO, "forward", a, e) /\ Route(a) \in channels
      BY <3>2, KnownRoutes
    <3> QED
      BY <2>3, <3>1, <3>2
  <2>4. \A e \in announced : e \in endpoints /\ e \in Foundables
    BY DEF Targets, Types, Names, Foundables
  <2>5. ASSUME accepted # {} \/ joined, UNCHANGED joined, NEW e \in announced,
               \/ Begin(IO, "receive", Nothing, e)
               \/ \E c \in Known \cap channels : Begin(IO, "forward", c[2], e)
        PROVE  \E j \in IOJobs, a \in Nat, f \in Foundables :
                  /\ Begin(IO, j, a, f)
                  /\ j = "accept" => a \in invited \ accepted
                  /\ IF j = "invited" THEN started /\ ~joined /\ joined' = TRUE ELSE joined' = joined
                  /\ j \in {"receive", "forward"} => (accepted # {} \/ joined) /\ f \in endpoints
                  /\ j = "forward" => Route(a) \in channels
    <3>1. PICK j \in {"receive", "forward"}, a \in Nat :
             Begin(IO, j, a, e) /\ (j = "forward" => Route(a) \in channels)
      BY <2>3, <2>5
    <3>2. j \in IOJobs /\ j # "accept" /\ j # "invited" /\ e \in Foundables /\ e \in endpoints
      BY <2>4 DEF IOJobs
    <3> QED
      BY <2>5, <3>1, <3>2
  <2> QED
    BY <2>1, <2>2, <2>5 DEF Arrive
<1>2. /\ j \in Jobs /\ joined' \in BOOLEAN
      /\ j \notin {"invite", "join", "send", "sendHandle", "sendAway", "bind"}
  BY <1>0, <1>1 DEF IOJobs, Jobs
<1>3. /\ j = "accept" => role = "inviter"
      /\ j = "invited" => role = "invitee"
      /\ role = "invitee" => accepted = {}
  BY <1>1 DEF Invited, Joins, Types
<1>4. job[IO] = "idle"
  BY <1>0, <1>1, <1>2, BeginSteps
<1>5. j \in {"send", "sendAway", "forward"} => Known \cap channels # {}
  <2>1. joined => Inviter \in channels
    BY <1>4 DEF Joins
  <2> QED
    BY <1>1, <1>2, <1>4, <2>1 DEF Invited, Known
<1> HIDE DEF IInv
<1>6. Types' /\ Places' /\ Counter'
  BY <1>0, <1>1, <1>2, <1>3, BeginPlaces
<1>7. Registration'
  BY <1>0, <1>1, <1>2, BeginRegistration
<1>8. Invited'
  BY <1>0, <1>1, <1>2, <1>5, BeginInvited
<1>9. Joins'
  <2>1. role = "invitee" /\ j \in {"receive", "forward"} => joined
    BY <1>1, <1>3
  <2>2. j # "join" /\ j \notin {"send", "sendAway"} /\ begun' \in Nat /\ begun' >= begun
    BY <1>0, <1>2
  <2> QED
    BY <1>0, <1>1, <1>2, <2>1, <2>2, BeginJoins
<1>10. Targets'
  BY <1>0, <1>1, <1>2, BeginTargets
<1> QED
  BY <1>6, <1>7, <1>8, <1>9, <1>10 DEF IInv, Registration

-----------------------------------------------------------------------------
(* Calls return.                                                            *)

\* What the end of a call changes.
LEMMA ReturnSteps ==
    ASSUME IInv, NEW t \in AllThreads, Return(t)
    PROVE  /\ job[t] \in Jobs /\ pc[t] = Len(Path[job[t]]) + 1
           /\ job[t] = "create" => pc[t] = 13
           /\ job[t] = "invite" => pc[t] = 16
           /\ job[t] = "receive" => pc[t] = 7
           /\ job[t] = "invited" => pc[t] = 8
           /\ job[t] = "accept" => pc[t] = 9
           /\ job[t] = "forward" => pc[t] = 9
           /\ job'[t] = "idle" /\ pc'[t] = 1 /\ mine'[t] = << >> /\ registered'[t] = 0
           /\ \A u \in AllThreads : u # t =>
                 /\ job'[u] = job[u] /\ pc'[u] = pc[u] /\ arg'[u] = arg[u]
                 /\ found'[u] = found[u] /\ mine'[u] = mine[u] /\ registered'[u] = registered[u]
           /\ UNCHANGED <<role, begun, joined, made, next, handles, endpoints, channels,
                          pending, callback, joinable, invited, started, accepted, told, lock,
                          queued>>
<1>1. job[t] \in Jobs /\ pc[t] \in 1..(Len(Path[job[t]]) + 1) /\ pc[t] > Len(Path[job[t]])
  BY DEF Return, IInv, Types, Places, Idle
<1>2. pc[t] = Len(Path[job[t]]) + 1
  <2>1. Len(Path[job[t]]) \in {1, 3, 4, 6, 7, 8, 12, 15}
    BY <1>1, PathLengths, Zenon DEF Jobs
  <2>2. \A n \in {1, 3, 4, 6, 7, 8, 12, 15} : \A p \in 1..(n + 1) : p > n => p = n + 1
    OBVIOUS
  <2> QED
    BY <1>1, <2>1, <2>2, Zenon
<1>3. /\ job'[t] = "idle" /\ pc'[t] = 1 /\ mine'[t] = << >> /\ registered'[t] = 0
      /\ \A u \in AllThreads : u # t =>
            /\ job'[u] = job[u] /\ pc'[u] = pc[u] /\ arg'[u] = arg[u]
            /\ found'[u] = found[u] /\ mine'[u] = mine[u] /\ registered'[u] = registered[u]
  BY DEF Return, IInv, Types
<1>4. /\ job[t] = "create" => pc[t] = 13
      /\ job[t] = "invite" => pc[t] = 16
      /\ job[t] = "receive" => pc[t] = 7
      /\ job[t] = "invited" => pc[t] = 8
      /\ job[t] = "accept" => pc[t] = 9
      /\ job[t] = "forward" => pc[t] = 9
  <2>1. 12 + 1 = 13 /\ 15 + 1 = 16 /\ 6 + 1 = 7 /\ 7 + 1 = 8 /\ 8 + 1 = 9
    OBVIOUS
  <2> QED
    BY <1>2, <2>1, PathLengths, Zenon
<1> QED
  BY <1>1, <1>2, <1>3, <1>4 DEF Return, callVars, tableVars, outsideVars, historyVars

\* At its end a call has registered every handle it made.
LEMMA MadeIsKept ==
    ASSUME IInv, NEW t \in AllThreads, Return(t),
           job[t] \in {"create", "invite", "receive", "forward", "invited"}
    PROVE  /\ job[t] \in {"create", "invite"} => Len(mine[t]) = 2
           /\ job[t] \in {"receive", "forward", "invited"} => Len(mine[t]) = 1
           /\ \A i \in 1..Len(mine[t]) :
                 /\ mine[t][i] \in Entries /\ mine[t][i].endpoint[1] = t
                 /\ mine[t][i].handle \in DOMAIN handles
                 /\ handles[mine[t][i].handle] = mine[t][i].endpoint
                 /\ mine[t][i].endpoint \in endpoints
<1> USE DEF IInv
<1>1. /\ job[t] \in {"create", "invite"} => Created(t) = 2
      /\ job[t] \in {"receive", "forward", "invited"} => Created(t) = 1
      /\ Created(t) \in Nat /\ Stored(t) = Created(t)
      /\ job[t] # "invited" => Entered(t) = Created(t)
  <2>2. CASE job[t] = "create"
    <3>1. pc[t] = 13
      BY <2>2, ReturnSteps
    <3> QED
      BY <2>2, <3>1 DEF Created, Stored, Entered, Past
  <2>3. CASE job[t] = "invite"
    <3>1. pc[t] = 16
      BY <2>3, ReturnSteps
    <3> QED
      BY <2>3, <3>1 DEF Created, Stored, Entered, Past
  <2>4. CASE job[t] \in {"receive", "forward"}
    <3>1. pc[t] \in {7, 9}
      BY <2>4, ReturnSteps
    <3> QED
      BY <2>4, <3>1 DEF Created, Stored, Entered, Single
  <2>5. CASE job[t] = "invited"
    <3>1. pc[t] = 8
      BY <2>5, ReturnSteps
    <3> QED
      BY <2>5, <3>1 DEF Created, Stored, Entered, Single
  <2> QED
    BY <2>2, <2>3, <2>4, <2>5
<1>2. mine[t] \in Seq(Entries) /\ Len(mine[t]) = Created(t)
  BY DEF Types, Progress
<1>3. ASSUME NEW i \in 1..Created(t)
      PROVE  mine[t][i] \in Entries /\ Kept(t, i)
  BY <1>1, <1>2 DEF Progress
<1> QED
  BY <1>1, <1>2, <1>3 DEF Kept

\* So what it gives is in the tables, with its peer if that is local.
LEMMA GivenIsKept ==
    ASSUME IInv, NEW t \in AllThreads, Return(t), NEW r \in Given(t)
    PROVE  /\ r \in Givens /\ r.endpoint[1] = t
           /\ r.handle \in DOMAIN handles /\ handles[r.handle] = r.endpoint
           /\ r.endpoint \in endpoints
           /\ r.peer = Remote \/ r.peer \in endpoints
           /\ job[t] \in {"create", "invite", "receive", "invited"}
<1> DEFINE n == Len(mine[t])
<1>1. /\ job[t] \in {"create", "invite", "receive", "invited"}
      /\ \E i \in 1..n : \E peer :
            /\ r = With(mine[t][i], peer)
            /\ peer = Remote \/ \E j \in 1..n : peer = mine[t][j].endpoint
  <2>1. CASE job[t] \in {"create", "invite"}
    <3>1. n = 2 /\ 1 \in 1..2 /\ 2 \in 1..2
      BY <2>1, MadeIsKept
    <3>2. \/ r = With(mine[t][1], mine[t][2].endpoint)
          \/ r = With(mine[t][2], mine[t][1].endpoint)
      BY <2>1 DEF Given
    <3> HIDE DEF n
    <3> QED
      BY <2>1, <3>1, <3>2
  <2>2. CASE job[t] \in {"receive", "invited"}
    <3>1. n = 1 /\ 1 \in 1..1
      BY <2>2, MadeIsKept
    <3>2. r = With(mine[t][1], Remote)
      BY <2>2 DEF Given
    <3> HIDE DEF n
    <3> QED
      BY <2>2, <3>1, <3>2
  <2>3. job[t] \in {"create", "invite", "receive", "invited"}
    BY DEF Given
  <2> QED
    BY <2>1, <2>2, <2>3
<1>2. PICK i \in 1..n : \E peer :
         /\ r = With(mine[t][i], peer)
         /\ peer = Remote \/ \E j \in 1..n : peer = mine[t][j].endpoint
  BY <1>1
<1>6. PICK peer :
         /\ r = With(mine[t][i], peer)
         /\ peer = Remote \/ \E j \in 1..n : peer = mine[t][j].endpoint
  BY <1>2
<1>3. \A j \in 1..n : /\ mine[t][j] \in Entries /\ mine[t][j].endpoint[1] = t
                       /\ mine[t][j].handle \in DOMAIN handles
                       /\ handles[mine[t][j].handle] = mine[t][j].endpoint
                       /\ mine[t][j].endpoint \in endpoints
  BY <1>1, MadeIsKept
<1> HIDE DEF n
<1>4. peer = Remote \/ (peer \in endpoints /\ peer \in Names)
  BY <1>6, <1>3 DEF Entries
<1>5. /\ r.handle = mine[t][i].handle /\ r.endpoint = mine[t][i].endpoint /\ r.peer = peer
      /\ r \in Givens
  BY <1>6, <1>3, <1>4 DEF With, Givens, Entries
<1> QED
  BY <1>1, <1>3, <1>4, <1>5

\* A call returns with no lock.
LEMMA ReturnPlaces ==
    ASSUME IInv, NEW t \in AllThreads, Return(t)
    PROVE  Types' /\ Places' /\ Counter'
<1> USE DEF IInv
<1>1. Types'
  <2>1. returned' \subseteq Givens
    BY GivenIsKept DEF Return, Types
  <2>2. << >> \in Seq(Entries) /\ Unknown \in Foundables /\ Nothing \in Nat
    BY DEF Unknown, Nothing, Foundables
  <2> QED
    BY <2>1, <2>2 DEF Return, Types, callVars, tableVars, outsideVars, historyVars
<1>2. Places'
  <2>2. ASSUME NEW u \in AllThreads
        PROVE  /\ job'[u] = "idle" => pc'[u] = 1
               /\ job'[u] # "idle" => pc'[u] \in 1..(Len(Path[job'[u]]) + 1)
               /\ job'[u] \in {"invite", "accept"} => role' = "inviter"
               /\ job'[u] \in {"join", "invited"} => role' = "invitee"
    <3>1. CASE u = t
      BY <3>1, ReturnSteps
    <3>2. CASE u # t
      BY <3>2, ReturnSteps DEF Places, Idle
    <3> QED
      BY <3>1, <3>2
  <2>3. /\ \A u \in Threads : job'[u] \in AppJobs \cup {"idle"}
        /\ job'[IO] \in IOJobs \cup {"idle"}
    BY ReturnSteps DEF Places, AllThreads
  <2> QED
    BY <2>2, <2>3 DEF Places, Idle
<1>3. Counter'
  <2>1. ASSUME NEW u \in AllThreads
        PROVE  AtWriteNext(u)' <=> AtWriteNext(u)
    <3>1. CASE u = t
      <4>1. ~AtWriteNext(t)'
        BY ReturnSteps DEF AtWriteNext, Idle
      <4>2. ~AtWriteNext(t)
        <5>1. ~(pc[t] \in 1..Len(Path[job[t]]))
          <6>1. Len(Path[job[t]]) \in {1, 3, 4, 6, 7, 8, 12, 15}
            BY ReturnSteps, PathLengths, Zenon DEF Jobs
          <6>2. \A n \in {1, 3, 4, 6, 7, 8, 12, 15} : n + 1 \notin 1..n
            OBVIOUS
          <6>3. pc[t] = Len(Path[job[t]]) + 1
            BY ReturnSteps
          <6> QED
            BY <6>1, <6>2, <6>3, Zenon
        <5> QED
          BY <5>1 DEF AtWriteNext
      <4> QED
        BY <3>1, <4>1, <4>2
    <3>2. CASE u # t
      BY <3>2, ReturnSteps DEF AtWriteNext, Idle
    <3> QED
      BY <3>1, <3>2
  <2>2. ~AtWriteNext(t)'
    BY ReturnSteps DEF AtWriteNext, Idle
  <2> QED
    BY <2>1, <2>2, ReturnSteps DEF Counter
<1> QED
  BY <1>1, <1>2, <1>3

\* What a call returns is in the tables, and nobody else's.
LEMMA ReturnRegistration ==
    ASSUME IInv, NEW t \in AllThreads, Return(t)
    PROVE  Registration'
<1> USE DEF IInv
<1>1. Created(t)' = 0 /\ Stored(t)' = 0 /\ Entered(t)' = 0 /\ ~Ahead(t)'
  <2>1. job'[t] = "idle"
    BY ReturnSteps
  <2> QED
    BY <2>1 DEF Created, Stored, Entered, Ahead
<1>2. ~Ahead(t)
  <2>1. job[t] = "invited" => pc[t] = 8
    BY ReturnSteps
  <2> QED
    BY <2>1 DEF Ahead
<1>3. \A u \in AllThreads : u # t =>
          /\ Created(u)' = Created(u) /\ Stored(u)' = Stored(u) /\ Entered(u)' = Entered(u)
          /\ Ahead(u)' <=> Ahead(u)
          /\ mine'[u] = mine[u] /\ registered'[u] = registered[u] /\ job'[u] = job[u]
  BY ReturnSteps, SameCounts
<1>4. UNCHANGED <<made, next, handles, endpoints>>
  BY ReturnSteps
<1>5. Fresh'
  BY <1>1, <1>2, <1>3, <1>4 DEF Fresh
<1>6. Progress'
  <2>1. ASSUME NEW u \in AllThreads, u # t, NEW i \in 1..Created(u)
        PROVE  Kept(u, i)'
    <3>1. Kept(u, i)
      BY DEF Progress
    <3> QED
      BY <1>3, <1>4, <2>1, <3>1 DEF Kept
  <2>2. Len(mine'[t]) = 0 /\ registered'[t] = 0 /\ \A i \in 1..Created(t)' : FALSE
    BY <1>1, ReturnSteps
  <2> QED
    BY <1>1, <1>3, <2>1, <2>2 DEF Progress
<1>7. Distinct'
  <2>1. \A i \in 1..Created(t)' : FALSE
    BY <1>1
  <2> QED
    BY <1>3, <2>1 DEF Distinct
<1>8. HandlesUnique'
  <2>1. returned' = returned \cup Given(t)
    BY DEF Return
  <2> QED
    BY <1>4, <2>1, GivenIsKept DEF HandlesUnique, IsInjective
<1> QED
  BY <1>5, <1>6, <1>7, <1>8 DEF Registration

\* An acceptance that is over leaves a known process behind.
LEMMA ReturnInvitations ==
    ASSUME IInv, NEW t \in AllThreads, Return(t)
    PROVE  Invited' /\ Joins'
<1>0. IO \in AllThreads
  BY DEF AllThreads
<1>1. Invited'
  <2>1. ASSUME accepted # {}, job'[IO] # "accept"
        PROVE  Known \cap channels # {}
    <3>1. CASE job[IO] = "accept"
      <4>1. t = IO
        BY <1>0, <2>1, <3>1, ReturnSteps
      <4>2. pc[IO] = 9
        BY <3>1, <4>1, ReturnSteps
      <4>3. Actual(arg[IO]) \in channels /\ arg[IO] \in Invitations
        BY <3>1, <4>2 DEF IInv, Invited, Types
      <4> QED
        BY <4>3 DEF Known
    <3>2. CASE job[IO] # "accept"
      BY <2>1, <3>2 DEF IInv, Invited
    <3> QED
      BY <3>1, <3>2
  <2>2. Invited
    BY DEF IInv
  <2>3. \A u \in AllThreads : job'[u] # "idle" => u # t
    BY ReturnSteps
  <2>4. \A u \in AllThreads : job'[u] # "idle" =>
            job'[u] = job[u] /\ pc'[u] = pc[u] /\ arg'[u] = arg[u]
    BY <2>3, ReturnSteps
  <2>5. UNCHANGED <<role, begun, channels, pending, callback, invited, accepted>>
    BY ReturnSteps
  <2> QED
    BY <1>0, <2>1, <2>2, <2>4, <2>5 DEF Invited
<1>2. Joins'
  <2>1. Joins
    BY DEF IInv
  <2>2. \A u \in AllThreads : job'[u] # "idle" => job'[u] = job[u] /\ pc'[u] = pc[u]
    BY ReturnSteps
  <2>3. UNCHANGED <<role, begun, joined, started, joinable, channels>>
    BY ReturnSteps
  <2>4. joined /\ ~(job'[IO] = "invited" /\ pc'[IO] = 1) => Inviter \in channels
    <3>1. CASE t = IO
      <4>1. job[IO] = "invited" => pc[IO] = 8
        BY <3>1, ReturnSteps
      <4> QED
        BY <2>1, <4>1 DEF Joins
    <3>2. CASE t # IO
      BY <1>0, <2>1, <3>2, ReturnSteps DEF Joins
    <3> QED
      BY <3>1, <3>2
  <2>5. role = "invitee" /\ (\/ job'[IO] \in {"receive", "forward"}
                             \/ \E r \in returned' : r.endpoint[1] = IO
                             \/ \E u \in AllThreads : job'[u] \in {"send", "sendAway"})
        => joined /\ job'[IO] # "invited"
    <3>1. CASE t = IO
      <4>1. job'[IO] = "idle"
        BY <3>1, ReturnSteps
      <4>2. \A r \in returned' : r \in returned \/ job[IO] \in {"create", "invite", "receive", "invited"}
        BY <3>1, GivenIsKept DEF Return
      <4>3. job[IO] \notin {"create", "invite"}
        BY DEF IInv, Places, IOJobs
      <4>4. \A u \in AllThreads : job'[u] \in {"send", "sendAway"} => job[u] \in {"send", "sendAway"}
        BY <2>2
      <4> QED
        BY <2>1, <4>1, <4>2, <4>3, <4>4 DEF Joins
    <3>2. CASE t # IO
      <4>1. job'[IO] = job[IO]
        BY <1>0, <3>2, ReturnSteps
      <4>2. \A r \in returned' : r \in returned \/ r.endpoint[1] # IO
        BY <3>2, GivenIsKept DEF Return
      <4>3. \A u \in AllThreads : job'[u] \in {"send", "sendAway"} => job[u] \in {"send", "sendAway"}
        BY <2>2
      <4> QED
        BY <2>1, <4>1, <4>2, <4>3 DEF Joins
    <3> QED
      BY <3>1, <3>2
  <2>6. \A u \in AllThreads : job'[u] = "join" =>
          /\ begun # 0
          /\ pc'[u] <= 3 => ~started
          /\ pc'[u] >= 2 => joinable
          /\ pc'[u] = 3 => Initial \in channels
          /\ \A v \in AllThreads : job'[v] = "join" => u = v
    BY <2>1, <2>2 DEF Joins
  <2>7. job'[IO] = "invited" => joined /\ (pc'[IO] = 1 => Initial \in channels)
    BY <1>0, <2>1, <2>2 DEF Joins
  <2> QED
    BY <2>1, <2>3, <2>4, <2>5, <2>6, <2>7 DEF Joins
<1> QED
  BY <1>1, <1>2

\* What others learn of at the end of a call is in the map.
LEMMA ReturnTargets ==
    ASSUME IInv, NEW t \in AllThreads, Return(t)
    PROVE  Targets'
<1>1. Targets
  BY DEF IInv
<1>2. UNCHANGED <<handles, endpoints, channels, queued>>
  BY ReturnSteps
<1>3. announced' \subseteq endpoints
  <2>1. CASE job[t] \in {"receive", "forward"}
    <3>1. Len(mine[t]) = 1 /\ 1 \in 1..1
      BY <2>1, MadeIsKept
    <3>2. mine[t][1].endpoint \in endpoints
      BY <2>1, <3>1, MadeIsKept
    <3> QED
      BY <1>1, <2>1, <3>2 DEF Return, Targets
  <2>2. CASE job[t] \notin {"receive", "forward"}
    BY <1>1, <2>2 DEF Return, Targets
  <2> QED
    BY <2>1, <2>2
<1>4. returned \subseteq returned' /\ \A r \in returned' : r.peer = Remote \/ r.peer \in endpoints
  BY <1>1, GivenIsKept DEF Return, Targets
<1>5. ASSUME NEW u \in AllThreads
      PROVE  Aimed(u)'
  <2>1. CASE u = t
    <3>1. job'[t] = "idle"
      BY ReturnSteps
    <3> QED
      BY <2>1, <3>1 DEF Aimed, ByHandle, Carries, Carried, Aims, Routed
  <2>2. CASE u # t
    <3>1. /\ job'[u] = job[u] /\ pc'[u] = pc[u] /\ arg'[u] = arg[u] /\ found'[u] = found[u]
          /\ Aimed(u)
      BY <1>1, <2>2, ReturnSteps DEF Targets
    <3> QED
      BY <1>2, <1>4, <3>1 DEF Aimed, ByHandle, Carries, Carried, Aims, Routed
  <2> QED
    BY <2>1, <2>2
<1> QED
  BY <1>1, <1>2, <1>3, <1>4, <1>5 DEF Targets

\* The end of every call keeps the invariant.
LEMMA ReturnKept ==
    ASSUME IInv, NEW t \in AllThreads, Return(t)
    PROVE  IInv'
  BY ReturnPlaces, ReturnRegistration, ReturnInvitations, ReturnTargets DEF IInv, Registration

-----------------------------------------------------------------------------
(* The theorems.                                                            *)

\* The invariant holds initially.
LEMMA InitHolds ==
    Init => IInv
<1> SUFFICES ASSUME Init PROVE IInv
  OBVIOUS
<1> USE DEF Init
<1>0. IO \in AllThreads /\ NoThread \notin AllThreads
  BY ThreadsAssumption DEF AllThreads
<1>1. \A t \in AllThreads : Created(t) = 0 /\ Stored(t) = 0 /\ Entered(t) = 0 /\ ~Ahead(t)
  BY NothingAtFirst
<1>2. DOMAIN handles = {1, 2} /\ handles[1] = <<NoThread, 1>> /\ handles[2] = <<NoThread, 2>>
  OBVIOUS
<1>3. Types
  <2>1. << >> \in Seq(Entries) /\ Unknown \in Foundables /\ Nothing \in Nat
    BY DEF Unknown, Nothing, Foundables
  <2>2. <<NoThread, 1>> \in Names /\ <<NoThread, 2>> \in Names
    BY DEF Names
  <2>3. returned \subseteq Givens
    BY <2>2 DEF Givens
  <2>4. role \in {"inviter", "invitee"}
    BY RolesAssumption
  <2>5. DOMAIN pending = {}
    OBVIOUS
  <2>6. /\ found \in [AllThreads -> Foundables]
        /\ mine \in [AllThreads -> Seq(Entries)]
        /\ arg \in [AllThreads -> Nat]
    BY <2>1
  <2>7. DOMAIN handles \subseteq Nat /\ \A h \in DOMAIN handles : handles[h] \in Names
    BY <1>2, <2>2
  <2>8. DOMAIN pending \subseteq Invitations /\ \A i \in DOMAIN pending : pending[i] \in endpoints
    BY <2>5
  <2>9. {joinable, started, joined} \subseteq BOOLEAN
    OBVIOUS
  <2>10. endpoints \subseteq Names
    BY <2>2
  <2> QED
    BY <2>3, <2>4, <2>6, <2>7, <2>8, <2>9, <2>10 DEF Types
<1>4. Places
  BY <1>0 DEF Places, Idle, AllThreads
<1>5. Counter
  BY <1>0 DEF Counter, AtWriteNext, Idle, Tables
<1>6. Fresh
  BY <1>0, <1>1, <1>2 DEF Fresh
<1>7. Progress /\ Distinct
  BY <1>1 DEF Progress, Distinct
<1>8. HandlesUnique
  BY <1>2 DEF HandlesUnique, IsInjective
<1>9. Invited /\ Joins
  <2>1. \A r \in returned : r.endpoint[1] # IO
    BY <1>0
  <2> QED
    BY <1>0, <2>1 DEF Invited, Joins
<1>10. Targets
  <2>1. \A r \in returned : r.peer \in endpoints
    OBVIOUS
  <2>2. \A t \in AllThreads : job[t] = "idle"
    OBVIOUS
  <2> QED
    BY <2>1, <2>2 DEF Targets, Aimed, ByHandle, Carries, Carried, Aims, Routed
<1> QED
  BY <1>3, <1>4, <1>5, <1>6, <1>7, <1>8, <1>9, <1>10 DEF IInv

\* The invariant depends on nothing but the variables.
LEMMA StutterKept ==
    ASSUME IInv, UNCHANGED vars
    PROVE  IInv'
<1>1. UNCHANGED <<role, job, pc, arg, found, mine, registered, made, lock, next, handles,
                  endpoints, channels, pending, callback, joinable, invited, started, joined,
                  returned, begun, accepted, told, queued, announced>>
  BY DEF vars, callVars, localVars, tableVars, outsideVars, historyVars
<1>2. Types' /\ Places' /\ Counter'
  BY <1>1 DEF IInv, Types, Places, Counter, AtWriteNext, Idle
<1>3. \A t \in AllThreads : /\ Created(t)' = Created(t) /\ Stored(t)' = Stored(t)
                            /\ Entered(t)' = Entered(t) /\ (Ahead(t)' <=> Ahead(t))
  BY <1>1, SameCounts
<1>4. Fresh' /\ Progress' /\ Distinct' /\ HandlesUnique'
  BY <1>1, <1>3 DEF IInv, Fresh, Progress, Kept, Distinct, HandlesUnique, IsInjective
<1>5. Invited' /\ Joins'
  BY <1>1 DEF IInv, Invited, Joins
<1>6. Targets'
  BY <1>1 DEF IInv, Targets, Aimed, ByHandle, Carries, Carried, Aims, Routed
<1> QED
  BY <1>2, <1>4, <1>5, <1>6 DEF IInv

\* The invariant holds in every reachable state.
THEOREM Invariance ==
    Spec => []IInv
<1>1. IInv /\ [Next]_vars => IInv'
  <2> SUFFICES ASSUME IInv, [Next]_vars PROVE IInv'
    OBVIOUS
  <2>1. ASSUME NEW t \in Threads, Call(t) PROVE IInv'
    BY <2>1, CallKept
  <2>2. CASE Arrive
    BY <2>2, ArriveKept
  <2>3. ASSUME NEW t \in AllThreads, Access(t) PROVE IInv'
    BY <2>3, AccessKept
  <2>4. ASSUME NEW t \in AllThreads, Return(t) PROVE IInv'
    BY <2>4, ReturnKept
  <2>5. CASE UNCHANGED vars
    BY <2>5, StutterKept
  <2> QED
    BY <2>1, <2>2, <2>3, <2>4, <2>5 DEF Next
<1> QED
  BY InitHolds, <1>1, PTL DEF Spec

\* Where the invariant holds, every lookup finds what it must.
LEMMA ImpliesChecksHold ==
    IInv => ChecksHold
<1> SUFFICES ASSUME IInv, NEW t \in AllThreads, Accessing(t)
    PROVE CASE Step(t) = "insertEndpoint" -> Current(t).endpoint \notin endpoints
            [] Step(t) = "takePending"    -> arg[t] \in DOMAIN pending
            [] Step(t) = "renameChannel"  -> Temporary(arg[t]) \in channels
            [] Step(t) = "renameInitial"  -> Initial \in channels
            [] Step(t) = "report"         -> joinable
            [] OTHER                      -> Finds(t, Step(t))
  BY DEF ChecksHold
<1> USE DEF IInv
<1>0. Busy(t)
  BY DEF Accessing
<1>1. Step(t) = "insertEndpoint" => Current(t).endpoint \notin endpoints
  <2> SUFFICES ASSUME Step(t) = "insertEndpoint" PROVE Current(t).endpoint \notin endpoints
    OBVIOUS
  <2>1. /\ registered[t] + 1 \in 1..Created(t) /\ registered[t] = Entered(t)
        /\ job[t] # "invited" /\ Entered(t) \in Nat
    BY <1>0, AtCurrent, CountsOrdered
  <2>2. Kept(t, registered[t] + 1)
    BY <2>1 DEF Progress
  <2> QED
    BY <2>1, <2>2 DEF Kept, Current
<1>2. Step(t) \in {"takePending", "renameChannel", "findReserved"} =>
          t = IO /\ job[IO] = "accept" /\ arg[IO] \in invited
  <2>1. Step(t) \in {"takePending", "renameChannel", "findReserved"} => job[t] = "accept"
    BY <1>0, Where
  <2> QED
    BY <2>1, IOAccepts DEF Invited
<1>3. Step(t) = "takePending" => arg[t] \in DOMAIN pending
  BY <1>0, <1>2, Where DEF Invited
<1>4. Step(t) = "renameChannel" => Temporary(arg[t]) \in channels
  BY <1>0, <1>2, Where DEF Invited
<1>5. Step(t) = "renameInitial" => Initial \in channels
  BY <1>0, IOAccepts, Where DEF Joins
<1>6. Step(t) = "report" => joinable
  BY <1>0, IOAccepts, Where DEF Joins
<1>7. Step(t) = "checkHandle" => Current(t).handle \notin DOMAIN handles
  <2> SUFFICES ASSUME Step(t) = "checkHandle" PROVE Current(t).handle \notin DOMAIN handles
    OBVIOUS
  <2>1. /\ registered[t] + 1 \in 1..Created(t) /\ registered[t] = Stored(t)
        /\ Stored(t) \in Nat
    BY <1>0, AtCurrent, CountsOrdered
  <2>2. Kept(t, registered[t] + 1)
    BY <2>1 DEF Progress
  <2> QED
    BY <2>1, <2>2 DEF Kept, Current
<1>8. Step(t) \in {"confirmEndpoints", "confirmHandles"} =>
          \A r \in ToSet(mine[t]) : r.endpoint \in endpoints /\ r.handle \in DOMAIN handles
  <2> SUFFICES ASSUME Step(t) \in {"confirmEndpoints", "confirmHandles"}, NEW r \in ToSet(mine[t])
      PROVE  r.endpoint \in endpoints /\ r.handle \in DOMAIN handles
    OBVIOUS
  <2>1. Created(t) = 2 /\ Stored(t) = 2 /\ Entered(t) = 2
    <3>1. \/ job[t] = "create" /\ pc[t] \in 11..12
          \/ job[t] = "invite" /\ pc[t] = 12
      BY <1>0, Where
    <3> QED
      BY <3>1 DEF Created, Stored, Entered, Past
  <2>2. mine[t] \in Seq(Entries) /\ Len(mine[t]) = 2
    BY <2>1 DEF Types, Progress
  <2>3. PICK i \in 1..2 : r = mine[t][i]
    BY <2>2 DEF ToSet
  <2>4. Kept(t, i)
    BY <2>1 DEF Progress
  <2> QED
    BY <2>1, <2>3, <2>4 DEF Kept
<1>a. Aimed(t) /\ pc[t] \in Nat
  BY DEF Targets, Types
<1>9. Step(t) = "findHandle" => arg[t] \in DOMAIN handles
  <2>1. Step(t) = "findHandle" => ByHandle(t)
    BY <1>0, Where DEF ByHandle
  <2> QED
    BY <1>a, <2>1 DEF Aimed, HandlesUnique
<1>10. Step(t) = "findCarried" => found[t][2] \in DOMAIN handles
  <2>1. Step(t) = "findCarried" => Carries(t)
    BY <1>0, Where DEF Carries
  <2> QED
    BY <1>a, <2>1 DEF Aimed, HandlesUnique
<1>11. Step(t) \in {"findSent", "findDependent", "findReserved", "findTarget"} => found[t] \in endpoints
  <2>1. Step(t) \in {"findSent", "findDependent", "findReserved", "findTarget"} => Carried(t) \/ Aims(t)
    BY <1>0, Where DEF Carried, Aims
  <2> QED
    BY <1>a, <2>1 DEF Aimed
<1>13. Step(t) = "findRecovered" => mine[t][1].endpoint \in endpoints
  <2> SUFFICES ASSUME Step(t) = "findRecovered" PROVE mine[t][1].endpoint \in endpoints
    OBVIOUS
  <2>1. job[t] = "forward" /\ pc[t] = 7
    BY <1>0, Where
  <2>2. Created(t) = 1 /\ Entered(t) = 1
    BY <2>1 DEF Created, Entered, Single
  <2>3. Kept(t, 1)
    BY <2>2 DEF Progress
  <2> QED
    BY <2>2, <2>3 DEF Kept
<1>14. Step(t) = "findPeer" => PeerIsThere(t)
  BY DEF PeerIsThere, Targets
<1>15. Step(t) = "findChannel" => job[t] = "sendHandle" \/ Known \cap channels # {}
  BY <1>0, Where DEF Invited
<1>16. Step(t) = "writeChannel" => Route(arg[t]) \in channels
  <2>1. CASE job[t] = "accept"
    <3>1. t = IO
      BY <2>1, IOAccepts
    <3>2. Step(t) = "writeChannel" => pc[t] = 6
      BY <1>0, <2>1, Where
    <3>3. pc[t] >= 4 => Actual(arg[t]) \in channels /\ arg[t] \in Invitations
      BY <2>1, <3>1 DEF Invited, Types
    <3>4. arg[t] \in Invitations => Route(arg[t]) = Actual(arg[t])
      BY BoundsAssumption DEF Invitations, Route, Nothing
    <3> QED
      BY <1>a, <3>2, <3>3, <3>4
  <2>2. CASE job[t] # "accept"
    <3>1. Step(t) = "writeChannel" => Routed(t)
      BY <1>0, <2>2, Where DEF Routed
    <3> QED
      BY <1>a, <3>1 DEF Aimed
  <2> QED
    BY <2>1, <2>2
<1>17. Step(t) = "recoverExisting" => \E h \in DOMAIN handles : handles[h] = found[t]
  <2>1. Step(t) = "recoverExisting" => Carried(t)
    BY <1>0, Where DEF Carried
  <2> QED
    BY <1>a, <2>1 DEF Aimed
<1>12. Finds(t, Step(t))
  BY <1>7, <1>8, <1>9, <1>10, <1>11, <1>13, <1>14, <1>15, <1>16, <1>17 DEF Finds
<1> QED
  BY <1>1, <1>3, <1>4, <1>5, <1>6, <1>12

\* Where the invariant holds, the tables that are always locked are not raced
\* for, nor is the slot of the invitee's callback; the channels have one writer
\* at a time.
LEMMA ImpliesTablesGuarded ==
    IInv => TablesGuarded
<1> SUFFICES ASSUME IInv, NEW t \in AllThreads, NEW u \in AllThreads
    PROVE /\ \A k \in {"next", "handles", "pending", "joinCallback"} : ~Race(t, u, k)
          /\ Race(t, u, "channels") => Step(u) \notin Writes
  BY DEF TablesGuarded
<1> USE DEF IInv
<1>1. ASSUME NEW k \in {"next", "handles", "pending"}
      PROVE  ~Race(t, u, k)
  <2>1. \A s : Table(s) = k => s \in Locked
    BY DEF Table, Locked
  <2> QED
    BY <2>1 DEF Race
<1>2. ~Race(t, u, "joinCallback")
  <2> SUFFICES ASSUME Race(t, u, "joinCallback") PROVE FALSE
    OBVIOUS
  <2>1. Step(t) = "setJoinCallback" /\ Step(u) \in {"setJoinCallback", "report"}
    <3>1. \A s : Table(s) = "joinCallback" => s \in {"setJoinCallback", "report"}
      BY DEF Table
    <3> QED
      BY <3>1 DEF Race, Writes
  <2>2. job[t] = "join" /\ pc[t] = 1
    BY <2>1, Where DEF Race
  <2>3. job[u] = "join" \/ (job[u] = "invited" /\ u = IO)
    BY <2>1, Where, IOAccepts DEF Race
  <2> QED
    BY <2>2, <2>3 DEF Joins, Race
<1>3. Race(t, u, "channels") => Step(u) \notin Writes
  <2> SUFFICES ASSUME Race(t, u, "channels"), Step(u) \in Writes PROVE FALSE
    OBVIOUS
  <2> DEFINE Writers == {"insertChannel", "writeChannel", "renameChannel", "insertInitial",
                         "renameInitial"}
  <2>1. Step(t) \in Writers /\ Step(u) \in Writers /\ t # u /\ Busy(t) /\ Busy(u)
    <3>1. \A s : Table(s) = "channels" /\ s \in Writes => s \in Writers
      BY DEF Table, Writes
    <3> QED
      BY <3>1 DEF Race
  <2>2. \/ Step(t) \in {"insertInitial", "renameInitial"}
        \/ Step(u) \in {"insertInitial", "renameInitial"}
    BY <2>1 DEF Race, Locked
  <2>3. ASSUME NEW v \in AllThreads, NEW w \in AllThreads, v # w, Busy(v), Busy(w),
               Step(v) \in {"insertInitial", "renameInitial"}, Step(w) \in Writers
        PROVE  FALSE
    <3>1. (job[v] = "join" /\ pc[v] = 2) \/ (v = IO /\ job[IO] = "invited" /\ pc[IO] = 1)
      <4>1. (job[v] = "join" /\ pc[v] = 2) \/ (job[v] = "invited" /\ pc[v] = 1)
        BY <2>3, Where
      <4> QED
        BY <4>1, IOAccepts
    <3>2. role = "invitee"
      BY <3>1 DEF Places, AllThreads
    <3>3. job[w] \in {"send", "sendAway", "forward", "join", "invited"}
      BY <2>3, <3>2, Where DEF Places
    <3>4. CASE job[v] = "join" /\ pc[v] = 2
      <4>1. ~started /\ ~joined
        BY <3>4 DEF Joins
      <4> QED
        BY <2>3, <3>2, <3>3, <3>4, <4>1, IOAccepts DEF Joins
    <3>5. CASE v = IO /\ job[IO] = "invited" /\ pc[IO] = 1
      <4>1. started
        BY <3>5 DEF Joins
      <4>2. job[w] = "join" /\ pc[w] = 2
        BY <2>3, <3>2, <3>3, <3>5, IOAccepts, Where DEF Joins
      <4> QED
        BY <4>1, <4>2 DEF Joins
    <3> QED
      BY <3>1, <3>4, <3>5
  <2> QED
    BY <2>1, <2>2, <2>3
<1> QED
  BY <1>1, <1>2, <1>3

\* The invariant has the types of Core.
LEMMA SameTypes ==
    IInv => TypeOK
<1> SUFFICES ASSUME IInv PROVE TypeOK
  OBVIOUS
<1> USE DEF IInv
<1>1. DOMAIN Path = Jobs
  BY DEF Path, Jobs
<1>2. \A t \in AllThreads : registered[t] <= Len(mine[t])
  <2>1. \A t \in AllThreads : Created(t) \in Nat /\ Entered(t) \in Nat /\ Entered(t) <= Created(t)
    BY CountsOrdered
  <2> QED
    BY <2>1 DEF Progress
<1>3. {accepted, told, invited} \subseteq SUBSET Invitations
  BY DEF Types
<1>4. \A i \in DOMAIN pending : pending[i] \in Names
  BY DEF Types
<1>5. {queued, announced} \subseteq SUBSET Names
  BY DEF Types, Targets
<1> QED
  BY <1>1, <1>2, <1>3, <1>4, <1>5 DEF TypeOK, Types, Places

\* Every variable stays within its type, and every call on its path, for any
\* threads, calls, invitations and messages.
THEOREM CoreTypes == Spec => []TypeOK
  BY Invariance, SameTypes, PTL

\* Every lookup on the paths finds what it must (`Finds` lists them), whatever
\* other threads have done since the call began.  Not among them is the flush's
\* lookup of an endpoint whose message was received here, queued and moved on.
THEOREM LookupsSucceed == Spec => []ChecksHold
  BY Invariance, ImpliesChecksHold, PTL

\* A handle denotes one endpoint for good, and an endpoint has one handle.
THEOREM HandlesStayUnique == Spec => []HandlesUnique
<1>1. IInv => HandlesUnique
  BY DEF IInv
<1> QED
  BY Invariance, <1>1, PTL

\* The tables that are always locked are never raced for, nor is the slot of the
\* invitee's callback; node_channel_map_ never has two writers at once.
THEOREM GuardsSuffice == Spec => []TablesGuarded
  BY Invariance, ImpliesTablesGuarded, PTL
=============================================================================
