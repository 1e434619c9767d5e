-------------------------------- MODULE Core --------------------------------
(***************************************************************************)
(* The tables of one process, `Core`'s and `Node`'s, and the threads that   *)
(* use them, one access at a time.  A call is a path: the sequence of the   *)
(* accesses it makes, in the order of the code.  Most are made under the    *)
(* table's lock, some are not; what other threads do in between is up to    *)
(* them.  Endpoints, channels and messages are those of `Node`, reduced to  *)
(* their names: what matters here is what is found where, and when.         *)
(***************************************************************************)
EXTENDS Naturals, SequencesExt, Functions

CONSTANTS Threads,         \* application threads
          IO,              \* the IO thread
          NoThread,        \* the holder of a free lock
          Roles,           \* does the process invite, or is it invited?
          MaxCalls,        \* bound: calls of the application
          MaxInvitations,  \* bound: invitations sent
          MaxReceived      \* bound: user messages received

ASSUME ThreadsAssumption == IO \notin Threads /\ NoThread \notin Threads \cup {IO}
ASSUME RolesAssumption == Roles \subseteq {"inviter", "invitee"}
ASSUME BoundsAssumption == {MaxCalls, MaxInvitations, MaxReceived} \subseteq Nat

AllThreads == Threads \cup {IO}
Invitations == 1..MaxInvitations
Nothing == 0

Temporary(i) == <<"temporary", i>>
Actual(i) == <<"actual", i>>
Initial == <<"initial", Nothing>>
Inviter == <<"inviter", Nothing>>
Unknown == <<"unknown", Nothing>>
Remote == <<"remote", Nothing>>

\* The channels of processes whose names are known, and their numbers.
Known == {Inviter} \cup {Actual(i) : i \in Invitations}
Route(n) == IF n = Nothing THEN Inviter ELSE Actual(n)

VARIABLES
    role,       \* what the process is in its network
    job,        \* what each thread is doing
    pc,         \* how far it is on the job's path
    arg,        \* the invitation or the handle the job is about, then its channel
    found,      \* what its last lookup found, or the name in its message
    mine,       \* the handles it was given on this job, with their endpoints
    registered, \* how many of those are registered
    made,       \* endpoints each thread has made so far
    lock,       \* the holder of each table's lock
    next,       \* Core::next_available_handle_
    handles,    \* Core::handle_table_
    endpoints,  \* Node::local_endpoints_, by name
    channels,   \* Node::node_channel_map_, by key
    pending,    \* Node::pending_invitations_
    callback,   \* remote_has_accepted_invitation_callback_: whose it is
    joinable,   \* is finished_accepting_invitation_callback_ assigned?
    invited,    \* invitations written to their channels
    started,    \* does the invitee's IO thread watch its channel?
    joined,     \* has the invitee's IO thread begun to handle its invitation?
    returned,   \* the application's handles, with their endpoints and peers
    queued,     \* endpoints in messages that were sent here and are queued here
    announced,  \* endpoints of this process that others may send to
    begun,      \* invitations begun so far
    calls,      \* calls made by the application so far
    received,   \* user messages received so far
    accepted,   \* history: invitations whose acceptance was handled
    told,       \* history: invitations whose callback was posted
    overlapped  \* history: was one begun before the last was reported?

callVars == <<role, begun, calls, received, joined>>
localVars == <<arg, found, mine, registered, made>>
tableVars == <<next, handles, endpoints, channels, pending, callback, joinable>>
outsideVars == <<invited, started, queued, announced>>
historyVars == <<accepted, told, overlapped>>
vars == <<callVars, localVars, tableVars, outsideVars, historyVars,
          job, pc, lock, returned>>
-----------------------------------------------------------------------------
(* The paths.                                                               *)

CreatePath ==
    <<"readNext", "writeNext", "readNext", "writeNext",
      "checkHandle", "insertHandle", "insertEndpoint",
      "checkHandle", "insertHandle", "insertEndpoint",
      "confirmEndpoints", "confirmHandles">>

\* Mutant: the callback is kept once the invitation is out.
InvitePath_CallbackLast ==
    <<"readNext", "writeNext", "readNext", "writeNext",
      "checkHandle", "insertHandle", "insertEndpoint",
      "checkHandle", "insertHandle", "insertEndpoint",
      "confirmEndpoints", "insertChannel", "insertPending", "invite", "setCallback">>

InvitePath ==
    <<"setCallback",
      "readNext", "writeNext", "readNext", "writeNext",
      "checkHandle", "insertHandle", "insertEndpoint",
      "checkHandle", "insertHandle", "insertEndpoint",
      "confirmEndpoints", "insertChannel", "insertPending", "invite">>

\* To a peer on another node; with a handle to one of this node, where it is
\* recovered before the message is dispatched or queued; and with a handle to one on another
\* node.  (Another turn of a flush's loop does what the last two steps do.)
SendPath == <<"findHandle", "findPeer", "findChannel", "writeChannel">>
SendHandlePath ==
    <<"findHandle", "findCarried", "findHandle", "findSent", "findPeer", "findChannel",
      "recoverExisting", "deliver">>
SendAwayPath ==
    <<"findHandle", "findCarried", "findHandle", "findSent", "findPeer", "findChannel",
      "findDependent", "writeChannel">>
BindPath == <<"findHandle">>

\* Mutant: what was queued is flushed before the channel has its name.
AcceptPath_FlushFirst ==
    <<"takePending", "findReserved", "takeQueued", "findDependent", "writeChannel",
      "renameChannel", "testCallback", "moveCallback">>

\* The flush writes what was queued for the invitee, if anything was.
AcceptPath ==
    <<"takePending", "findReserved", "renameChannel", "takeQueued", "findDependent",
      "writeChannel", "testCallback", "moveCallback">>

\* A user message with a handle for an endpoint of this node; and one for a
\* proxy, which is forwarded.
ReceivePath ==
    <<"findTarget", "readNext", "writeNext", "checkHandle", "insertHandle", "insertEndpoint">>
ForwardPath ==
    <<"findTarget", "readNext", "writeNext", "checkHandle", "insertHandle", "insertEndpoint",
      "findRecovered", "writeChannel">>

JoinPath == <<"setJoinCallback", "insertInitial", "start">>

InvitedPath ==
    <<"renameInitial", "insertInvited", "accept", "readNext", "writeNext",
      "insertHandle", "report">>

Path == [create |-> CreatePath, invite |-> InvitePath, send |-> SendPath,
         sendHandle |-> SendHandlePath, sendAway |-> SendAwayPath, bind |-> BindPath,
         join |-> JoinPath,
         accept |-> AcceptPath, receive |-> ReceivePath, forward |-> ForwardPath,
         invited |-> InvitedPath]

(* What a step accesses, and how.                                           *)

Tables == {"next", "handles", "endpoints", "channels", "pending", "callback", "joinCallback"}

Table(step) ==
    CASE step \in {"readNext", "writeNext"} -> "next"
      [] step \in {"checkHandle", "insertHandle", "confirmHandles", "findHandle",
                   "findCarried", "recoverExisting"} -> "handles"
      [] step \in {"insertEndpoint", "confirmEndpoints", "findPeer", "findSent",
                   "findDependent", "findReserved", "findTarget", "findRecovered",
                   "insertInvited"} -> "endpoints"
      [] step \in {"insertChannel", "findChannel", "writeChannel", "renameChannel",
                   "insertInitial", "renameInitial", "accept"} -> "channels"
      [] step \in {"insertPending", "takePending"} -> "pending"
      [] step \in {"setCallback", "testCallback", "moveCallback"} -> "callback"
      [] step \in {"setJoinCallback", "report"} -> "joinCallback"
      [] OTHER -> "none"

Writes == {"writeNext", "insertHandle", "insertEndpoint", "insertInvited", "insertChannel",
           "writeChannel", "renameChannel", "insertInitial", "renameInitial",
           "insertPending", "takePending", "setCallback", "moveCallback", "setJoinCallback"}

\* Mutant: GetNextMessagePipe does not lock the counter.
Locked_NotCounter ==
    {"checkHandle", "insertHandle", "confirmHandles", "findHandle", "findCarried",
     "recoverExisting", "insertEndpoint", "confirmEndpoints", "insertChannel",
     "writeChannel", "renameChannel", "insertPending", "takePending"}

\* Mutant: SendInvitationAndGetMessagePipe does not lock the channel map.
Locked_NotInsertChannel ==
    {"readNext", "writeNext", "checkHandle", "insertHandle", "confirmHandles",
     "findHandle", "findCarried", "recoverExisting", "insertEndpoint",
     "confirmEndpoints", "writeChannel", "renameChannel", "insertPending", "takePending"}

\* The steps made under the table's lock.
Locked ==
    {"readNext", "writeNext", "checkHandle", "insertHandle", "confirmHandles",
     "findHandle", "findCarried", "recoverExisting", "insertEndpoint",
     "confirmEndpoints", "insertChannel", "writeChannel", "renameChannel",
     "insertPending", "takePending"}
-----------------------------------------------------------------------------
\* The application has made one pipe when this begins.
Init ==
    /\ role \in Roles
    /\ job = [t \in AllThreads |-> "idle"]
    /\ pc = [t \in AllThreads |-> 1]
    /\ arg = [t \in AllThreads |-> Nothing]
    /\ found = [t \in AllThreads |-> Unknown]
    /\ mine = [t \in AllThreads |-> << >>]
    /\ registered = [t \in AllThreads |-> 0]
    /\ made = [t \in AllThreads |-> 0]
    /\ lock = [k \in Tables |-> NoThread]
    /\ next = 3
    /\ handles = [h \in {1, 2} |-> <<NoThread, h>>]
    /\ endpoints = {<<NoThread, 1>>, <<NoThread, 2>>}
    /\ channels = {}
    /\ pending = << >> /\ callback = Nothing /\ joinable = FALSE
    /\ invited = {} /\ started = FALSE /\ joined = FALSE
    /\ returned = {[handle |-> h, endpoint |-> <<NoThread, h>>, peer |-> <<NoThread, 3 - h>>] :
                      h \in {1, 2}}
    /\ queued = {} /\ announced = {}
    /\ begun = 0 /\ calls = 0 /\ received = 0
    /\ accepted = {} /\ told = {} /\ overlapped = FALSE

Idle(t) == job[t] = "idle"
Busy(t) == ~Idle(t) /\ pc[t] <= Len(Path[job[t]])
Step(t) == Path[job[t]][pc[t]]
Waits(t) == Step(t) \in Locked /\ lock[Table(Step(t))] \notin {NoThread, t}
Accessing(t) == Busy(t) /\ ~Waits(t)
-----------------------------------------------------------------------------
(* Calls begin, take locks, go on and return.                               *)

Begin(t, j, a, f) ==
    /\ Idle(t)
    /\ job' = [job EXCEPT ![t] = j]
    /\ arg' = [arg EXCEPT ![t] = a]
    /\ found' = [found EXCEPT ![t] = f]
    /\ UNCHANGED <<role, mine, registered, made, tableVars, outsideVars, historyVars,
                   pc, lock, returned>>

\* The application can send to another process.
Connected == IF role = "inviter" THEN Known \cap channels # {}
                                 ELSE \E r \in returned : r.endpoint[1] = IO

\* The application sends by the handle of r: a message, or one with a handle
\* other than that.
Send(t, r) ==
    \/ Connected /\ Begin(t, "send", r.handle, Unknown)
    \/ \E s \in returned \ {r} :
          \/ r.peer # Remote /\ Begin(t, "sendHandle", r.handle, <<"handle", s.handle>>)
          \/ Connected /\ Begin(t, "sendAway", r.handle, <<"handle", s.handle>>)

\* A call of the application.  A process invites or is invited, not both
\* (node.cc:152-157), and is invited once.
Call(t) ==
    /\ calls < MaxCalls
    /\ calls' = calls + 1
    /\ UNCHANGED <<received, joined>>
    /\ \/ Begin(t, "create", Nothing, Unknown) /\ UNCHANGED begun
       \/ /\ role = "inviter" /\ begun < MaxInvitations
          /\ Begin(t, "invite", begun + 1, Unknown)
          /\ begun' = begun + 1
       \/ /\ role = "invitee" /\ begun = 0
          /\ Begin(t, "join", Nothing, Unknown)
          /\ begun' = 1
       \/ \E r \in returned :
             /\ Begin(t, "bind", r.handle, Unknown) \/ Send(t, r)
             /\ UNCHANGED begun

\* The IO thread reads a message: an acceptance, the invitation or, once the
\* process is connected, a user message for an endpoint that others know of, to
\* be taken in or, if that is a proxy, to be written to the channel it leads to.
Arrive ==
    /\ UNCHANGED <<begun, calls>>
    /\ \/ /\ \E i \in invited \ accepted : Begin(IO, "accept", i, Unknown)
          /\ UNCHANGED <<received, joined>>
       \/ /\ started /\ ~joined
          /\ Begin(IO, "invited", Nothing, Unknown)
          /\ joined' = TRUE
          /\ UNCHANGED received
       \/ /\ accepted # {} \/ joined
          /\ received < MaxReceived
          /\ received' = received + 1
          /\ \E e \in announced :
                \/ Begin(IO, "receive", Nothing, e)
                \/ \E c \in Known \cap channels : Begin(IO, "forward", c[2], e)
          /\ UNCHANGED joined

\* Mutant: the early return of RecoverExisting... forgets to unlock.
KeepsLock_Recover == {"readNext", "recoverExisting"}

\* The steps that are followed by another one under the same lock.
KeepsLock == {"readNext"}

\* What the application gets: of an invitation's pipe the first handle only.
\* (The handle in a message or of an invitation is handed over by a task.)
With(r, peer) == [handle |-> r.handle, endpoint |-> r.endpoint, peer |-> peer]
Given(t) ==
    CASE job[t] = "create" -> {With(mine[t][1], mine[t][2].endpoint),
                               With(mine[t][2], mine[t][1].endpoint)}
      [] job[t] = "invite" -> {With(mine[t][1], mine[t][2].endpoint)}
      [] job[t] \in {"receive", "invited"} -> {With(mine[t][1], Remote)}
      [] OTHER -> {}

\* A step is done, under its lock if it takes one, which it keeps or frees; the
\* call is at the place `to`.
Done(t, to) ==
    /\ pc' = [pc EXCEPT ![t] = to]
    /\ lock' = IF Step(t) \in Locked
               THEN [lock EXCEPT ![Table(Step(t))] = IF Step(t) \in KeepsLock THEN t ELSE NoThread]
               ELSE lock
    /\ UNCHANGED <<callVars, job, returned>>

Do(t, step) == Accessing(t) /\ Step(t) = step /\ Done(t, pc[t] + 1)

\* The call returns.  Once a message is handled, the next one may be for the
\* endpoint it brought.
Return(t) ==
    /\ job[t] # "idle" /\ pc[t] > Len(Path[job[t]])
    /\ returned' = returned \cup Given(t)
    /\ announced' = IF job[t] \in {"receive", "forward"}
                    THEN announced \cup {mine[t][1].endpoint} ELSE announced
    /\ job' = [job EXCEPT ![t] = "idle"]
    /\ pc' = [pc EXCEPT ![t] = 1]
    /\ arg' = [arg EXCEPT ![t] = Nothing]
    /\ found' = [found EXCEPT ![t] = Unknown]
    /\ mine' = [mine EXCEPT ![t] = << >>]
    /\ registered' = [registered EXCEPT ![t] = 0]
    /\ UNCHANGED <<callVars, made, tableVars, invited, started, queued, historyVars, lock>>
-----------------------------------------------------------------------------
(* Handles and endpoints: core.cc:186-255, node.cc:35-71.                   *)

\* The handle and the endpoint that are being registered.
Current(t) == mine[t][registered[t] + 1]
NewEndpoint(t) == <<t, made[t] + 1>>

ReadNext(t) ==
    /\ Do(t, "readNext")
    /\ found' = [found EXCEPT ![t] = <<"handle", next>>]
    /\ UNCHANGED <<arg, mine, registered, made, tableVars, outsideVars, historyVars>>

WriteNext(t) ==
    /\ Do(t, "writeNext")
    /\ next' = found[t][2] + 1
    /\ mine' = [mine EXCEPT ![t] = Append(@, [handle |-> found[t][2], endpoint |-> NewEndpoint(t)])]
    /\ made' = [made EXCEPT ![t] = @ + 1]
    /\ UNCHANGED <<arg, found, registered, handles, endpoints, channels, pending, callback, joinable,
                   outsideVars, historyVars>>

\* std::map::insert, which leaves an entry that is there as it is.
Inserted(map, key, value) ==
    IF key \in DOMAIN map THEN map
    ELSE [k \in DOMAIN map \cup {key} |-> IF k = key THEN value ELSE map[k]]

InsertHandle(t) ==
    /\ Do(t, "insertHandle")
    /\ handles' = Inserted(handles, Current(t).handle, Current(t).endpoint)
    /\ UNCHANGED <<localVars, next, endpoints, channels, pending, callback, joinable,
                   outsideVars, historyVars>>

InsertEndpoint(t) ==
    /\ Do(t, "insertEndpoint")
    /\ Current(t).endpoint \notin endpoints
    /\ endpoints' = endpoints \cup {Current(t).endpoint}
    /\ registered' = [registered EXCEPT ![t] = @ + 1]
    /\ UNCHANGED <<arg, found, mine, made, next, handles, channels, pending, callback, joinable,
                   outsideVars, historyVars>>

\* The handle a job is about has a peer that is local and in the map, or is not.
PeerIsThere(t) == \A r \in returned :
    r.handle = arg[t] => r.peer = Remote \/ r.peer \in endpoints

\* What a lookup must find, or the process aborts or uses what is not there:
\* core.cc:43-46, 72, 84, 98, 139, 176, 243, node.cc:66-67, 195-197, 211-216, 387,
\* 501-502, 541, 563-564, 608, 641-642.
Finds(t, step) ==
    CASE step = "checkHandle"      -> Current(t).handle \notin DOMAIN handles
      [] step = "confirmEndpoints" -> \A r \in ToSet(mine[t]) : r.endpoint \in endpoints
      [] step = "confirmHandles"   -> \A r \in ToSet(mine[t]) : r.handle \in DOMAIN handles
      [] step = "findHandle"       -> arg[t] \in DOMAIN handles
      [] step = "findCarried"      -> found[t][2] \in DOMAIN handles
      [] step \in {"findSent", "findDependent", "findReserved", "findTarget"}
                                   -> found[t] \in endpoints
      [] step = "findRecovered"    -> mine[t][1].endpoint \in endpoints
      [] step = "findPeer"         -> PeerIsThere(t)
      [] step = "findChannel"      -> job[t] = "sendHandle" \/ Known \cap channels # {}
      [] step = "writeChannel"     -> Route(arg[t]) \in channels
      [] step = "recoverExisting"  -> \E h \in DOMAIN handles : handles[h] = found[t]
      [] OTHER                     -> TRUE

Lookups == {"checkHandle", "confirmEndpoints", "confirmHandles", "findHandle", "findSent",
            "findPeer", "findDependent", "findTarget", "findReserved", "findRecovered",
            "recoverExisting"}

Look(t) ==
    /\ \E step \in Lookups : Do(t, step) /\ Finds(t, step)
    /\ UNCHANGED <<localVars, tableVars, outsideVars, historyVars>>

\* Core::PopulateEndpointDescriptor: the name of the endpoint that is sent.
FindCarried(t) ==
    /\ Do(t, "findCarried")
    /\ Finds(t, "findCarried")
    /\ found' = [found EXCEPT ![t] = handles[found[t][2]]]
    /\ UNCHANGED <<arg, mine, registered, made, tableVars, outsideVars, historyVars>>

\* The channel to the peer's node, or to the one the peer is a proxy for.
FindChannel(t) ==
    /\ Do(t, "findChannel")
    /\ Finds(t, "findChannel")
    /\ IF job[t] = "sendHandle" THEN UNCHANGED arg
       ELSE \E c \in Known \cap channels : arg' = [arg EXCEPT ![t] = c[2]]
    /\ UNCHANGED <<found, mine, registered, made, tableVars, outsideVars, historyVars>>

\* The message is dispatched to a receiver here, or queued until there is one.
Deliver(t) ==
    /\ Do(t, "deliver")
    /\ UNCHANGED queued \/ queued' = queued \cup {found[t]}
    /\ UNCHANGED <<localVars, tableVars, invited, started, announced, historyVars>>

\* The flush takes a queued message, with an endpoint or without, if there is one.
TakeQueued(t) ==
    /\ Accessing(t) /\ Step(t) = "takeQueued"
    /\ \/ /\ Done(t, pc[t] + 1)
          /\ \E e \in queued : found' = [found EXCEPT ![t] = e]
       \/ Done(t, pc[t] + 2) /\ UNCHANGED found
       \/ Done(t, pc[t] + 3) /\ UNCHANGED found
    /\ UNCHANGED <<arg, mine, registered, made, tableVars, outsideVars, historyVars>>

\* `node_channel_map_[name]->SendMessage` in a flush or a forward.  A descriptor
\* tells the other process the peer of the endpoint that is sent.
WriteChannel(t) ==
    /\ Do(t, "writeChannel")
    /\ Finds(t, "writeChannel")
    /\ announced' = IF job[t] = "sendAway"
                    THEN announced \cup ({r.peer : r \in {s \in returned : s.endpoint = found[t]}}
                                           \ {Remote})
                    ELSE announced
    /\ UNCHANGED <<localVars, tableVars, invited, started, queued, historyVars>>
-----------------------------------------------------------------------------
(* Inviting: core.cc:51-56, 218-223, node.cc:110-144, 371-415.              *)

SetCallback(t) ==
    /\ Do(t, "setCallback")
    /\ callback' = arg[t]
    /\ overlapped' = (overlapped \/ told # 1..(arg[t] - 1))
    /\ UNCHANGED <<localVars, next, handles, endpoints, channels, pending, joinable,
                   outsideVars, accepted, told>>

InsertChannel(t) ==
    /\ Do(t, "insertChannel")
    /\ channels' = channels \cup {Temporary(arg[t])}
    /\ UNCHANGED <<localVars, next, handles, endpoints, pending, callback, joinable,
                   outsideVars, historyVars>>

InsertPending(t) ==
    /\ Do(t, "insertPending")
    /\ pending' = Inserted(pending, arg[t], mine[t][2].endpoint)
    /\ UNCHANGED <<localVars, next, handles, endpoints, channels, callback, joinable,
                   outsideVars, historyVars>>

\* Channel::Start and SendInvitation: from here on the acceptance may come, and
\* the invitee knows the name of its endpoint's peer.
SendInvitation(t) ==
    /\ Do(t, "invite")
    /\ invited' = invited \cup {arg[t]}
    /\ announced' = announced \cup {mine[t][1].endpoint}
    /\ UNCHANGED <<localVars, tableVars, started, queued, historyVars>>

TakePending(t) ==
    /\ Do(t, "takePending")
    /\ arg[t] \in DOMAIN pending
    /\ found' = [found EXCEPT ![t] = pending[arg[t]]]
    /\ pending' = Restrict(pending, DOMAIN pending \ {arg[t]})
    /\ accepted' = accepted \cup {arg[t]}
    /\ UNCHANGED <<arg, mine, registered, made, next, handles, endpoints, channels, callback, joinable,
                   outsideVars, told, overlapped>>

RenameChannel(t) ==
    /\ Do(t, "renameChannel")
    /\ Temporary(arg[t]) \in channels
    /\ channels' = (channels \ {Temporary(arg[t])}) \cup {Actual(arg[t])}
    /\ UNCHANGED <<localVars, next, handles, endpoints, pending, callback, joinable,
                   outsideVars, historyVars>>

\* Mutant: the callback is posted without a test.
TestCallback_Not(t) ==
    /\ Accessing(t) /\ Step(t) = "testCallback"
    /\ Done(t, pc[t] + 1)
    /\ UNCHANGED <<localVars, tableVars, outsideVars, historyVars>>

\* Core::OnReceivedAcceptInvitation: nothing is reported without a callback.
TestCallback(t) ==
    /\ Accessing(t) /\ Step(t) = "testCallback"
    /\ Done(t, IF callback = Nothing THEN pc[t] + 2 ELSE pc[t] + 1)
    /\ UNCHANGED <<localVars, tableVars, outsideVars, historyVars>>

\* The callback is moved into a task: the acceptance it was given for is
\* reported.
MoveCallback(t) ==
    /\ Do(t, "moveCallback")
    /\ told' = told \cup {callback}
    /\ callback' = Nothing
    /\ UNCHANGED <<localVars, next, handles, endpoints, channels, pending, joinable,
                   outsideVars, accepted, overlapped>>
-----------------------------------------------------------------------------
(* Being invited: core.cc:58-64, 225-233, node.cc:147-179, 316-353.         *)

SetJoinCallback(t) ==
    /\ Do(t, "setJoinCallback")
    /\ joinable' = TRUE
    /\ UNCHANGED <<localVars, next, handles, endpoints, channels, pending, callback,
                   outsideVars, historyVars>>

InsertInitial(t) ==
    /\ Do(t, "insertInitial")
    /\ channels' = channels \cup {Initial}
    /\ UNCHANGED <<localVars, next, handles, endpoints, pending, callback, joinable,
                   outsideVars, historyVars>>

StartChannel(t) ==
    /\ Do(t, "start")
    /\ started' = TRUE
    /\ UNCHANGED <<localVars, tableVars, invited, queued, announced, historyVars>>

RenameInitial(t) ==
    /\ Do(t, "renameInitial")
    /\ Initial \in channels
    /\ channels' = (channels \ {Initial}) \cup {Inviter}
    /\ UNCHANGED <<localVars, next, handles, endpoints, pending, callback, joinable,
                   outsideVars, historyVars>>

\* The invitee's endpoint is in the map before it has a handle.
InsertInvited(t) ==
    /\ Do(t, "insertInvited")
    /\ endpoints' = endpoints \cup {NewEndpoint(t)}
    /\ UNCHANGED <<localVars, next, handles, channels, pending, callback, joinable,
                   outsideVars, historyVars>>

\* SendAcceptInvitation tells the inviter the name of the invitee's endpoint.
SendAcceptance(t) ==
    /\ Do(t, "accept")
    /\ announced' = announced \cup {NewEndpoint(t)}
    /\ UNCHANGED <<localVars, tableVars, invited, started, queued, historyVars>>

Report(t) ==
    /\ Do(t, "report")
    /\ joinable
    /\ UNCHANGED <<localVars, tableVars, outsideVars, historyVars>>
-----------------------------------------------------------------------------
Inviting(t) == \/ SetCallback(t) \/ InsertChannel(t) \/ InsertPending(t) \/ SendInvitation(t)
               \/ TakePending(t) \/ RenameChannel(t) \/ TestCallback(t) \/ MoveCallback(t)

BeingInvited(t) == \/ SetJoinCallback(t) \/ InsertInitial(t) \/ StartChannel(t)
                   \/ RenameInitial(t) \/ InsertInvited(t) \/ SendAcceptance(t) \/ Report(t)

Access(t) ==
    /\ Accessing(t)
    /\ \/ ReadNext(t) \/ WriteNext(t) \/ InsertHandle(t) \/ InsertEndpoint(t)
       \/ Look(t) \/ FindCarried(t) \/ FindChannel(t) \/ Deliver(t) \/ TakeQueued(t)
       \/ WriteChannel(t) \/ Inviting(t) \/ BeingInvited(t)

Next ==
    \/ \E t \in Threads : Call(t)
    \/ Arrive
    \/ \E t \in AllThreads : Access(t) \/ Return(t)

(* A thread in a call goes on; a lock it waits for is freed (nothing holds    *)
(* one for longer than its critical section); the IO thread reads what has  *)
(* arrived.                                                                 *)
Fairness ==
    /\ WF_vars(Arrive)
    /\ \A t \in AllThreads : WF_vars(Access(t) \/ Return(t))

Spec == Init /\ [][Next]_vars
FairSpec == Spec /\ Fairness
-----------------------------------------------------------------------------
Steps == UNION {ToSet(Path[j]) : j \in DOMAIN Path}
Names == (AllThreads \cup {NoThread}) \X Nat

\* Every variable stays within its type, and every call on its path.
TypeOK ==
    /\ role \in Roles
    /\ job \in [AllThreads -> DOMAIN Path \cup {"idle"}]
    /\ \A t \in AllThreads : ~Idle(t) => pc[t] \in 1..(Len(Path[job[t]]) + 1)
    /\ lock \in [Tables -> AllThreads \cup {NoThread}]
    /\ next \in Nat
    /\ DOMAIN handles \subseteq Nat /\ \A h \in DOMAIN handles : handles[h] \in Names
    /\ endpoints \subseteq Names
    /\ DOMAIN pending \subseteq Invitations
    /\ \A i \in DOMAIN pending : pending[i] \in Names
    /\ callback \in Invitations \cup {Nothing}
    /\ {accepted, told, invited} \subseteq SUBSET Invitations
    /\ {queued, announced} \subseteq SUBSET Names
    /\ \A t \in AllThreads : registered[t] <= Len(mine[t])

\* Every lookup on the paths finds what it must, whatever other threads have
\* done since the call began: handles are fresh when they are registered and there
\* when they are used, an acceptance finds its invitation, its endpoint and its
\* channel, an invitation the initial channel and the callback, and a message the
\* channel it is written to and the endpoints it is for and about (the CHECKs of
\* core.cc:43-46, 72, 84, 182, 230, 243, node.cc:39, 66-67, 326, 379, 387, 411,
\* 502, 564, 642, the uses without one of core.cc:98, 139, node.cc:196, 541, 609,
\* and that node.cc:211-216 finds one of the two; that it never finds both is
\* PeerIsLocalOrRemote of NodeProperties).  `queued` has the endpoints in messages that were sent here.  One in a
\* message that was received here, queued and moved on is sought by a name this
\* process does not have: that node.cc:502 can fail so is shown in NodeReforward.
ChecksHold ==
    \A t \in AllThreads :
        Accessing(t) =>
            CASE Step(t) = "insertEndpoint" -> Current(t).endpoint \notin endpoints
              [] Step(t) = "takePending"    -> arg[t] \in DOMAIN pending
              [] Step(t) = "renameChannel"  -> Temporary(arg[t]) \in channels
              [] Step(t) = "renameInitial"  -> Initial \in channels
              [] Step(t) = "report"         -> joinable
              [] OTHER                      -> Finds(t, Step(t))

\* A handle denotes one endpoint for good, the one it was returned with, and
\* an endpoint has one handle, so that what is recovered from a descriptor is
\* the handle that was sent (core.cc:173-180).
HandlesUnique ==
    /\ IsInjective(handles)
    /\ \A r \in returned :
          /\ r.handle \in DOMAIN handles /\ handles[r.handle] = r.endpoint
          /\ r.endpoint \in endpoints

\* t and u are about to access the same table, t writes it, and no lock keeps
\* them apart.
Race(t, u, k) ==
    /\ t # u
    /\ Busy(t) /\ Busy(u)
    /\ Table(Step(t)) = k /\ Table(Step(u)) = k
    /\ Step(t) \in Writes
    /\ ~({Step(t), Step(u)} \subseteq Locked)

\* The tables with a lock of their own that is always taken are never accessed
\* by two threads at once when one of them writes.  Nor is the slot of the
\* invitee's callback, nor is node_channel_map_ by two writers: the invitee
\* writes it without the lock, but before it starts the channel and then on
\* the IO thread only (the comments of node.cc:152-157 and 319-324).
TablesGuarded ==
    \A t, u \in AllThreads :
        /\ \A k \in {"next", "handles", "pending", "joinCallback"} : ~Race(t, u, k)
        /\ Race(t, u, "channels") => Step(u) \notin Writes

\* "This is used to synchronized access to `local_endpoints_` above, since it
\* can be accessed from multiple threads" (node.h:85-86).
EndpointsGuarded ==
    \A t, u \in AllThreads : ~Race(t, u, "endpoints")

\* The callback of an invitation reports that "the remote process has accepted
\* the invitation" (core.h:105-106).
ReportedMeansAccepted == told \subseteq accepted

\* Every call returns: nobody waits for a lock that is never freed, the one
\* freed on an early return included (core.cc:177).  (The calls are bounded: at
\* rest again and again means that each of them returned.)
CallsReturn == []<>(\A t \in AllThreads : Idle(t))

\* Accepted invitations are reported, if no two were under way at once.
AcceptanceReported == (accepted # {}) ~> (accepted \subseteq told \/ overlapped)
=============================================================================
