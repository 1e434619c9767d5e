------------------------------ MODULE Endpoint ------------------------------
(***************************************************************************)
(* One `Endpoint` and the threads that use it, at the grain of its lock:    *)
(* between `Lock()` and `Unlock()` every step of endpoint.cc is an action,  *)
(* so each interleaving the lock allows (or would allow, were it taken      *)
(* later) is a behaviour.                                                   *)
(*                                                                          *)
(* Senders deliver messages to the endpoint: the IO thread, and application *)
(* threads whose handle is the endpoint's local peer.  The Owner is the     *)
(* thread that does the one thing an endpoint lives for: bind a receiver    *)
(* ("bind", `Endpoint::RegisterDelegate`), move the endpoint to another     *)
(* node inside a message ("send", one turn of the loop of                   *)
(* `Node::SendMessagesAndRecursiveDependents`), or hand an invitation's     *)
(* reserved endpoint to the invitee ("invite",                              *)
(* `Node::OnReceivedAcceptInvitation`).                                     *)
(***************************************************************************)
EXTENDS Naturals, Sequences, FiniteSets

CONSTANTS Senders,      \* threads that deliver messages to the endpoint
          Owner,        \* the thread that binds or moves it
          NoThread,     \* the holder of a free lock
          Plans,        \* what the Owner may do with the endpoint
          MaxMessages   \* bound: messages delivered to the endpoint

ASSUME ThreadsAssumption == Owner \notin Senders /\ NoThread \notin Senders \cup {Owner}
ASSUME PlansAssumption == Plans \subseteq {"bind", "send", "invite"}
ASSUME BoundAssumption == MaxMessages \in Nat

Threads == Senders \cup {Owner}

\* The message that carries the endpoint's descriptor to its new node.
Introduction == 0

VARIABLES
    lock,       \* Endpoint::lock_: the thread that holds it, or NoThread
    state,      \* Endpoint::state
    delegate,   \* is Endpoint::delegate_ assigned?
    runner,     \* is Endpoint::delegate_task_runner_ assigned?
    queue,      \* Endpoint::incoming_message_queue_
    pc,         \* where each thread is
    hand,       \* the message each sender is delivering
    taken,      \* the messages the Owner took and has yet to write
    tasks,      \* messages posted to the delegate's task runner
    alive,      \* does the delegate still exist?
    wire,       \* written to the channel, for the endpoint on the new node
    plan,       \* what the Owner does with this endpoint
    accepted,   \* history: the messages, in the order senders got the lock
    delivered,  \* history: messages handed to the live delegate
    dropped     \* history: messages whose delegate was dead

vars == <<lock, state, delegate, runner, queue, pc, hand, taken, tasks, alive,
          wire, plan, accepted, delivered, dropped>>
endpointVars == <<state, delegate, runner, queue>>
ownerVars == <<taken, plan>>
delegateVars == <<alive, delivered, dropped>>

Init ==
    /\ lock = NoThread
    /\ state = "queueing"
    /\ delegate = FALSE
    /\ runner = FALSE
    /\ queue = << >>
    /\ pc = [t \in Threads |-> "idle"]
    /\ hand = [t \in Senders |-> Introduction]
    /\ taken = << >>
    /\ tasks = << >>
    /\ alive = TRUE
    /\ wire = << >>
    /\ plan \in Plans
    /\ accepted = << >>
    /\ delivered = << >>
    /\ dropped = << >>

Goto(t, from, to) == pc[t] = from /\ pc' = [pc EXCEPT ![t] = to]

Acquire(t) == lock = NoThread /\ lock' = t
Release(t) == lock = t /\ lock' = NoThread
-----------------------------------------------------------------------------
(* A sender: OnReceivedUserMessage and the local-peer half of SendMessage.  *)

SenderLock(t) ==
    /\ Len(accepted) < MaxMessages
    /\ Goto(t, "idle", "locked")
    /\ Acquire(t)
    /\ hand' = [hand EXCEPT ![t] = Len(accepted) + 1]
    /\ accepted' = Append(accepted, Len(accepted) + 1)
    /\ UNCHANGED <<endpointVars, ownerVars, delegateVars, tasks, wire>>

\* The `switch (state)` that decides what happens to the message.
ActionFor(s) ==
    CASE s = "queueing" -> "queue"
      [] s = "bound"    -> "post"
      [] s = "proxying" -> "forward"

Observe(t) ==
    /\ Goto(t, "locked", ActionFor(state))
    /\ UNCHANGED <<lock, endpointVars, hand, ownerVars, delegateVars, tasks,
                   wire, accepted>>

\* AcceptMessage, case kUnboundAndQueueing.
Enqueue(t) ==
    /\ Goto(t, "queue", "unlock")
    /\ ~delegate
    /\ queue' = Append(queue, hand[t])
    /\ UNCHANGED <<lock, state, delegate, runner, hand, ownerVars,
                   delegateVars, tasks, wire, accepted>>

\* AcceptMessage, case kBound: PostMessageToDelegate.
Post(t) ==
    /\ Goto(t, "post", "unlock")
    /\ delegate /\ runner
    /\ tasks' = Append(tasks, hand[t])
    /\ UNCHANGED <<lock, endpointVars, hand, ownerVars, delegateVars, wire,
                   accepted>>

\* Mutant: the proxying case returns, as the one for a remote peer does
\* (node.cc:231), and leaves out the Unlock() at the end.
Forward_Return(t) ==
    /\ Goto(t, "forward", "idle")
    /\ wire' = Append(wire, hand[t])
    /\ UNCHANGED <<lock, endpointVars, hand, ownerVars, delegateVars, tasks,
                   accepted>>

\* Case kUnboundAndProxying of the callers, under the same lock.
Forward(t) ==
    /\ Goto(t, "forward", "unlock")
    /\ wire' = Append(wire, hand[t])
    /\ UNCHANGED <<lock, endpointVars, hand, ownerVars, delegateVars, tasks,
                   accepted>>

SenderUnlock(t) ==
    /\ Goto(t, "unlock", "idle")
    /\ Release(t)
    /\ UNCHANGED <<endpointVars, hand, ownerVars, delegateVars, tasks, wire,
                   accepted>>

Sender(t) == \/ SenderLock(t) \/ Observe(t) \/ Enqueue(t) \/ Post(t)
             \/ Forward(t) \/ SenderUnlock(t)
-----------------------------------------------------------------------------
(* The Owner takes the lock, then follows its plan.                         *)

\* Mutant: RegisterDelegate and the movers forget `Lock()`.
OwnerLock_NoLock ==
    /\ \/ plan = "bind" /\ Goto(Owner, "idle", "bind")
       \/ plan = "send" /\ Goto(Owner, "idle", "take")
       \/ plan = "invite" /\ Goto(Owner, "idle", "proxy")
    /\ UNCHANGED <<lock, endpointVars, hand, ownerVars, delegateVars, tasks,
                   wire, accepted>>

OwnerLock ==
    /\ \/ plan = "bind" /\ Goto(Owner, "idle", "bind")
       \/ plan = "send" /\ Goto(Owner, "idle", "take")
       \/ plan = "invite" /\ Goto(Owner, "idle", "proxy")
    /\ Acquire(Owner)
    /\ UNCHANGED <<endpointVars, hand, ownerVars, delegateVars, tasks, wire,
                   accepted>>

(* RegisterDelegate.                                                        *)

SetBound ==
    /\ Goto(Owner, "bind", "delegate")
    /\ state = "queueing"
    /\ state' = "bound"
    /\ UNCHANGED <<lock, delegate, runner, queue, hand, ownerVars,
                   delegateVars, tasks, wire, accepted>>

SetDelegate ==
    /\ Goto(Owner, "delegate", "runner")
    /\ ~delegate
    /\ delegate' = TRUE
    /\ UNCHANGED <<lock, state, runner, queue, hand, ownerVars, delegateVars,
                   tasks, wire, accepted>>

SetRunner ==
    /\ Goto(Owner, "runner", "drain")
    /\ ~runner
    /\ runner' = TRUE
    /\ UNCHANGED <<lock, state, delegate, queue, hand, ownerVars,
                   delegateVars, tasks, wire, accepted>>

\* Mutant: the newest message is posted first.
DrainOne_Newest ==
    /\ pc[Owner] = "drain"
    /\ queue # << >>
    /\ tasks' = Append(tasks, queue[Len(queue)])
    /\ queue' = SubSeq(queue, 1, Len(queue) - 1)
    /\ UNCHANGED <<lock, state, delegate, runner, pc, hand, ownerVars,
                   delegateVars, wire, accepted>>

\* One turn of the loop: post the front message, pop it.
DrainOne ==
    /\ pc[Owner] = "drain"
    /\ queue # << >>
    /\ tasks' = Append(tasks, Head(queue))
    /\ queue' = Tail(queue)
    /\ UNCHANGED <<lock, state, delegate, runner, pc, hand, ownerVars,
                   delegateVars, wire, accepted>>

\* Mutant: `if` instead of `while` around the drain.
Bound_Undrained ==
    /\ Goto(Owner, "drain", "done")
    /\ Release(Owner)
    /\ UNCHANGED <<endpointVars, hand, ownerVars, delegateVars, tasks, wire,
                   accepted>>

Bound ==
    /\ Goto(Owner, "drain", "done")
    /\ queue = << >>
    /\ Release(Owner)
    /\ UNCHANGED <<endpointVars, hand, ownerVars, delegateVars, tasks, wire,
                   accepted>>

(* Moving the endpoint.  A dependent endpoint is emptied, then set to       *)
(* proxying, then introduced by the message that carries it, then unlocked; *)
(* what was queued on it is written only afterwards.  An invitation's       *)
(* endpoint is set to proxying first, and flushed before it is unlocked.    *)

\* Mutant: the queue is copied, not moved out.
Take_Copy ==
    /\ Goto(Owner, "take", IF plan = "send" THEN "proxy" ELSE "flush")
    /\ ~delegate
    /\ taken' = queue
    /\ UNCHANGED <<lock, endpointVars, hand, plan, delegateVars, tasks, wire,
                   accepted>>

\* Mutant: the invitation's endpoint is unlocked before it is flushed.
Take_Unlock ==
    /\ Goto(Owner, "take", IF plan = "send" THEN "proxy" ELSE "flush")
    /\ ~delegate
    /\ taken' = queue
    /\ queue' = << >>
    /\ lock' = IF plan = "send" THEN lock ELSE NoThread
    /\ UNCHANGED <<state, delegate, runner, hand, plan, delegateVars, tasks,
                   wire, accepted>>

Take ==
    /\ Goto(Owner, "take", IF plan = "send" THEN "proxy" ELSE "flush")
    /\ ~delegate
    /\ taken' = queue
    /\ queue' = << >>
    /\ UNCHANGED <<lock, state, delegate, runner, hand, plan, delegateVars,
                   tasks, wire, accepted>>

\* Mutant: the dependent endpoint is unlocked once proxying, before the
\* message that introduces it is written.
SetProxying_Unlock ==
    /\ Goto(Owner, "proxy", IF plan = "send" THEN "introduce" ELSE "take")
    /\ state = "queueing"
    /\ state' = "proxying"
    /\ lock' = IF plan = "send" THEN NoThread ELSE lock
    /\ UNCHANGED <<delegate, runner, queue, hand, ownerVars, delegateVars,
                   tasks, wire, accepted>>

SetProxying ==
    /\ Goto(Owner, "proxy", IF plan = "send" THEN "introduce" ELSE "take")
    /\ state = "queueing"
    /\ state' = "proxying"
    /\ UNCHANGED <<lock, delegate, runner, queue, hand, ownerVars,
                   delegateVars, tasks, wire, accepted>>

Introduce ==
    /\ Goto(Owner, "introduce", "unlock")
    /\ wire' = Append(wire, Introduction)
    /\ UNCHANGED <<lock, endpointVars, hand, ownerVars, delegateVars, tasks,
                   accepted>>

UnlockDependent ==
    /\ Goto(Owner, "unlock", "flush")
    /\ Release(Owner)
    /\ UNCHANGED <<endpointVars, hand, ownerVars, delegateVars, tasks, wire,
                   accepted>>

FlushOne ==
    /\ pc[Owner] = "flush"
    /\ taken # << >>
    /\ wire' = Append(wire, Head(taken))
    /\ taken' = Tail(taken)
    /\ UNCHANGED <<lock, endpointVars, pc, hand, plan, delegateVars, tasks,
                   accepted>>

Flushed ==
    /\ Goto(Owner, "flush", "done")
    /\ taken = << >>
    /\ IF plan = "invite" THEN Release(Owner) ELSE UNCHANGED lock
    /\ UNCHANGED <<endpointVars, hand, ownerVars, delegateVars, tasks, wire,
                   accepted>>

OwnerStep == \/ SetBound \/ SetDelegate \/ SetRunner \/ DrainOne \/ Bound
             \/ Take \/ SetProxying \/ Introduce \/ UnlockDependent
             \/ FlushOne \/ Flushed
-----------------------------------------------------------------------------
(* The delegate's thread is the Owner's: `Receiver::Bind` posts to the task *)
(* runner of the thread that binds, which runs tasks when it is idle.       *)

\* ReceiverDelegate::DispatchMessageIfStillAlive.
RunTask ==
    /\ pc[Owner] = "done"
    /\ tasks # << >>
    /\ tasks' = Tail(tasks)
    /\ IF alive
       THEN delivered' = Append(delivered, Head(tasks)) /\ UNCHANGED dropped
       ELSE dropped' = Append(dropped, Head(tasks)) /\ UNCHANGED delivered
    /\ UNCHANGED <<lock, endpointVars, pc, hand, ownerVars, alive, wire,
                   accepted>>

\* Mutant: the Receiver's destructor unregisters its delegate the way
\* `UnregisterDelegate` would, were it called.
DestroyDelegate_Unregister ==
    /\ pc[Owner] = "done"
    /\ plan = "bind"
    /\ alive
    /\ alive' = FALSE
    /\ state' = "queueing"
    /\ UNCHANGED <<lock, delegate, runner, queue, pc, hand, ownerVars, tasks,
                   wire, accepted, delivered, dropped>>

\* The Receiver goes away; nothing tells the endpoint.
DestroyDelegate ==
    /\ pc[Owner] = "done"
    /\ plan = "bind"
    /\ alive
    /\ alive' = FALSE
    /\ UNCHANGED <<lock, endpointVars, pc, hand, ownerVars, tasks, wire,
                   accepted, delivered, dropped>>

Next ==
    \/ \E t \in Senders : Sender(t)
    \/ OwnerLock
    \/ OwnerStep
    \/ RunTask
    \/ DestroyDelegate

(* A thread that holds the lock or has work in hand goes on; nothing makes  *)
(* the application send, bind, move or destroy.                             *)
Fairness ==
    /\ \A t \in Senders : WF_vars(Observe(t) \/ Enqueue(t) \/ Post(t)
                                  \/ Forward(t) \/ SenderUnlock(t))
    /\ WF_vars(OwnerStep)
    /\ WF_vars(RunTask)

Spec == Init /\ [][Next]_vars
FairSpec == Spec /\ Fairness
-----------------------------------------------------------------------------
SenderSteps == {"idle", "locked", "queue", "post", "forward", "unlock"}
OwnerSteps == {"idle", "bind", "delegate", "runner", "drain", "take", "proxy",
               "introduce", "unlock", "flush", "done"}

Messages == Nat \ {Introduction}

\* Every variable stays within its type: what senders bring is never mistaken
\* for an introduction, and each thread stays in its own part of the code.
TypeOK ==
    /\ lock \in Threads \cup {NoThread}
    /\ state \in {"queueing", "bound", "proxying"}
    /\ delegate \in BOOLEAN /\ runner \in BOOLEAN /\ alive \in BOOLEAN
    /\ queue \in Seq(Messages) /\ taken \in Seq(Messages)
    /\ tasks \in Seq(Messages) /\ wire \in Seq(Nat)
    /\ accepted \in Seq(Messages)
    /\ delivered \in Seq(Messages) /\ dropped \in Seq(Messages)
    /\ hand \in [Senders -> Nat]
    /\ plan \in Plans
    /\ pc \in [Threads -> SenderSteps \cup OwnerSteps]
    /\ \A t \in Senders : pc[t] \in SenderSteps
    /\ pc[Owner] \in OwnerSteps

\* Is t between Lock() and Unlock()?  A dependent endpoint is flushed after it
\* was unlocked, an invitation's before.
InCriticalSection(t) ==
    IF t \in Senders THEN pc[t] # "idle"
    ELSE /\ pc[t] \notin {"idle", "done"}
         /\ pc[t] = "flush" => plan = "invite"

\* Whoever works on the endpoint holds its lock, and nobody leaves with the
\* lock still held, on whichever path through the state's cases ("Guarded by
\* `lock_`", endpoint.cc:23, 34, 62, 93): no two threads are at it at once.
Guarded == \A t \in Threads : InCriticalSection(t) <=> lock = t

\* The message a sender holds between the lock and its fate.
InHand == IF lock \in Senders /\ pc[lock] # "unlock" THEN <<hand[lock]>> ELSE << >>

\* What has left the endpoint, in order: dispatched, or on its way to the
\* endpoint that now represents it (the introduction is not a message).
Released ==
    CASE plan = "bind"   -> delivered \o dropped
      [] plan = "invite" -> wire
      [] plan = "send"   -> IF wire = << >> THEN << >> ELSE Tail(wire)

\* Everything that is still on its way, oldest first.
Pending == tasks \o (taken \o (queue \o InHand))

\* Every CHECK of endpoint.cc passes whenever a thread reaches it: a message
\* is queued only while no delegate is assigned (74), posted only with both
\* delegate and task runner in place (95-97), RegisterDelegate and
\* SetProxying find the endpoint queueing and unassigned (122-127, 154), and
\* TakeQueuedMessages finds no delegate (108).
ChecksHold ==
    /\ \A t \in Senders :
          /\ pc[t] = "queue" => state = "queueing" /\ ~delegate
          /\ pc[t] = "post" => state = "bound" /\ delegate /\ runner
    /\ pc[Owner] \in {"bind", "proxy"} => state = "queueing"
    /\ pc[Owner] = "delegate" => ~delegate
    /\ pc[Owner] = "runner" => ~runner
    /\ pc[Owner] = "drain" => state = "bound" /\ delegate /\ runner
    /\ pc[Owner] = "take" => ~delegate

\* A message is never left behind in the queue: once the endpoint is bound or
\* proxying and its lock is free, nothing would ever look at the queue again
\* (the first race of the comment above Endpoint::lock_).
NoneStranded ==
    state # "queueing" /\ lock = NoThread => queue = << >>

\* The introduction is written before any message for the endpoint it
\* introduces, or the target node would not know the endpoint (the comment
\* above `locked_dependent_endpoints`).
IntroducedFirst ==
    plan = "send" /\ wire # << >> =>
        wire[1] = Introduction /\ \A i \in 2..Len(wire) : wire[i] # Introduction

\* Every accepted message is in exactly one place until it is released, and is
\* released once: nothing is lost, nothing is duplicated, whatever the plan.
NoLossNoDup ==
    LET places == Released \o Pending
    IN /\ Len(places) = Len(accepted)
       /\ \A i \in 1..Len(accepted) : \E j \in 1..Len(places) : places[j] = accepted[i]

\* Messages leave the endpoint in the order in which it accepted them ("these
\* messages will be forwarded, in order", endpoint.h).  True of a receiver and
\* of an accepted invitation.
InOrder == plan # "send" => Released \o Pending = accepted

\* The promise of a pipe is about an endpoint that is bound or accepted; what
\* an endpoint that is moved writes is not in order (see InOrder), and counts
\* as released where it arrives.
Promised == IF plan = "send" THEN << >> ELSE Released

\* The endpoint implements the abstract pipe: each step of a sender or of the
\* owner accepts one message, releases the oldest one, or changes neither.
PipeOf == INSTANCE Pipe WITH Message <- 1..MaxMessages, released <- Promised
ImplementsPipe == PipeOf!Spec

\* A step never takes back a state: bound and proxying are for good, only an
\* endpoint that has left "queueing" ever lets a message go, and nothing is
\* dispatched to a receiver that is gone, though its endpoint stays bound.
StateIsFinal == [][/\ state # "queueing" => state' = state
                   /\ state = "queueing" => tasks' = tasks
                   /\ ~alive => delivered' = delivered]_vars

\* Once the owner has begun to bind or to move the endpoint, each message it
\* accepted, before or after, is eventually released.
Delivery ==
    \A n \in 1..MaxMessages :
        (pc[Owner] # "idle" /\ Len(accepted) >= n) ~> (Len(Released) >= n)
=============================================================================
